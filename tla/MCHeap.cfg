SPECIFICATION SafeSpec
CONSTANTS
  DefaultsAreObjects = FALSE
  Fresh = {o1, o2, o3, o4, o5, o6, o7, o8, o9, o10, o11, o12, o13, o14, o15, o16, o17, o18, o19, o20, o21, o22, o23, o24, o25, o26, o27, o28, o29, o30, o31, o32, o33, o34, o35, o36, o37, o38, o39, o40, o41, o42, o43, o44, o45, o46, o47, o48, o49, o50, o51, o52, o53, o54, o55, o56, o57, o58, o59, o60}
  MaxCalls = 3
INVARIANTS RootsHaveRoom NothingDangles RootsBalanced
