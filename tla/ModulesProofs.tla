----------------------------- MODULE ModulesProofs -----------------------------
(****************************************************************************)
(* Proofs about modules: what the compiler leaves in a module's variables   *)
(* and in its body, and that an import takes finished variables from the    *)
(* module it names.                                                         *)
(****************************************************************************)
EXTENDS Modules, Induction, SequenceTheorems

(****************************************************************************)
(* The code of a body.                                                      *)
(****************************************************************************)
Instruction ==
  ({"STORE_MODULE_VAR", "LOAD_MODULE_VAR"} \X Variable)
    \cup ({"IMPORT_MODULE"} \X Name) \cup ({"IMPORT_VARIABLE"} \X Variable \X Name)
    \cup {<<"END_MODULE">>, <<"RETURN">>, <<"switch">>, <<"fail">>}
Stores == {"STORE_MODULE_VAR", "IMPORT_VARIABLE"}

\* The variables that code gives a value to.
Stored(c) == {x \in Variable : \E i \in 1 .. Len(c) : c[i][1] \in Stores /\ c[i][2] = x}

\* Every import of a variable follows the import of its module.
Paired(c) ==
  \A i \in 1 .. Len(c) : c[i][1] = "IMPORT_VARIABLE" =>
    i > 1 /\ c[i - 1] = <<"IMPORT_MODULE", c[i][3]>>
NoEnd(c) == \A i \in 1 .. Len(c) : c[i][1] # "END_MODULE"

\* The code of statements, which END_MODULE is not in.
Inner(c) == c \in Seq(Instruction) /\ Paired(c) /\ NoEnd(c)

LEMMA InnerJoined ==
  ASSUME NEW c, Inner(c), NEW d, Inner(d)
  PROVE  Inner(c \o d) /\ Stored(c) \cup Stored(d) \subseteq Stored(c \o d)
<1>1. PICK j : j = c \o d
  OBVIOUS
<1>2. /\ j \in Seq(Instruction) /\ Len(j) = Len(c) + Len(d) /\ Len(c) \in Nat /\ Len(d) \in Nat
      /\ \A i \in 1 .. Len(c) : j[i] = c[i]
      /\ \A i \in 1 .. Len(d) : j[Len(c) + i] = d[i]
  BY <1>1 DEF Inner
<1>3. ASSUME NEW i \in 1 .. Len(j)
      PROVE  i \in 1 .. Len(c) \/ \E k \in 1 .. Len(d) : i = Len(c) + k
  <2>1. i \notin 1 .. Len(c) => i - Len(c) \in 1 .. Len(d) /\ i = Len(c) + (i - Len(c))
    BY <1>2
  <2> QED
    BY <2>1
<1>4. ASSUME NEW i \in 1 .. Len(j), j[i][1] = "IMPORT_VARIABLE"
      PROVE  i > 1 /\ j[i - 1] = <<"IMPORT_MODULE", j[i][3]>>
  <2>1. CASE i \in 1 .. Len(c)
    <3>1. i > 1 /\ c[i - 1] = <<"IMPORT_MODULE", c[i][3]>>
      BY <1>2, <1>4, <2>1 DEF Inner, Paired
    <3>2. i - 1 \in 1 .. Len(c)
      BY <2>1, <3>1
    <3> QED
      BY <1>2, <2>1, <3>1, <3>2
  <2>2. ASSUME NEW k \in 1 .. Len(d), i = Len(c) + k
        PROVE  i > 1 /\ j[i - 1] = <<"IMPORT_MODULE", j[i][3]>>
    <3>1. k > 1 /\ d[k - 1] = <<"IMPORT_MODULE", d[k][3]>>
      BY <1>2, <1>4, <2>2 DEF Inner, Paired
    <3>2. k - 1 \in 1 .. Len(d) /\ i - 1 = Len(c) + (k - 1) /\ i > 1
      BY <1>2, <2>2, <3>1
    <3> QED
      BY <1>2, <2>2, <3>1, <3>2
  <2> QED
    BY <1>3, <2>1, <2>2
<1>5. NoEnd(j)
  <2>1. ASSUME NEW i \in 1 .. Len(c) PROVE j[i][1] # "END_MODULE"
    BY <1>2 DEF Inner, NoEnd
  <2>2. ASSUME NEW k \in 1 .. Len(d) PROVE j[Len(c) + k][1] # "END_MODULE"
    BY <1>2 DEF Inner, NoEnd
  <2> QED
    BY <1>3, <2>1, <2>2 DEF NoEnd
<1>6. ASSUME NEW x \in Stored(c) \cup Stored(d) PROVE x \in Stored(j)
  <2>1. CASE x \in Stored(c)
    <3>1. PICK i \in 1 .. Len(c) : c[i][1] \in Stores /\ c[i][2] = x
      BY <2>1 DEF Stored
    <3>2. i \in 1 .. Len(j) /\ j[i] = c[i]
      BY <1>2
    <3> QED
      BY <2>1, <3>1, <3>2 DEF Stored
  <2>2. CASE x \in Stored(d)
    <3>1. PICK i \in 1 .. Len(d) : d[i][1] \in Stores /\ d[i][2] = x
      BY <2>2 DEF Stored
    <3>2. Len(c) + i \in 1 .. Len(j) /\ j[Len(c) + i] = d[i]
      BY <1>2
    <3> QED
      BY <2>2, <3>1, <3>2 DEF Stored
  <2> QED
    BY <2>1, <2>2
<1> QED
  BY <1>1, <1>2, <1>4, <1>5, <1>6 DEF Inner, Paired

\* What a statement is compiled to.
LEMMA InnerPieces ==
  /\ Inner(<<>>)
  /\ \A x \in Variable :
       /\ Inner(<< <<"STORE_MODULE_VAR", x>> >>) /\ x \in Stored(<< <<"STORE_MODULE_VAR", x>> >>)
       /\ Inner(<< <<"LOAD_MODULE_VAR", x>> >>)
  /\ \A m \in Name : Inner(<< <<"IMPORT_MODULE", m>> >>)
  /\ \A x \in Variable, m \in Name :
       /\ Inner(<< <<"IMPORT_MODULE", m>>, <<"IMPORT_VARIABLE", x, m>> >>)
       /\ x \in Stored(<< <<"IMPORT_MODULE", m>>, <<"IMPORT_VARIABLE", x, m>> >>)
  /\ \A op \in {"switch", "fail", "RETURN"} : Inner(<< <<op>> >>)
<1>1. Inner(<<>>)
  BY DEF Inner, Paired, NoEnd
<1>2. ASSUME NEW i \in Instruction, i[1] \notin {"IMPORT_VARIABLE", "END_MODULE"} PROVE Inner(<<i>>)
  BY <1>2 DEF Inner, Paired, NoEnd
<1>3. ASSUME NEW x \in Variable
      PROVE  /\ Inner(<< <<"STORE_MODULE_VAR", x>> >>) /\ Inner(<< <<"LOAD_MODULE_VAR", x>> >>)
             /\ x \in Stored(<< <<"STORE_MODULE_VAR", x>> >>)
  <2>1. <<"STORE_MODULE_VAR", x>> \in Instruction /\ <<"LOAD_MODULE_VAR", x>> \in Instruction
    BY DEF Instruction
  <2> QED
    BY <1>2, <2>1 DEF Stored, Stores
<1>4. ASSUME NEW m \in Name PROVE Inner(<< <<"IMPORT_MODULE", m>> >>)
  <2>1. <<"IMPORT_MODULE", m>> \in Instruction
    BY DEF Instruction
  <2> QED
    BY <1>2, <2>1
<1>5. ASSUME NEW x \in Variable, NEW m \in Name
      PROVE  /\ Inner(<< <<"IMPORT_MODULE", m>>, <<"IMPORT_VARIABLE", x, m>> >>)
             /\ x \in Stored(<< <<"IMPORT_MODULE", m>>, <<"IMPORT_VARIABLE", x, m>> >>)
  <2> DEFINE c == << <<"IMPORT_MODULE", m>>, <<"IMPORT_VARIABLE", x, m>> >>
  <2>1. c \in Seq(Instruction) /\ Len(c) = 2
    BY DEF Instruction
  <2>2. c[1] = <<"IMPORT_MODULE", m>> /\ c[2] = <<"IMPORT_VARIABLE", x, m>>
    OBVIOUS
  <2>3. /\ c[1][1] = "IMPORT_MODULE"
        /\ c[2][1] = "IMPORT_VARIABLE" /\ c[2][2] = x /\ c[2][3] = m
    BY <2>2
  <2> HIDE DEF c
  <2>4. Paired(c)
    <3>1. ASSUME NEW i \in 1 .. Len(c), c[i][1] = "IMPORT_VARIABLE"
          PROVE  i > 1 /\ c[i - 1] = <<"IMPORT_MODULE", c[i][3]>>
      <4>1. i = 2
        BY <2>1, <2>3, <3>1
      <4> QED
        BY <2>2, <2>3, <4>1
    <3> QED
      BY <3>1 DEF Paired
  <2>5. NoEnd(c) /\ x \in Stored(c)
    BY <2>1, <2>3 DEF NoEnd, Stored, Stores
  <2>6. Inner(c) /\ x \in Stored(c)
    BY <2>1, <2>4, <2>5 DEF Inner
  <2> QED
    BY <2>6 DEF c
<1>6. ASSUME NEW op \in {"switch", "fail", "RETURN"} PROVE Inner(<< <<op>> >>)
  <2>1. <<op>> \in Instruction
    BY DEF Instruction
  <2> QED
    BY <1>2, <2>1
<1> QED
  BY <1>1, <1>3, <1>4, <1>5, <1>6

(****************************************************************************)
(* The compiler.                                                            *)
(****************************************************************************)
CompilerState == [variables : [Variable -> Values], code : Seq(Instruction), hasError : BOOLEAN]

\* A variable without a value is given one in the code, and a line is left
\* only in a variable that was not there or had one.
Declared(v, s) ==
  /\ \A x \in Variable : s.variables[x] = "null" => v[x] = "null" \/ x \in Stored(s.code)
  /\ \A x \in Variable : s.variables[x] = "line" => v[x] \in {"absent", "line"}
  /\ \A x \in Variable : s.variables[x] = "absent" => v[x] = "absent"
Compiling(v, s) == s \in CompilerState /\ Inner(s.code) /\ Declared(v, s)

\* A statement that declares nothing.
LEMMA EmitKeeps ==
  ASSUME NEW v \in [Variable -> Values], NEW s, Compiling(v, s), NEW code, Inner(code)
  PROVE  Compiling(v, Emit(s, code))
<1>1. PICK t : t = Emit(s, code)
  OBVIOUS
<1>2. /\ t.variables = s.variables /\ t.hasError = s.hasError /\ t.code = s.code \o code
      /\ t = [variables |-> t.variables, code |-> t.code, hasError |-> t.hasError]
  BY <1>1 DEF Emit, Compiling, CompilerState
<1>3. Inner(t.code) /\ Stored(s.code) \subseteq Stored(t.code)
  BY <1>2, InnerJoined DEF Compiling
<1>4. t \in CompilerState
  BY <1>2, <1>3 DEF Compiling, CompilerState, Inner
<1>5. Declared(v, t)
  BY <1>2, <1>3 DEF Compiling, Declared
<1> QED
  BY <1>1, <1>3, <1>4, <1>5 DEF Compiling

\* A statement that defines a variable, and gives it a value.
LEMMA DefineKeeps ==
  ASSUME NEW v \in [Variable -> Values], NEW s, Compiling(v, s), NEW x \in Variable,
         NEW code, Inner(code), x \in Stored(code)
  PROVE  Compiling(v, Emit(MSCDefineVariable(s, x), code))
<1>1. PICK u : u = MSCDefineVariable(s, x)
  OBVIOUS
<1>2. PICK t : t = Emit(u, code)
  OBVIOUS
<1>3. /\ u.variables \in [Variable -> Values] /\ u.hasError \in BOOLEAN /\ u.code = s.code
      /\ \A y \in Variable : y # x => u.variables[y] = s.variables[y]
      /\ u.variables[x] \in {s.variables[x], "null"}
      /\ u \in CompilerState
  BY <1>1 DEF MSCDefineVariable, Compiling, CompilerState, Values
<1>4. /\ t.variables = u.variables /\ t.hasError = u.hasError /\ t.code = s.code \o code
      /\ t = [variables |-> t.variables, code |-> t.code, hasError |-> t.hasError]
  BY <1>2, <1>3 DEF Emit, CompilerState
<1>5. Inner(t.code) /\ Stored(s.code) \subseteq Stored(t.code) /\ x \in Stored(t.code)
  BY <1>4, InnerJoined DEF Compiling
<1>6. t \in CompilerState
  BY <1>3, <1>4, <1>5 DEF CompilerState, Inner
<1>7. Declared(v, t)
  <2>1. ASSUME NEW y \in Variable, t.variables[y] = "null"
        PROVE  v[y] = "null" \/ y \in Stored(t.code)
    BY <1>3, <1>4, <1>5, <2>1 DEF Compiling, Declared
  <2>2. ASSUME NEW y \in Variable, t.variables[y] = "line"
        PROVE  v[y] \in {"absent", "line"}
    BY <1>3, <1>4, <2>2 DEF Compiling, Declared
  <2>3. ASSUME NEW y \in Variable, t.variables[y] = "absent"
        PROVE  v[y] = "absent"
    BY <1>3, <1>4, <2>3 DEF Compiling, Declared
  <2> QED
    BY <2>1, <2>2, <2>3 DEF Declared
<1> QED
  BY <1>1, <1>2, <1>5, <1>6, <1>7 DEF Compiling

\* A statement that uses one.
LEMMA UseKeeps ==
  ASSUME NEW v \in [Variable -> Values], NEW s, Compiling(v, s), NEW x \in Variable
  PROVE  Compiling(v, MSCDeclareVariable(s, x))
<1>1. CASE s.variables[x] # "absent"
  BY <1>1 DEF MSCDeclareVariable
<1>2. CASE s.variables[x] = "absent"
  <2>1. v[x] = "absent"
    BY <1>2 DEF Compiling, Declared
  <2>2. PICK u : u = MSCDeclareVariable(s, x)
    OBVIOUS
  <2>3. /\ u \in CompilerState /\ u.code = s.code /\ u.variables[x] = "line"
        /\ \A y \in Variable : y # x => u.variables[y] = s.variables[y]
    BY <1>2, <2>2 DEF MSCDeclareVariable, Compiling, CompilerState, Values
  <2>4. Declared(v, u)
    BY <2>1, <2>3 DEF Compiling, Declared
  <2> QED
    BY <2>2, <2>3, <2>4 DEF Compiling
<1> QED
  BY <1>1, <1>2

\* A statement's kind says what its operands are.
LEMMA Operands ==
  ASSUME NEW statement \in Statement
  PROVE  /\ statement[1] \in {"define", "use"} => statement[2] \in Variable
         /\ statement[1] = "import" => statement[2] \in Name
         /\ statement[1] = "from" => statement[2] \in Variable /\ statement[3] \in Name
         /\ statement[1] \notin {"define", "use", "import", "from"} =>
              \E op \in {"switch", "fail", "RETURN"} : statement = <<op>>
  BY DEF Statement

LEMMA StatementKeeps ==
  ASSUME NEW v \in [Variable -> Values], NEW s, Compiling(v, s), NEW statement \in Statement
  PROVE  Compiling(v, CompileStatement(s, statement))
<1> DEFINE x == statement[2]
           m == statement[3]
<1>1. CASE statement[1] = "define"
  <2>1. x \in Variable
    BY <1>1, Operands
  <2>2. Inner(<< <<"STORE_MODULE_VAR", x>> >>) /\ x \in Stored(<< <<"STORE_MODULE_VAR", x>> >>)
    BY <2>1, InnerPieces
  <2> HIDE DEF x
  <2>3. Compiling(v, Emit(MSCDefineVariable(s, x), << <<"STORE_MODULE_VAR", x>> >>))
    BY <2>1, <2>2, DefineKeeps
  <2> QED
    BY <1>1, <2>3 DEF CompileStatement, x
<1>2. CASE statement[1] = "use"
  <2>1. x \in Variable
    BY <1>2, Operands
  <2>2. Inner(<< <<"LOAD_MODULE_VAR", x>> >>)
    BY <2>1, InnerPieces
  <2> HIDE DEF x
  <2>3. Compiling(v, Emit(MSCDeclareVariable(s, x), << <<"LOAD_MODULE_VAR", x>> >>))
    BY <2>1, <2>2, UseKeeps, EmitKeeps
  <2> QED
    BY <1>2, <2>3 DEF CompileStatement, x
<1>3. CASE statement[1] = "import"
  <2>1. x \in Name
    BY <1>3, Operands
  <2>2. Inner(<< <<"IMPORT_MODULE", x>> >>)
    BY <2>1, InnerPieces
  <2> HIDE DEF x
  <2>3. Compiling(v, Emit(s, << <<"IMPORT_MODULE", x>> >>))
    BY <2>1, <2>2, EmitKeeps
  <2> QED
    BY <1>3, <2>3 DEF CompileStatement, x
<1>4. CASE statement[1] = "from"
  <2>1. x \in Variable /\ m \in Name
    BY <1>4, Operands
  <2> DEFINE code == << <<"IMPORT_MODULE", m>>, <<"IMPORT_VARIABLE", x, m>> >>
  <2>2. Inner(code) /\ x \in Stored(code)
    BY <2>1, InnerPieces
  <2> HIDE DEF x, m, code
  <2>3. Compiling(v, Emit(MSCDefineVariable(s, x), code))
    BY <2>1, <2>2, DefineKeeps
  <2> QED
    BY <1>4, <2>3 DEF CompileStatement, x, m, code
<1>5. CASE statement[1] \notin {"define", "use", "import", "from"}
  <2>1. Inner(<<statement>>)
    BY <1>5, Operands, InnerPieces
  <2>2. Compiling(v, Emit(s, <<statement>>))
    BY <2>1, EmitKeeps
  <2> QED
    BY <1>5, <2>2 DEF CompileStatement
<1> QED
  BY <1>1, <1>2, <1>3, <1>4, <1>5

\* The state after each statement is the one before, compiled on.
LEMMA CompilationSteps ==
  ASSUME NEW v \in [Variable -> Values], NEW source \in Seq(Statement)
  PROVE  LET run == Compilation(v, source)
         IN  /\ run[0] = [variables |-> v, code |-> <<>>, hasError |-> FALSE]
             /\ \A n \in 1 .. Len(source) : run[n] = CompileStatement(run[n - 1], source[n])
<1> DEFINE first == [variables |-> v, code |-> <<>>, hasError |-> FALSE]
           Runs(f, n) == /\ f = [i \in 0 .. n |-> f[i]] /\ f[0] = first
                         /\ \A i \in 1 .. n : f[i] = CompileStatement(f[i - 1], source[i])
           T == {n \in Nat : \E f : Runs(f, n)}
<1>1. Len(source) \in Nat
  OBVIOUS
<1>2. 0 \in T
  <2> DEFINE f == [i \in 0 .. 0 |-> first]
  <2>1. f = [i \in 0 .. 0 |-> f[i]] /\ f[0] = first
    OBVIOUS
  <2> HIDE DEF f, first
  <2> QED
    BY <2>1
<1>3. ASSUME NEW n \in Nat, n \in T PROVE n + 1 \in T
  <2>1. PICK f : Runs(f, n)
    BY <1>3
  <2> DEFINE g == [i \in 0 .. n + 1 |-> IF i = n + 1 THEN CompileStatement(f[n], source[n + 1]) ELSE f[i]]
  <2> HIDE DEF first
  <2>2. g = [i \in 0 .. n + 1 |-> g[i]]
    OBVIOUS
  <2>3. g[0] = first
    BY <2>1
  <2>4. ASSUME NEW i \in 1 .. n + 1 PROVE g[i] = CompileStatement(g[i - 1], source[i])
    <3>1. CASE i = n + 1
      <4>1. i - 1 = n /\ n \in 0 .. n + 1 /\ n # n + 1
        BY <3>1
      <4>2. g[i - 1] = f[n]
        BY <4>1
      <4>3. g[i] = CompileStatement(f[n], source[n + 1])
        BY <3>1
      <4> QED
        BY <3>1, <4>2, <4>3
    <3>2. CASE i # n + 1
      <4>1. i \in 1 .. n /\ i - 1 \in 0 .. n + 1 /\ i - 1 # n + 1
        BY <3>2
      <4>2. g[i] = f[i] /\ g[i - 1] = f[i - 1]
        BY <3>2, <4>1
      <4> QED
        BY <2>1, <4>1, <4>2
    <3> QED
      BY <3>1, <3>2
  <2> HIDE DEF g
  <2>5. Runs(g, n + 1)
    BY <2>2, <2>3, <2>4, Zenon
  <2> HIDE DEF Runs
  <2> QED
    BY <2>5
<1>4. Len(source) \in T
  <2> HIDE DEF T
  <2> QED
    BY <1>1, <1>2, <1>3, NumbersByInduction
<1>5. PICK f : Runs(f, Len(source))
  BY <1>4
<1>6. f = [n \in 0 .. Len(source) |-> IF n = 0 THEN first ELSE CompileStatement(f[n - 1], source[n])]
  <2>1. \A n \in 0 .. Len(source) : f[n] = IF n = 0 THEN first ELSE CompileStatement(f[n - 1], source[n])
    <3>1. \A n \in 0 .. Len(source) : n = 0 \/ n \in 1 .. Len(source)
      BY <1>1
    <3> HIDE DEF first
    <3> QED
      BY <1>5, <3>1
  <2> HIDE DEF first
  <2> QED
    BY <1>5, <2>1
<1>7. PICK run : run = Compilation(v, source)
  OBVIOUS
<1>8. run = [n \in 0 .. Len(source) |-> IF n = 0 THEN first ELSE CompileStatement(run[n - 1], source[n])]
  BY <1>6, <1>7 DEF Compilation
<1>9. run[0] = first /\ \A n \in 1 .. Len(source) : run[n] = CompileStatement(run[n - 1], source[n])
  <2> HIDE DEF first
  <2> QED
    BY <1>1, <1>8
<1> QED
  BY <1>7, <1>9

\* What is in a source's variables and in its code.
LEMMA CompiledKeeps ==
  ASSUME NEW v \in [Variable -> Values], NEW source \in Seq(Statement)
  PROVE  Compiling(v, Compiled(v, source))
<1>1. PICK run : run = Compilation(v, source)
  OBVIOUS
<1>2. /\ run[0] = [variables |-> v, code |-> <<>>, hasError |-> FALSE]
      /\ \A n \in 1 .. Len(source) : run[n] = CompileStatement(run[n - 1], source[n])
      /\ Len(source) \in Nat
  BY <1>1, CompilationSteps
<1> DEFINE T == {n \in Nat : n <= Len(source) => Compiling(v, run[n])}
<1>3. 0 \in T
  <2>1. run[0] \in CompilerState
    BY <1>2 DEF CompilerState
  <2>2. Inner(run[0].code)
    BY <1>2, InnerPieces
  <2>3. Declared(v, run[0])
    BY <1>2 DEF Declared
  <2> QED
    BY <2>1, <2>2, <2>3 DEF Compiling
<1>4. ASSUME NEW n \in Nat, n \in T PROVE n + 1 \in T
  <2>1. SUFFICES ASSUME n + 1 <= Len(source) PROVE Compiling(v, run[n + 1])
    BY <1>4
  <2>2. /\ Compiling(v, run[n]) /\ source[n + 1] \in Statement
        /\ run[n + 1] = CompileStatement(run[n], source[n + 1])
    <3>1. n + 1 \in 1 .. Len(source) /\ (n + 1) - 1 = n /\ n <= Len(source)
      BY <1>2, <2>1
    <3> QED
      BY <1>2, <1>4, <3>1
  <2> QED
    BY <2>2, StatementKeeps
<1>5. Len(source) \in T
  <2> HIDE DEF T
  <2> QED
    BY <1>2, <1>3, <1>4, NumbersByInduction
<1> QED
  BY <1>1, <1>2, <1>5 DEF Compiled

\* The rest of a body's code: statements, then END_MODULE and RETURN.
CodeShape(c) ==
  /\ c \in Seq(Instruction) /\ Len(c) >= 1
  /\ \A i \in 1 .. Len(c) : c[i][1] = "END_MODULE" <=> i = Len(c) - 1
  /\ c[Len(c)][1] = "RETURN"
  /\ \A i \in 2 .. Len(c) : c[i][1] = "IMPORT_VARIABLE" => c[i - 1] = <<"IMPORT_MODULE", c[i][3]>>

AtImport(c) == c[1][1] = "IMPORT_VARIABLE"

\* What compiling a source into a module gives.
LEMMA ModuleCompiled ==
  ASSUME NEW v \in [Variable -> Values], NEW source \in Seq(Statement),
         NEW s, s = MSCCompile(v, source)
  PROVE  /\ s.variables \in [Variable -> Values] /\ s.hasError \in BOOLEAN
         /\ CodeShape(s.code) /\ Len(s.code) >= 2 /\ ~AtImport(s.code)
         /\ \A x \in Variable : s.variables[x] = "null" => v[x] = "null" \/ x \in Stored(s.code)
         /\ ~s.hasError => \A x \in Variable : s.variables[x] = "line" => v[x] = "line"
<1>1. PICK t : t = Compiled(v, source)
  OBVIOUS
<1>2. t \in CompilerState /\ Inner(t.code) /\ Declared(v, t)
  BY <1>1, CompiledKeeps DEF Compiling
<1>3. /\ s.variables = t.variables /\ s.code = Body(t)
      /\ s.hasError = (t.hasError \/ \E x \in Variable : v[x] = "absent" /\ IsNum(t.variables[x]))
  BY <1>1, <1>2 DEF MSCCompile, CompilerState
<1>4. PICK c : c = t.code
  OBVIOUS
<1>5. PICK j : j = Body(t)
  OBVIOUS
<1>6. /\ j = c \o << <<"END_MODULE">>, <<"RETURN">> >> /\ c \in Seq(Instruction)
      /\ Paired(c) /\ NoEnd(c)
  BY <1>2, <1>4, <1>5 DEF Body, Inner
<1>7. /\ j \in Seq(Instruction) /\ Len(j) = Len(c) + 2 /\ Len(c) \in Nat
      /\ \A i \in 1 .. Len(c) : j[i] = c[i]
      /\ j[Len(c) + 1] = <<"END_MODULE">> /\ j[Len(c) + 2] = <<"RETURN">>
  <2>1. <<"END_MODULE">> \in Instruction /\ <<"RETURN">> \in Instruction
    BY DEF Instruction
  <2> QED
    BY <1>6, <2>1
<1>8. \A i \in 1 .. Len(j) : i \in 1 .. Len(c) \/ i = Len(c) + 1 \/ i = Len(c) + 2
  BY <1>7
<1>9. j[Len(c) + 1][1] = "END_MODULE" /\ j[Len(c) + 2][1] = "RETURN"
  BY <1>7
<1>10. ASSUME NEW i \in 1 .. Len(j) PROVE j[i][1] = "END_MODULE" <=> i = Len(j) - 1
  <2>1. CASE i \in 1 .. Len(c)
    BY <1>6, <1>7, <2>1 DEF NoEnd
  <2>2. CASE i = Len(c) + 1 \/ i = Len(c) + 2
    BY <1>7, <1>9, <2>2
  <2> QED
    BY <1>8, <2>1, <2>2
<1>11. ASSUME NEW i \in 1 .. Len(j), j[i][1] = "IMPORT_VARIABLE"
       PROVE  i > 1 /\ j[i - 1] = <<"IMPORT_MODULE", j[i][3]>>
  <2>1. i \in 1 .. Len(c) /\ c[i][1] = "IMPORT_VARIABLE"
    BY <1>7, <1>8, <1>9, <1>11
  <2>2. i > 1 /\ c[i - 1] = <<"IMPORT_MODULE", c[i][3]>>
    BY <1>6, <2>1 DEF Paired
  <2>3. i - 1 \in 1 .. Len(c)
    BY <2>1, <2>2
  <2> QED
    BY <1>7, <2>1, <2>2, <2>3
<1>12. CodeShape(j) /\ Len(j) >= 2 /\ ~AtImport(j)
  <2>1. Len(j) >= 2 /\ 1 \in 1 .. Len(j) /\ j[Len(j)][1] = "RETURN"
    BY <1>7, <1>9
  <2>2. ~AtImport(j)
    BY <1>11, <2>1 DEF AtImport
  <2>3. \A i \in 2 .. Len(j) : j[i][1] = "IMPORT_VARIABLE" => j[i - 1] = <<"IMPORT_MODULE", j[i][3]>>
    BY <1>7, <1>11
  <2> QED
    BY <1>7, <1>10, <2>1, <2>2, <2>3 DEF CodeShape
<1>13. Stored(c) \subseteq Stored(j)
  <2>1. ASSUME NEW x \in Stored(c) PROVE x \in Stored(j)
    <3>1. PICK i \in 1 .. Len(c) : c[i][1] \in Stores /\ c[i][2] = x
      BY DEF Stored
    <3>2. i \in 1 .. Len(j) /\ j[i] = c[i]
      BY <1>7
    <3> QED
      BY <3>1, <3>2 DEF Stored
  <2> QED
    BY <2>1
<1>14. ASSUME NEW x \in Variable, s.variables[x] = "null" PROVE v[x] = "null" \/ x \in Stored(s.code)
  BY <1>2, <1>3, <1>4, <1>5, <1>13, <1>14 DEF Declared
<1>15. ASSUME ~s.hasError, NEW x \in Variable, s.variables[x] = "line" PROVE v[x] = "line"
  BY <1>2, <1>3, <1>15 DEF Declared, IsNum
<1>16. s.variables \in [Variable -> Values] /\ s.hasError \in BOOLEAN
  BY <1>2, <1>3 DEF CompilerState
<1> QED
  BY <1>3, <1>5, <1>12, <1>14, <1>15, <1>16

LEMMA CodeLength == ASSUME NEW c, CodeShape(c) PROVE Len(c) > 1 <=> Len(c) # 1
<1>1. PICK n : n = Len(c)
  OBVIOUS
<1>2. n \in Nat /\ n >= 1
  BY <1>1 DEF CodeShape
<1> QED
  BY <1>1, <1>2

\* One instruction further.
LEMMA OneOn ==
  ASSUME NEW c, CodeShape(c), Len(c) > 1
  PROVE  /\ CodeShape(Tail(c)) /\ Len(Tail(c)) = Len(c) - 1
         /\ AtImport(Tail(c)) => c[1] = <<"IMPORT_MODULE", Tail(c)[1][3]>>
         /\ Len(Tail(c)) = 1 <=> c[1][1] = "END_MODULE"
         /\ Stored(c) \subseteq Stored(Tail(c)) \cup {x \in Variable : c[1][1] \in Stores /\ c[1][2] = x}
<1>1. PICK t : t = Tail(c)
  OBVIOUS
<1>2. /\ t \in Seq(Instruction) /\ Len(t) = Len(c) - 1 /\ Len(c) \in Nat
      /\ \A i \in 1 .. Len(t) : t[i] = c[i + 1]
  BY <1>1 DEF CodeShape
<1>3. ASSUME NEW i \in 1 .. Len(t) PROVE t[i][1] = "END_MODULE" <=> i = Len(t) - 1
  <2>1. i + 1 \in 1 .. Len(c) /\ (i + 1 = Len(c) - 1 <=> i = Len(t) - 1)
    BY <1>2
  <2> QED
    BY <1>2, <2>1 DEF CodeShape
<1>4. ASSUME NEW i \in 1 .. Len(t), t[i][1] = "IMPORT_VARIABLE"
      PROVE  c[i] = <<"IMPORT_MODULE", t[i][3]>>
  <2>1. i + 1 \in 2 .. Len(c) /\ (i + 1) - 1 = i
    BY <1>2
  <2> QED
    BY <1>2, <1>4, <2>1 DEF CodeShape
<1>5. CodeShape(t)
  <2>1. Len(t) >= 1 /\ Len(t) \in 1 .. Len(t) /\ Len(t) + 1 = Len(c)
    BY <1>2
  <2>2. t[Len(t)][1] = "RETURN"
    BY <1>2, <2>1 DEF CodeShape
  <2>3. ASSUME NEW i \in 2 .. Len(t), t[i][1] = "IMPORT_VARIABLE"
        PROVE  t[i - 1] = <<"IMPORT_MODULE", t[i][3]>>
    <3>1. i \in 1 .. Len(t) /\ i - 1 \in 1 .. Len(t) /\ (i - 1) + 1 = i
      BY <1>2
    <3> QED
      BY <1>2, <1>4, <2>3, <3>1
  <2> QED
    BY <1>2, <1>3, <2>1, <2>2, <2>3 DEF CodeShape
<1>6. AtImport(t) => c[1] = <<"IMPORT_MODULE", t[1][3]>>
  <2>1. 1 \in 1 .. Len(t)
    BY <1>2
  <2> QED
    BY <1>4, <2>1 DEF AtImport
<1>7. Len(t) = 1 <=> c[1][1] = "END_MODULE"
  <2>1. 1 \in 1 .. Len(c) /\ (Len(t) = 1 <=> 1 = Len(c) - 1)
    BY <1>2
  <2> QED
    BY <2>1 DEF CodeShape
<1>8. ASSUME NEW x \in Stored(c), ~(c[1][1] \in Stores /\ c[1][2] = x) PROVE x \in Stored(t)
  <2>1. PICK i \in 1 .. Len(c) : c[i][1] \in Stores /\ c[i][2] = x
    BY DEF Stored
  <2>2. i # 1 /\ i - 1 \in 1 .. Len(t) /\ (i - 1) + 1 = i
    BY <1>2, <1>8, <2>1
  <2>3. t[i - 1] = c[i]
    BY <1>2, <2>2
  <2> QED
    BY <2>1, <2>2, <2>3 DEF Stored
<1> QED
  BY <1>1, <1>2, <1>5, <1>6, <1>7, <1>8 DEF Stored

(****************************************************************************)
(* The inductive invariant.                                                 *)
(****************************************************************************)
Types ==
  /\ modules \in [Name -> [Variable -> Values] \cup {None}]
  /\ lastModule \in Name \cup {None}
  /\ cur \in Djuru \cup {None}
  /\ frames \in [Djuru -> Seq([module : Name, code : Seq(Instruction)])]
  /\ broken \in SUBSET Name /\ left \in SUBSET Name /\ cut \in SUBSET Name

\* Every body is the rest of a body's code, of a module that is registered.
BodiesInv ==
  \A d \in Djuru : \A i \in 1 .. Len(frames[d]) :
    CodeShape(frames[d][i].code) /\ modules[frames[d][i].module] # None

\* A body that waits for another has code left; if it is about to import a
\* variable, it waits for the body of that variable's module.
Waits(fs) ==
  \A d \in Djuru : \A i \in 1 .. Len(fs[d]) - 1 :
    /\ Len(fs[d][i].code) > 1
    /\ AtImport(fs[d][i].code) => fs[d][i + 1].module = fs[d][i].code[1][3]
WaitingInv == Waits(frames)

\* Nothing comes between an import and the variables it takes, and between the
\* end of a body and the return to its importer, in any djuru.
TopInv ==
  \A d \in Djuru : frames[d] # <<>> =>
    /\ Len(Last(frames[d]).code) = 1 => d = cur /\ lastModule = Last(frames[d]).module
    /\ AtImport(Last(frames[d]).code) =>
         /\ d = cur
         /\ lastModule = Last(frames[d]).code[1][3] \/ Last(frames[d]).code[1][3] \in left

CurInv == cur # None => frames[cur] # <<>>
LastInv == lastModule # None => modules[lastModule] # None

\* A module that compiled has no line numbers.
LinesInv ==
  \A m \in Name \ broken : modules[m] # None => \A x \in Variable : modules[m][x] # "line"

\* A variable that has no value yet is given one by a body that is not over.
NullsInv ==
  \A m \in Name \ (broken \cup left \cup cut) : \A x \in Variable :
    modules[m] # None /\ modules[m][x] = "null" =>
      \E d \in Djuru : \E i \in 1 .. Len(frames[d]) :
        frames[d][i].module = m /\ x \in Stored(frames[d][i].code)

IInv == Types /\ BodiesInv /\ WaitingInv /\ TopInv /\ CurInv /\ LastInv /\ LinesInv /\ NullsInv

BodyType == [module : Name, code : Seq(Instruction)]

\* The body that runs.
LEMMA TopBody ==
  ASSUME IInv, cur # None
  PROVE  /\ cur \in Djuru /\ frames[cur] \in Seq(BodyType) /\ Len(frames[cur]) \in Nat
         /\ Len(frames[cur]) >= 1
         /\ Frame = frames[cur][Len(frames[cur])] /\ Frame \in BodyType
         /\ CodeShape(Frame.code) /\ modules[Frame.module] # None
<1>1. cur \in Djuru /\ frames[cur] \in Seq(BodyType) /\ frames[cur] # <<>>
  BY DEF IInv, Types, CurInv, BodyType
<1>2. Len(frames[cur]) \in Nat /\ Len(frames[cur]) >= 1
  BY <1>1
<1>3. Frame = frames[cur][Len(frames[cur])] /\ Len(frames[cur]) \in 1 .. Len(frames[cur])
  BY <1>2 DEF Frame, Last
<1>4. Frame \in BodyType
  BY <1>1, <1>3
<1>5. CodeShape(Frame.code) /\ modules[Frame.module] # None
  BY <1>1, <1>3 DEF IInv, BodiesInv
<1> QED
  BY <1>1, <1>2, <1>3, <1>4, <1>5

\* The frames after an instruction.
LEMMA AdvancedFrames ==
  ASSUME IInv, cur # None, Len(Frame.code) > 1
  PROVE  /\ Advanced \in [Djuru -> Seq(BodyType)]
         /\ \A d \in Djuru : Len(Advanced[d]) = Len(frames[d])
         /\ \A d \in Djuru : \A i \in 1 .. Len(frames[d]) :
              ~(d = cur /\ i = Len(frames[cur])) => Advanced[d][i] = frames[d][i]
         /\ Advanced[cur][Len(frames[cur])].module = Frame.module
         /\ Advanced[cur][Len(frames[cur])].code = Tail(Frame.code)
<1>0. PICK fs, f, k, t : fs = Advanced /\ f = Frame /\ k = Len(frames[cur]) /\ t = Tail(Frame.code)
  OBVIOUS
<1>1. /\ cur \in Djuru /\ frames[cur] \in Seq(BodyType) /\ k \in Nat /\ k >= 1
      /\ f = frames[cur][k] /\ f \in BodyType /\ CodeShape(f.code)
      /\ frames \in [Djuru -> Seq(BodyType)]
  BY <1>0, TopBody DEF IInv, Types, BodyType
<1>2. PICK new : new = [f EXCEPT !.code = Tail(@)]
  OBVIOUS
<1>3. t \in Seq(Instruction)
  <2>1. t = Tail(f.code) /\ f.code \in Seq(Instruction) /\ Len(f.code) > 1
    BY <1>0, <1>1 DEF CodeShape
  <2> QED
    BY ONLY <2>1
<1>4. new.module = f.module /\ new.code = t /\ new \in BodyType
  BY <1>0, <1>1, <1>2, <1>3 DEF BodyType
<1>5. fs = [frames EXCEPT ![cur] = [frames[cur] EXCEPT ![k] = new]]
  BY <1>0, <1>1, <1>2 DEF Advanced
<1>6. PICK F : F = [frames[cur] EXCEPT ![k] = new]
  OBVIOUS
<1>7. /\ F \in Seq(BodyType) /\ Len(F) = Len(frames[cur]) /\ F[k] = new
      /\ \A i \in 1 .. Len(frames[cur]) : i # k => F[i] = frames[cur][i]
  <2>1. k \in 1 .. Len(frames[cur])
    BY <1>0, <1>1
  <2> QED
    BY <1>1, <1>4, <1>6, <2>1, ExceptSeq
<1>8. fs = [frames EXCEPT ![cur] = F]
  BY <1>5, <1>6
<1>9. fs[cur] = F /\ \A d \in Djuru : d # cur => fs[d] = frames[d]
  BY <1>1, <1>8
<1>10. fs \in [Djuru -> Seq(BodyType)]
  BY <1>1, <1>7, <1>8
<1>11. \A d \in Djuru : Len(fs[d]) = Len(frames[d])
  BY <1>7, <1>9
<1>12. ASSUME NEW d \in Djuru, NEW i \in 1 .. Len(frames[d]), ~(d = cur /\ i = k)
       PROVE  fs[d][i] = frames[d][i]
  BY <1>7, <1>9, <1>12
<1> QED
  BY <1>0, <1>4, <1>7, <1>9, <1>10, <1>11, <1>12

\* An instruction that leaves the bodies as they are, but for its own.
LEMMA AdvanceKeeps ==
  ASSUME IInv, cur # None, Len(Frame.code) > 1, frames' = Advanced,
         modules' \in [Name -> [Variable -> Values] \cup {None}],
         \A m \in Name : modules[m] # None => modules'[m] # None,
         LinesInv', LastInv', lastModule' \in Name \cup {None},
         \A m \in Name : \A x \in Variable : modules'[m] # None /\ modules'[m][x] = "null" =>
           /\ modules[m] # None /\ modules[m][x] = "null"
           /\ ~(m = Frame.module /\ Frame.code[1][1] \in Stores /\ Frame.code[1][2] = x),
         cur' \in {None} \cup Waiting(frames),
         Len(Tail(Frame.code)) = 1 => cur' = cur /\ lastModule' = Frame.module,
         AtImport(Tail(Frame.code)) => cur' = cur /\ lastModule' = Tail(Frame.code)[1][3],
         UNCHANGED history
  PROVE  IInv'
<1>1. PICK fs : fs = Advanced
  OBVIOUS
<1>2. PICK f, k : f = Frame /\ k = Len(frames[cur])
  OBVIOUS
<1>3. /\ cur \in Djuru /\ frames[cur] \in Seq(BodyType) /\ k \in Nat /\ k >= 1
      /\ f = frames[cur][k] /\ f \in BodyType /\ CodeShape(f.code) /\ modules[f.module] # None
      /\ frames \in [Djuru -> Seq(BodyType)] /\ frames' = fs
  BY <1>1, <1>2, TopBody DEF IInv, Types, BodyType
<1>4. PICK t : t = Tail(f.code)
  OBVIOUS
<1>5. /\ CodeShape(t) /\ Len(t) = Len(f.code) - 1
      /\ Stored(f.code) \subseteq Stored(t) \cup {x \in Variable : f.code[1][1] \in Stores /\ f.code[1][2] = x}
  BY <1>2, <1>3, <1>4, OneOn
<1>6. /\ fs \in [Djuru -> Seq(BodyType)]
      /\ \A d \in Djuru : Len(fs[d]) = Len(frames[d])
      /\ \A d \in Djuru : \A i \in 1 .. Len(frames[d]) :
           ~(d = cur /\ i = k) => fs[d][i] = frames[d][i]
      /\ fs[cur][k].module = f.module /\ fs[cur][k].code = t
  <2>1. /\ Advanced \in [Djuru -> Seq(BodyType)]
        /\ \A d \in Djuru : Len(Advanced[d]) = Len(frames[d])
        /\ \A d \in Djuru : \A i \in 1 .. Len(frames[d]) :
             ~(d = cur /\ i = Len(frames[cur])) => Advanced[d][i] = frames[d][i]
        /\ Advanced[cur][Len(frames[cur])].module = Frame.module
        /\ Advanced[cur][Len(frames[cur])].code = Tail(Frame.code)
    BY AdvancedFrames
  <2> QED
    BY <1>1, <1>2, <1>4, <2>1
<1>7. ASSUME NEW d \in Djuru PROVE frames[d] \in Seq(BodyType) /\ fs[d] \in Seq(BodyType) /\ (fs[d] # <<>> <=> frames[d] # <<>>)
  BY <1>3, <1>6
<1>8. BodiesInv'
  <2>1. ASSUME NEW d \in Djuru, NEW i \in 1 .. Len(fs[d])
        PROVE  CodeShape(fs[d][i].code) /\ modules'[fs[d][i].module] # None
    <3>1. i \in 1 .. Len(frames[d]) /\ frames[d][i] \in BodyType
      BY <1>6, <1>7
    <3>2. CASE d = cur /\ i = k
      BY <1>3, <1>5, <1>6, <3>2 DEF BodyType
    <3>3. CASE ~(d = cur /\ i = k)
      BY <1>6, <3>1, <3>3 DEF IInv, BodiesInv, BodyType
    <3> QED
      BY <3>2, <3>3
  <2> QED
    BY <1>3, <2>1 DEF BodiesInv
<1>9. WaitingInv'
  <2>1. ASSUME NEW d \in Djuru, NEW i \in 1 .. Len(fs[d]) - 1
        PROVE  /\ Len(fs[d][i].code) > 1
               /\ AtImport(fs[d][i].code) => fs[d][i + 1].module = fs[d][i].code[1][3]
    <3>1. i \in 1 .. Len(frames[d]) - 1 /\ i \in 1 .. Len(frames[d]) /\ i + 1 \in 1 .. Len(frames[d])
      BY <1>6, <1>7
    <3>2. ~(d = cur /\ i = k)
      BY <1>2, <1>3, <3>1
    <3>3. fs[d][i] = frames[d][i] /\ fs[d][i + 1].module = frames[d][i + 1].module
      BY <1>3, <1>6, <3>1, <3>2
    <3> QED
      BY <3>1, <3>3 DEF IInv, WaitingInv, Waits
  <2>2. frames' = fs
    BY <1>3
  <2>3. Waits(fs)
    BY <2>1 DEF Waits
  <2> QED
    BY <2>2, <2>3 DEF WaitingInv
<1>10. TopInv'
  <2>1. ASSUME NEW d \in Djuru, fs[d] # <<>>, d # cur
        PROVE  Len(Last(fs[d]).code) # 1 /\ ~AtImport(Last(fs[d]).code)
    <3>1. Last(fs[d]) = Last(frames[d]) /\ frames[d] # <<>>
      <4>1. frames[d] # <<>> /\ Len(frames[d]) \in 1 .. Len(frames[d])
        BY <1>7, <2>1
      <4> QED
        BY <1>6, <2>1, <4>1 DEF Last
    <3> QED
      BY <2>1, <3>1 DEF IInv, TopInv
  <2>2. Last(fs[cur]).code = t /\ Last(fs[cur]).module = f.module
    BY <1>2, <1>3, <1>6 DEF Last
  <2>3. Len(t) = 1 => cur' = cur /\ lastModule' = f.module
    BY <1>2, <1>4
  <2>4. AtImport(t) => cur' = cur /\ lastModule' = t[1][3]
    BY <1>2, <1>4
  <2>5. ASSUME NEW d \in Djuru, fs[d] # <<>>
        PROVE  /\ Len(Last(fs[d]).code) = 1 => d = cur' /\ lastModule' = Last(fs[d]).module
               /\ AtImport(Last(fs[d]).code) =>
                    d = cur' /\ (lastModule' = Last(fs[d]).code[1][3] \/ Last(fs[d]).code[1][3] \in left')
    <3>1. CASE d = cur
      BY <2>2, <2>3, <2>4, <3>1
    <3>2. CASE d # cur
      BY <2>1, <2>5, <3>2
    <3> QED
      BY <3>1, <3>2
  <2> QED
    BY <1>3, <2>5 DEF TopInv
<1>11. CurInv'
  <2>1. cur' # None => cur' \in Djuru /\ frames[cur'] # <<>>
    BY DEF Waiting
  <2> QED
    BY <1>3, <1>7, <2>1 DEF CurInv
<1>12. NullsInv'
  <2>1. ASSUME NEW m \in Name \ (broken \cup left \cup cut), NEW x \in Variable,
               modules'[m] # None, modules'[m][x] = "null"
        PROVE  \E d \in Djuru : \E i \in 1 .. Len(fs[d]) : fs[d][i].module = m /\ x \in Stored(fs[d][i].code)
    <3>1. /\ modules[m] # None /\ modules[m][x] = "null"
          /\ ~(m = f.module /\ f.code[1][1] \in Stores /\ f.code[1][2] = x)
      BY <1>2, <2>1
    <3>2. PICK d \in Djuru : \E i \in 1 .. Len(frames[d]) : frames[d][i].module = m /\ x \in Stored(frames[d][i].code)
      BY <3>1 DEF IInv, NullsInv
    <3>3. PICK i \in 1 .. Len(frames[d]) : frames[d][i].module = m /\ x \in Stored(frames[d][i].code)
      BY <3>2
    <3>4. i \in 1 .. Len(fs[d]) /\ fs[d][i].module = m /\ x \in Stored(fs[d][i].code)
      <4>1. CASE d = cur /\ i = k
        <5>1. x \in Stored(t)
          BY <1>3, <1>5, <3>1, <3>3, <4>1
        <5> QED
          BY <1>3, <1>6, <3>3, <4>1, <5>1
      <4>2. CASE ~(d = cur /\ i = k)
        BY <1>6, <3>3, <4>2
      <4> QED
        BY <4>1, <4>2
    <3> QED
      BY <3>4
  <2> QED
    BY <1>3, <2>1 DEF NullsInv, history
<1>13. Types'
  <2>1. cur' \in Djuru \cup {None} /\ broken' = broken /\ left' = left /\ cut' = cut
    BY DEF Waiting, history
  <2>2. broken \in SUBSET Name /\ left \in SUBSET Name /\ cut \in SUBSET Name
    BY DEF IInv, Types
  <2> QED
    BY <1>3, <1>6, <2>1, <2>2 DEF Types, BodyType
<1> QED
  BY <1>8, <1>9, <1>10, <1>11, <1>12, <1>13 DEF IInv

\* The instruction that is next, and what follows it.
LEMMA NextInstruction ==
  ASSUME IInv, NEW op, At(op)
  PROVE  /\ cur # None /\ Frame.code[1][1] = op /\ Operand = Frame.code[1][2]
         /\ Frame.module \in Name /\ modules[Frame.module] \in [Variable -> Values]
         /\ op \in Stores \cup {"LOAD_MODULE_VAR"} => Operand \in Variable
         /\ op = "IMPORT_MODULE" => Operand \in Name
         /\ op = "IMPORT_VARIABLE" => Frame.code[1][3] \in Name
         /\ op # "RETURN" =>
              /\ Len(Frame.code) > 1
              /\ Len(Tail(Frame.code)) = 1 => op = "END_MODULE"
              /\ AtImport(Tail(Frame.code)) => op = "IMPORT_MODULE" /\ Operand = Tail(Frame.code)[1][3]
<1>1. cur # None /\ Head(Frame.code)[1] = op /\ Operand = Head(Frame.code)[2]
  BY DEF At, Operand
<1>2. Frame \in BodyType /\ CodeShape(Frame.code) /\ modules[Frame.module] # None
  BY <1>1, TopBody
<1>3. PICK c : c = Frame.code
  OBVIOUS
<1>4. /\ c \in Seq(Instruction) /\ Len(c) >= 1 /\ CodeShape(c)
      /\ c[1] \in Instruction /\ c[1][1] = op /\ Operand = c[1][2]
  BY <1>1, <1>2, <1>3 DEF CodeShape
<1>5. Frame.module \in Name /\ modules[Frame.module] \in [Variable -> Values]
  BY <1>2 DEF BodyType, IInv, Types
<1>6. /\ op \in Stores \cup {"LOAD_MODULE_VAR"} => c[1][2] \in Variable
      /\ op = "IMPORT_MODULE" => c[1][2] \in Name
      /\ op = "IMPORT_VARIABLE" => c[1][3] \in Name
  BY <1>4 DEF Instruction, Stores
<1>7. ASSUME op # "RETURN"
      PROVE  /\ Len(c) > 1
             /\ Len(Tail(c)) = 1 => op = "END_MODULE"
             /\ AtImport(Tail(c)) => op = "IMPORT_MODULE" /\ Operand = Tail(c)[1][3]
  <2>1. Len(c) > 1
    BY <1>4, <1>7 DEF CodeShape
  <2>2. Len(Tail(c)) = 1 <=> c[1][1] = "END_MODULE"
    BY <1>4, <2>1, OneOn
  <2>3. AtImport(Tail(c)) => c[1] = <<"IMPORT_MODULE", Tail(c)[1][3]>>
    BY <1>4, <2>1, OneOn
  <2> QED
    BY <1>4, <2>1, <2>2, <2>3
<1> QED
  BY <1>1, <1>3, <1>4, <1>5, <1>6, <1>7

\* An instruction that changes no variable.
LEMMA ReadingKeeps ==
  ASSUME IInv, NEW op, At(op), op \notin Stores \cup {"RETURN"}, frames' = Advanced,
         UNCHANGED <<modules, history>>,
         lastModule' \in Name \cup {None}, lastModule' # None => modules[lastModule'] # None,
         cur' \in {None} \cup Waiting(frames),
         op = "END_MODULE" => cur' = cur /\ lastModule' = Frame.module,
         op = "IMPORT_MODULE" => cur' = cur /\ lastModule' = Operand
  PROVE  IInv'
<1>1. cur # None /\ Frame.code[1][1] = op
  BY NextInstruction
<1>2. /\ Len(Frame.code) > 1
      /\ Len(Tail(Frame.code)) = 1 => op = "END_MODULE"
      /\ AtImport(Tail(Frame.code)) => op = "IMPORT_MODULE" /\ Operand = Tail(Frame.code)[1][3]
  BY NextInstruction
<1>3. /\ modules' = modules /\ broken' = broken /\ UNCHANGED history
      /\ modules \in [Name -> [Variable -> Values] \cup {None}] /\ LinesInv
  BY DEF history, IInv, Types
<1>4. LinesInv' /\ LastInv'
  BY <1>3 DEF LinesInv, LastInv
<1>5. Len(Tail(Frame.code)) = 1 => cur' = cur /\ lastModule' = Frame.module
  BY <1>2
<1>6. AtImport(Tail(Frame.code)) => cur' = cur /\ lastModule' = Tail(Frame.code)[1][3]
  BY <1>2
<1>7. /\ modules' \in [Name -> [Variable -> Values] \cup {None}]
      /\ \A m \in Name : modules[m] # None => modules'[m] # None
  BY <1>3
<1>8. \A m \in Name : \A x \in Variable : modules'[m] # None /\ modules'[m][x] = "null" =>
        /\ modules[m] # None /\ modules[m][x] = "null"
        /\ ~(m = Frame.module /\ Frame.code[1][1] \in Stores /\ Frame.code[1][2] = x)
  BY <1>1, <1>3
<1> QED
  BY <1>1, <1>2, <1>3, <1>4, <1>5, <1>6, <1>7, <1>8, AdvanceKeeps

LEMMA ReadingSteps ==
  ASSUME IInv, LOAD_MODULE_VAR \/ END_MODULE \/ AlreadyLoaded \/ Switch
  PROVE  IInv'
<1>1. lastModule \in Name \cup {None} /\ (lastModule # None => modules[lastModule] # None)
  BY DEF IInv, Types, LastInv
<1>2. ASSUME cur # None PROVE cur \in Waiting(frames)
  <2>1. cur \in Djuru /\ frames[cur] # <<>>
    BY <1>2, TopBody
  <2> QED
    BY <2>1 DEF Waiting
<1>3. ASSUME NEW op, At(op) PROVE cur # None /\ cur \in {None} \cup Waiting(frames)
  BY <1>2, <1>3, NextInstruction
<1>4. CASE LOAD_MODULE_VAR
  <2>1. At("LOAD_MODULE_VAR") /\ frames' = Advanced /\ UNCHANGED <<modules, history>>
        /\ lastModule' = lastModule /\ cur' = cur
    BY <1>4 DEF LOAD_MODULE_VAR
  <2>2. cur' \in {None} \cup Waiting(frames)
    BY <1>3, <2>1
  <2> QED
    BY <1>1, <2>1, <2>2, ReadingKeeps DEF Stores
<1>5. CASE END_MODULE
  <2>1. At("END_MODULE") /\ frames' = Advanced /\ UNCHANGED <<modules, history>>
        /\ lastModule' = Frame.module /\ cur' = cur
    BY <1>5 DEF END_MODULE
  <2>2. cur' \in {None} \cup Waiting(frames)
    BY <1>3, <2>1
  <2>3. modules[Frame.module] # None
    BY <1>3, <2>1, TopBody
  <2>4. Frame.module \in Name
    BY <2>1, NextInstruction
  <2> QED
    BY <2>1, <2>2, <2>3, <2>4, ReadingKeeps DEF Stores
<1>6. CASE AlreadyLoaded
  <2>1. At("IMPORT_MODULE") /\ frames' = Advanced /\ UNCHANGED <<modules, history>>
        /\ lastModule' = Operand /\ modules[Operand] # None /\ cur' = cur
    BY <1>6 DEF AlreadyLoaded
  <2>2. cur' \in {None} \cup Waiting(frames)
    BY <1>3, <2>1
  <2>3. Operand \in Name
    BY <2>1, NextInstruction
  <2> QED
    BY <2>1, <2>2, <2>3, ReadingKeeps DEF Stores
<1>7. CASE Switch
  <2>1. At("switch") /\ frames' = Advanced /\ UNCHANGED <<modules, history>>
        /\ lastModule' = lastModule /\ cur' \in {None} \cup Waiting(frames)
    BY <1>7 DEF Switch
  <2> QED
    BY <1>1, <2>1, ReadingKeeps DEF Stores
<1> QED
  BY <1>4, <1>5, <1>6, <1>7

\* A value that is stored, or imported, is not null.
LEMMA WritingKeeps ==
  ASSUME IInv, NEW op \in Stores, At(op), frames' = Advanced,
         NEW v \in {"number", "object"},
         modules' = [modules EXCEPT ![Frame.module][Operand] = v],
         UNCHANGED <<lastModule, cur, history>>
  PROVE  IInv'
<1>1. PICK m, x : m = Frame.module /\ x = Operand
  OBVIOUS
<1>2. /\ cur # None /\ Frame.code[1][1] = op /\ x = Frame.code[1][2] /\ x \in Variable
      /\ m \in Name /\ modules[m] \in [Variable -> Values]
      /\ Len(Frame.code) > 1 /\ Len(Tail(Frame.code)) # 1 /\ ~AtImport(Tail(Frame.code))
  BY <1>1, NextInstruction DEF Stores
<1>3. modules' = [modules EXCEPT ![m] = [modules[m] EXCEPT ![x] = v]]
  BY <1>1
<1>4. PICK ms : ms = modules'
  OBVIOUS
<1>5. modules \in [Name -> [Variable -> Values] \cup {None}] /\ v \in Values
      /\ None \notin [Variable -> Values]
  BY ModulesAssumption DEF IInv, Types, Values
<1>6. PICK w : w = [modules[m] EXCEPT ![x] = v]
  OBVIOUS
<1>7. w \in [Variable -> Values] /\ w[x] = v /\ \A y \in Variable : y # x => w[y] = modules[m][y]
  BY <1>2, <1>5, <1>6
<1>8. ms \in [Name -> [Variable -> Values] \cup {None}] /\ ms[m] = w
      /\ \A n \in Name : n # m => ms[n] = modules[n]
  BY <1>2, <1>3, <1>4, <1>5, <1>6, <1>7
<1>9. \A n \in Name : modules[n] # None => ms[n] # None
  BY <1>5, <1>7, <1>8
<1>10. /\ lastModule' = lastModule /\ cur' = cur /\ broken' = broken
       /\ lastModule \in Name \cup {None} /\ LastInv /\ LinesInv
  BY DEF history, IInv, Types
<1>11. LastInv'
  BY <1>4, <1>9, <1>10 DEF LastInv
<1>12. LinesInv'
  <2>1. ASSUME NEW n \in Name \ broken, ms[n] # None, NEW y \in Variable
        PROVE  ms[n][y] # "line"
    <3>1. CASE n = m
      <4>1. modules[m] # None
        BY <1>2, <1>5
      <4>2. modules[m][y] # "line"
        BY <1>10, <2>1, <3>1, <4>1 DEF LinesInv
      <4>3. w[y] # "line"
        BY <1>7, <4>2
      <4> QED
        BY <1>8, <3>1, <4>3
    <3>2. CASE n # m
      BY <1>8, <1>10, <2>1, <3>2 DEF LinesInv
    <3> QED
      BY <3>1, <3>2
  <2> QED
    BY <1>4, <1>10, <2>1 DEF LinesInv
<1>13. ASSUME NEW n \in Name, NEW y \in Variable, ms[n] # None, ms[n][y] = "null"
       PROVE  /\ modules[n] # None /\ modules[n][y] = "null"
              /\ ~(n = m /\ y = x)
  <2>1. CASE n = m
    <3>1. y # x /\ modules[m][y] = "null"
      BY <1>7, <1>8, <1>13, <2>1
    <3> QED
      BY <1>2, <1>5, <2>1, <3>1
  <2>2. CASE n # m
    BY <1>8, <1>13, <2>2
  <2> QED
    BY <2>1, <2>2
<1>14. cur' \in {None} \cup Waiting(frames)
  <2>1. frames[cur] # <<>> /\ cur \in Djuru
    BY <1>2, TopBody
  <2> QED
    BY <1>10, <2>1 DEF Waiting
<1>15. \A n \in Name : \A y \in Variable : modules'[n] # None /\ modules'[n][y] = "null" =>
         /\ modules[n] # None /\ modules[n][y] = "null"
         /\ ~(n = Frame.module /\ Frame.code[1][1] \in Stores /\ Frame.code[1][2] = y)
  BY <1>1, <1>2, <1>4, <1>13
<1>16. modules' \in [Name -> [Variable -> Values] \cup {None}]
       /\ \A n \in Name : modules[n] # None => modules'[n] # None
  BY <1>4, <1>8, <1>9
<1>17. lastModule' \in Name \cup {None}
  BY <1>10
<1> QED
  BY <1>2, <1>11, <1>12, <1>14, <1>15, <1>16, <1>17, AdvanceKeeps

\* Compiling a source into a module, new or not.
LEMMA CompileKeeps ==
  ASSUME IInv, NEW name \in Name, NEW source \in Sources, compileInModule(name, source)
  PROVE  /\ modules' \in [Name -> [Variable -> Values] \cup {None}]
         /\ \A m \in Name : modules[m] # None => modules'[m] # None
         /\ modules'[name] # None
         /\ LinesInv'
         /\ broken \subseteq broken' /\ broken' \in SUBSET Name
         /\ \A m \in Name \ broken' : \A x \in Variable : modules'[m] # None /\ modules'[m][x] = "null" =>
              \/ modules[m] # None /\ modules[m][x] = "null"
              \/ m = name /\ Compiles(name, source) /\ x \in Stored(BodyOf(name, source).code)
         /\ LET body == BodyOf(name, source)
            IN  /\ body \in BodyType /\ body.module = name
                /\ CodeShape(body.code) /\ Len(body.code) >= 2 /\ ~AtImport(body.code)
<1>1. PICK v : v = VariablesOf(name)
  OBVIOUS
<1>2. PICK s : s = MSCCompile(v, source)
  OBVIOUS
<1>3. /\ modules \in [Name -> [Variable -> Values] \cup {None}] /\ broken \in SUBSET Name
      /\ None \notin [Variable -> Values] /\ source \in Seq(Statement) /\ LinesInv
  BY ModulesAssumption DEF IInv, Types
<1>4. /\ v \in [Variable -> Values]
      /\ modules[name] # None => v = modules[name]
      /\ modules[name] = None => \A x \in Variable : v[x] = "absent"
  BY <1>1, <1>3 DEF VariablesOf, NoVariables, Values
<1>5. s.variables \in [Variable -> Values] /\ s.hasError \in BOOLEAN
  BY <1>2, <1>3, <1>4, ModuleCompiled
<1>6. CodeShape(s.code) /\ Len(s.code) >= 2 /\ ~AtImport(s.code)
  BY <1>2, <1>3, <1>4, ModuleCompiled
<1>7. \A x \in Variable : s.variables[x] = "null" => v[x] = "null" \/ x \in Stored(s.code)
  BY <1>2, <1>3, <1>4, ModuleCompiled
<1>8. ~s.hasError => \A x \in Variable : s.variables[x] = "line" => v[x] = "line"
  BY <1>2, <1>3, <1>4, ModuleCompiled
<1>9. /\ modules' = [modules EXCEPT ![name] = s.variables]
      /\ broken' = IF s.hasError THEN broken \cup {name} ELSE broken
  BY <1>1, <1>2 DEF compileInModule
<1>10. PICK ms : ms = modules'
  OBVIOUS
<1>11. /\ ms \in [Name -> [Variable -> Values] \cup {None}]
       /\ ms[name] = s.variables /\ ms[name] # None
       /\ \A m \in Name : m # name => ms[m] = modules[m]
  BY <1>3, <1>5, <1>9, <1>10
<1>12. broken \subseteq broken' /\ broken' \in SUBSET Name /\ (s.hasError => name \in broken')
  BY <1>3, <1>9
<1>13. LinesInv'
  <2>1. ASSUME NEW m \in Name \ broken', ms[m] # None, NEW x \in Variable PROVE ms[m][x] # "line"
    <3>1. CASE m = name
      <4>1. ~s.hasError /\ name \in Name \ broken
        BY <1>12, <2>1, <3>1
      <4>2. v[x] # "line"
        <5>1. CASE modules[name] = None
          BY <1>4, <2>1, <5>1
        <5>2. CASE modules[name] # None
          BY <1>3, <1>4, <2>1, <4>1, <5>2 DEF LinesInv
        <5> QED
          BY <5>1, <5>2
      <4> QED
        BY <1>8, <1>11, <2>1, <3>1, <4>1, <4>2
    <3>2. CASE m # name
      BY <1>3, <1>11, <1>12, <2>1, <3>2 DEF LinesInv
    <3> QED
      BY <3>1, <3>2
  <2> QED
    BY <1>10, <2>1 DEF LinesInv
<1>14. BodyOf(name, source) = [module |-> name, code |-> s.code] /\ (Compiles(name, source) <=> ~s.hasError)
  BY <1>1, <1>2 DEF BodyOf, Compiles
<1>15. [module |-> name, code |-> s.code] \in BodyType
  BY <1>6 DEF BodyType, CodeShape
<1>16. ASSUME NEW m \in Name \ broken', NEW x \in Variable, ms[m] # None, ms[m][x] = "null"
       PROVE  \/ modules[m] # None /\ modules[m][x] = "null"
              \/ m = name /\ ~s.hasError /\ x \in Stored(s.code)
  <2>1. CASE m = name
    <3>1. v[x] = "null" \/ x \in Stored(s.code)
      BY <1>7, <1>11, <1>16, <2>1
    <3>2. ~s.hasError
      BY <1>12, <1>16, <2>1
    <3>3. v[x] = "null" => modules[m] # None /\ modules[m][x] = "null"
      BY <1>4, <2>1
    <3> QED
      BY <2>1, <3>1, <3>2, <3>3
  <2>2. CASE m # name
    BY <1>11, <1>16, <2>2
  <2> QED
    BY <2>1, <2>2
<1>17. \A m \in Name : modules[m] # None => ms[m] # None
  BY <1>11
<1> QED
  BY <1>6, <1>10, <1>11, <1>12, <1>13, <1>14, <1>15, <1>16, <1>17

\* An error ends bodies; what they would have defined is not complained of.
LEMMA ErrorKeeps ==
  ASSUME IInv, cur # None, RuntimeError,
         modules' \in [Name -> [Variable -> Values] \cup {None}],
         \A m \in Name : modules[m] # None => modules'[m] # None,
         LinesInv', broken \subseteq broken', broken' \in SUBSET Name,
         \A m \in Name \ broken' : \A x \in Variable : modules'[m] # None /\ modules'[m][x] = "null" =>
           modules[m] # None /\ modules[m][x] = "null",
         UNCHANGED <<lastModule, left>>
  PROVE  IInv'
<1>1. PICK dead \in SUBSET Djuru :
        /\ cur \in dead
        /\ frames' = [d \in Djuru |-> IF d \in dead THEN <<>> ELSE frames[d]]
        /\ cut' = cut \cup {f.module : f \in UNION {Range(frames[d]) : d \in dead}}
        /\ cur' \in {None} \cup Waiting(frames')
  BY DEF RuntimeError
<1>2. PICK fs : fs = frames'
  OBVIOUS
<1>3. /\ frames \in [Djuru -> Seq(BodyType)] /\ left' = left /\ lastModule' = lastModule
      /\ lastModule \in Name \cup {None} /\ cut \in SUBSET Name /\ left \in SUBSET Name
  BY DEF IInv, Types, BodyType
<1>4. /\ fs \in [Djuru -> Seq(BodyType)]
      /\ \A d \in Djuru : d \in dead => fs[d] = <<>> /\ Len(fs[d]) = 0
      /\ \A d \in Djuru : d \notin dead => fs[d] = frames[d] /\ d # cur
  BY <1>1, <1>2, <1>3
<1>5. BodiesInv'
  <2>1. ASSUME NEW d \in Djuru, NEW i \in 1 .. Len(fs[d])
        PROVE  CodeShape(fs[d][i].code) /\ modules'[fs[d][i].module] # None
    <3>1. d \notin dead /\ fs[d] = frames[d] /\ i \in 1 .. Len(frames[d]) /\ frames[d][i] \in BodyType
      BY <1>3, <1>4, <2>1
    <3> QED
      BY <3>1 DEF IInv, BodiesInv, BodyType
  <2> QED
    BY <1>2, <2>1 DEF BodiesInv
<1>6. WaitingInv'
  <2>1. ASSUME NEW d \in Djuru, NEW i \in 1 .. Len(fs[d]) - 1
        PROVE  /\ Len(fs[d][i].code) > 1
               /\ AtImport(fs[d][i].code) => fs[d][i + 1].module = fs[d][i].code[1][3]
    <3>1. d \notin dead /\ fs[d] = frames[d]
      BY <1>4, <2>1
    <3>2. i \in 1 .. Len(frames[d]) - 1
      BY <2>1, <3>1
    <3>3. /\ Len(frames[d][i].code) > 1
          /\ AtImport(frames[d][i].code) => frames[d][i + 1].module = frames[d][i].code[1][3]
      BY <3>2 DEF IInv, WaitingInv, Waits
    <3> QED
      BY <3>1, <3>3
  <2>2. Waits(fs)
    BY <2>1 DEF Waits
  <2> QED
    BY <1>2, <2>2 DEF WaitingInv
<1>7. TopInv'
  <2>1. ASSUME NEW d \in Djuru, fs[d] # <<>>
        PROVE  Len(Last(fs[d]).code) # 1 /\ ~AtImport(Last(fs[d]).code)
    <3>1. d \notin dead /\ fs[d] = frames[d] /\ d # cur
      BY <1>4, <2>1
    <3> QED
      BY <2>1, <3>1 DEF IInv, TopInv
  <2> QED
    BY <1>2, <2>1 DEF TopInv
<1>8. cur' # None => cur' \in Djuru /\ frames'[cur'] # <<>>
  BY <1>1 DEF Waiting
<1>9. CurInv' /\ LastInv'
  BY <1>3, <1>8 DEF CurInv, LastInv, IInv
<1>10. ASSUME NEW d \in Djuru, d \in dead, NEW i \in 1 .. Len(frames[d])
       PROVE  frames[d][i].module \in cut'
  <2>1. frames[d][i] \in Range(frames[d])
    BY <1>3 DEF Range
  <2>2. frames[d][i] \in UNION {Range(frames[e]) : e \in dead}
    BY <1>10, <2>1
  <2> QED
    BY <1>1, <2>2
<1>11. cut' \in SUBSET Name
  <2>1. ASSUME NEW d \in dead, NEW f \in Range(frames[d]) PROVE f.module \in Name
    <3>1. frames[d] \in Seq(BodyType) /\ DOMAIN frames[d] = 1 .. Len(frames[d])
      BY <1>3
    <3>2. f \in BodyType
      BY <3>1 DEF Range
    <3> QED
      BY <3>2 DEF BodyType
  <2> QED
    BY <1>1, <1>3, <2>1
<1>12. NullsInv'
  <2>1. ASSUME NEW m \in Name \ (broken' \cup left' \cup cut'), NEW x \in Variable,
               modules'[m] # None, modules'[m][x] = "null"
        PROVE  \E d \in Djuru : \E i \in 1 .. Len(fs[d]) : fs[d][i].module = m /\ x \in Stored(fs[d][i].code)
    <3>1. modules[m] # None /\ modules[m][x] = "null" /\ m \in Name \ (broken \cup left \cup cut)
      BY <1>1, <1>3, <2>1
    <3>2. PICK d \in Djuru : \E i \in 1 .. Len(frames[d]) : frames[d][i].module = m /\ x \in Stored(frames[d][i].code)
      BY <3>1 DEF IInv, NullsInv
    <3>3. d \notin dead
      BY <1>10, <2>1, <3>2
    <3> QED
      BY <1>4, <3>2, <3>3
  <2> QED
    BY <1>2, <2>1 DEF NullsInv
<1>13. Types'
  BY <1>2, <1>3, <1>4, <1>8, <1>11 DEF Types, BodyType
<1> QED
  BY <1>5, <1>6, <1>7, <1>9, <1>12, <1>13 DEF IInv

\* The end of a body: the one below it, if it is about to import a variable,
\* waited for this one.
LEMMA ReturnKeeps == ASSUME IInv, RETURN PROVE IInv'
<1>1. PICK f, k, fs : f = Frame /\ k = Len(frames[cur]) /\ fs = frames'
  OBVIOUS
<1>2. /\ cur \in Djuru /\ frames[cur] \in Seq(BodyType) /\ k \in Nat /\ k >= 1
      /\ f = frames[cur][k] /\ f \in BodyType /\ CodeShape(f.code) /\ f.code[1][1] = "RETURN"
      /\ frames \in [Djuru -> Seq(BodyType)] /\ cur # None
  <2>1. At("RETURN")
    BY DEF RETURN
  <2>2. cur # None /\ Frame.code[1][1] = "RETURN"
    BY <2>1, NextInstruction
  <2> QED
    BY <1>1, <2>2, TopBody DEF IInv, Types, BodyType
<1>3. PICK F : F = Front(frames[cur])
  OBVIOUS
<1>4. /\ left' = IF Len(f.code) > 1 THEN left \cup {f.module} ELSE left
      /\ fs = [frames EXCEPT ![cur] = F]
      /\ cur' \in IF fs[cur] # <<>> THEN {cur} ELSE {None} \cup Waiting(fs)
      /\ UNCHANGED <<modules, lastModule, runs, broken, cut>>
  BY <1>1, <1>3 DEF RETURN
<1>5. /\ F \in Seq(BodyType) /\ Len(F) = k - 1
      /\ \A i \in 1 .. Len(F) : F[i] = frames[cur][i]
  BY <1>1, <1>2, <1>3 DEF Front
<1>6. /\ fs \in [Djuru -> Seq(BodyType)] /\ fs[cur] = F
      /\ \A d \in Djuru : d # cur => fs[d] = frames[d]
  BY <1>2, <1>4, <1>5
<1>7. ASSUME NEW d \in Djuru, NEW i \in 1 .. Len(fs[d])
      PROVE  i \in 1 .. Len(frames[d]) /\ fs[d][i] = frames[d][i]
  <2>1. CASE d = cur
    BY <1>1, <1>2, <1>5, <1>6, <2>1
  <2>2. CASE d # cur
    BY <1>6, <2>2
  <2> QED
    BY <2>1, <2>2
<1>8. BodiesInv'
  <2>1. ASSUME NEW d \in Djuru, NEW i \in 1 .. Len(fs[d])
        PROVE  CodeShape(fs[d][i].code) /\ modules'[fs[d][i].module] # None
    BY <1>4, <1>7 DEF IInv, BodiesInv
  <2> QED
    BY <1>1, <2>1 DEF BodiesInv
<1>9. Waits(fs)
  <2>1. ASSUME NEW d \in Djuru, NEW i \in 1 .. Len(fs[d]) - 1
        PROVE  /\ Len(fs[d][i].code) > 1
               /\ AtImport(fs[d][i].code) => fs[d][i + 1].module = fs[d][i].code[1][3]
    <3>1. i \in 1 .. Len(fs[d]) /\ i + 1 \in 1 .. Len(fs[d])
      BY <1>6
    <3>2. /\ fs[d][i] = frames[d][i] /\ fs[d][i + 1] = frames[d][i + 1]
          /\ i + 1 \in 1 .. Len(frames[d])
      BY <1>7, <3>1
    <3>3. i \in 1 .. Len(frames[d]) - 1
      BY <1>2, <3>2
    <3> QED
      BY <3>2, <3>3 DEF IInv, WaitingInv, Waits
  <2> QED
    BY <2>1 DEF Waits
<1>10. ASSUME NEW d \in Djuru, fs[d] # <<>>
       PROVE  /\ Len(Last(fs[d]).code) = 1 => d = cur' /\ lastModule' = Last(fs[d]).module
              /\ AtImport(Last(fs[d]).code) =>
                   /\ d = cur'
                   /\ lastModule' = Last(fs[d]).code[1][3] \/ Last(fs[d]).code[1][3] \in left'
  <2>1. CASE d # cur
    <3>1. fs[d] = frames[d]
      BY <1>6, <2>1
    <3> QED
      BY <1>10, <2>1, <3>1 DEF IInv, TopInv
  <2>2. CASE d = cur
    <3>1. PICK g : g = frames[cur][k - 1]
      OBVIOUS
    <3>2. k - 1 \in 1 .. Len(F) /\ F # <<>>
      BY <1>2, <1>5, <1>6, <1>10, <2>2
    <3>3. Last(fs[d]) = g /\ cur' = cur
      BY <1>4, <1>5, <1>6, <2>2, <3>1, <3>2 DEF Last
    <3>4. k - 1 \in 1 .. Len(frames[cur]) - 1 /\ (k - 1) + 1 = k
      BY <1>1, <1>2, <3>2
    <3>5. Len(g.code) > 1 /\ (AtImport(g.code) => f.module = g.code[1][3])
      BY <1>2, <3>1, <3>4 DEF IInv, WaitingInv, Waits
    <3>6. lastModule = f.module \/ f.module \in left'
      <4>1. CASE Len(f.code) > 1
        BY <1>4, <4>1
      <4>2. CASE ~(Len(f.code) > 1)
        <5>1. Len(f.code) = 1
          BY <1>2, <4>2, CodeLength
        <5>2. Last(frames[cur]) = f /\ frames[cur] # <<>>
          BY <1>1, <1>2 DEF Last
        <5> QED
          BY <1>2, <5>1, <5>2 DEF IInv, TopInv
      <4> QED
        BY <4>1, <4>2
    <3>7. Len(g.code) # 1
      <4>1. CodeShape(g.code)
        BY <1>2, <3>1, <3>4 DEF IInv, BodiesInv
      <4> QED
        BY <3>5, <4>1, CodeLength
    <3>8. AtImport(g.code) => lastModule' = g.code[1][3] \/ g.code[1][3] \in left'
      BY <1>4, <3>5, <3>6
    <3> QED
      BY <2>2, <3>3, <3>7, <3>8
  <2> QED
    BY <2>1, <2>2
<1>11. TopInv'
  BY <1>1, <1>10 DEF TopInv
<1>12. cur' # None => cur' \in Djuru /\ fs[cur'] # <<>>
  BY <1>2, <1>4 DEF Waiting
<1>13. CurInv' /\ LastInv' /\ LinesInv' /\ WaitingInv'
  BY <1>1, <1>4, <1>9, <1>12 DEF CurInv, LastInv, LinesInv, WaitingInv, IInv
<1>14. Stored(f.code) = {} \/ f.module \in left'
  <2>1. CASE Len(f.code) > 1
    BY <1>4, <2>1
  <2>2. CASE ~(Len(f.code) > 1)
    <3>1. Len(f.code) = 1
      BY <1>2, <2>2, CodeLength
    <3> QED
      BY <1>2, <3>1 DEF Stored, Stores
  <2> QED
    BY <2>1, <2>2
<1>15. NullsInv'
  <2>1. ASSUME NEW m \in Name \ (broken' \cup left' \cup cut'), NEW x \in Variable,
               modules'[m] # None, modules'[m][x] = "null"
        PROVE  \E d \in Djuru : \E i \in 1 .. Len(fs[d]) : fs[d][i].module = m /\ x \in Stored(fs[d][i].code)
    <3>1. modules[m] # None /\ modules[m][x] = "null" /\ m \in Name \ (broken \cup left \cup cut)
      BY <1>4, <2>1
    <3>2. PICK d \in Djuru : \E i \in 1 .. Len(frames[d]) : frames[d][i].module = m /\ x \in Stored(frames[d][i].code)
      BY <3>1 DEF IInv, NullsInv
    <3>3. PICK i \in 1 .. Len(frames[d]) : frames[d][i].module = m /\ x \in Stored(frames[d][i].code)
      BY <3>2
    <3>4. ~(d = cur /\ i = k)
      BY <1>2, <1>14, <2>1, <3>3
    <3>5. i \in 1 .. Len(fs[d])
      <4>1. CASE d = cur
        BY <1>1, <1>2, <1>5, <1>6, <3>4, <4>1
      <4>2. CASE d # cur
        BY <1>6, <4>2
      <4> QED
        BY <4>1, <4>2
    <3>6. fs[d][i] = frames[d][i]
      BY <1>7, <3>5
    <3> QED
      BY <3>3, <3>5, <3>6
  <2> QED
    BY <1>1, <2>1 DEF NullsInv
<1>16. Types'
  <2>1. left' \in SUBSET Name
    BY <1>2, <1>4 DEF BodyType, IInv, Types
  <2> QED
    BY <1>1, <1>4, <1>6, <1>12, <2>1 DEF Types, BodyType, IInv
<1> QED
  BY <1>8, <1>11, <1>13, <1>15, <1>16 DEF IInv

\* A body that is put on top of the one that imports its module.
LEMMA RunBodyKeeps ==
  ASSUME IInv, At("IMPORT_MODULE"), NEW source \in Sources, RunBody(source)
  PROVE  IInv'
<1>1. /\ cur # None /\ Frame.code[1][1] = "IMPORT_MODULE" /\ Operand \in Name
      /\ Len(Frame.code) > 1 /\ Len(Tail(Frame.code)) # 1
      /\ AtImport(Tail(Frame.code)) => Operand = Tail(Frame.code)[1][3]
  BY NextInstruction
<1>2. PICK name : name = Operand
  OBVIOUS
<1>3. PICK body : body = BodyOf(name, source)
  OBVIOUS
<1>4. PICK fs, A, f, k, t : fs = frames' /\ A = Advanced /\ f = Frame /\ k = Len(frames[cur]) /\ t = Tail(Frame.code)
  OBVIOUS
<1>5. /\ compileInModule(name, source) /\ name \in Name
      /\ fs = [A EXCEPT ![cur] = Append(@, body)]
      /\ UNCHANGED <<lastModule, cur, runs, left, cut>>
  BY <1>1, <1>2, <1>3, <1>4 DEF RunBody
<1>6. /\ modules' \in [Name -> [Variable -> Values] \cup {None}]
      /\ \A m \in Name : modules[m] # None => modules'[m] # None
      /\ modules'[name] # None
      /\ LinesInv'
      /\ broken \subseteq broken' /\ broken' \in SUBSET Name
  BY <1>5, CompileKeeps
<1>7. \A m \in Name \ broken' : \A x \in Variable : modules'[m] # None /\ modules'[m][x] = "null" =>
        \/ modules[m] # None /\ modules[m][x] = "null"
        \/ m = name /\ x \in Stored(body.code)
  BY <1>3, <1>5, CompileKeeps
<1>8. /\ body \in BodyType /\ body.module = name
      /\ CodeShape(body.code) /\ Len(body.code) >= 2 /\ ~AtImport(body.code)
  BY <1>3, <1>5, CompileKeeps
<1>9. /\ cur \in Djuru /\ frames[cur] \in Seq(BodyType) /\ k \in Nat /\ k >= 1
      /\ f = frames[cur][k] /\ f \in BodyType /\ CodeShape(f.code) /\ modules[f.module] # None
      /\ frames \in [Djuru -> Seq(BodyType)]
  BY <1>1, <1>4, TopBody DEF IInv, Types, BodyType
<1>10. /\ A \in [Djuru -> Seq(BodyType)]
       /\ \A d \in Djuru : Len(A[d]) = Len(frames[d])
       /\ \A d \in Djuru : \A i \in 1 .. Len(frames[d]) :
            ~(d = cur /\ i = k) => A[d][i] = frames[d][i]
       /\ A[cur][k].module = f.module /\ A[cur][k].code = t
  <2>1. /\ Advanced \in [Djuru -> Seq(BodyType)]
        /\ \A d \in Djuru : Len(Advanced[d]) = Len(frames[d])
        /\ \A d \in Djuru : \A i \in 1 .. Len(frames[d]) :
             ~(d = cur /\ i = Len(frames[cur])) => Advanced[d][i] = frames[d][i]
        /\ Advanced[cur][Len(frames[cur])].module = Frame.module
        /\ Advanced[cur][Len(frames[cur])].code = Tail(Frame.code)
    BY <1>1, AdvancedFrames
  <2> QED
    BY <1>4, <2>1
<1>11. PICK F : F = Append(A[cur], body)
  OBVIOUS
<1>12. /\ F \in Seq(BodyType) /\ Len(F) = k + 1 /\ F[k + 1] = body
       /\ \A i \in 1 .. k : F[i] = A[cur][i]
  <2>1. A[cur] \in Seq(BodyType) /\ Len(A[cur]) = k
    BY <1>4, <1>9, <1>10
  <2> QED
    BY <1>8, <1>11, <2>1
<1>13. /\ fs \in [Djuru -> Seq(BodyType)] /\ fs[cur] = F
       /\ \A d \in Djuru : d # cur => fs[d] = A[d]
  BY <1>5, <1>9, <1>10, <1>11, <1>12
<1>14. /\ \A d \in Djuru : d # cur => Len(fs[d]) = Len(frames[d])
       /\ \A d \in Djuru : d # cur => \A i \in 1 .. Len(frames[d]) : fs[d][i] = frames[d][i]
       /\ \A i \in 1 .. k - 1 : fs[cur][i] = frames[cur][i]
       /\ fs[cur][k].module = f.module /\ fs[cur][k].code = t
       /\ fs[cur][k + 1] = body /\ Len(fs[cur]) = k + 1
  BY <1>4, <1>9, <1>10, <1>12, <1>13
<1>15. /\ CodeShape(t) /\ Len(t) > 1
       /\ Stored(f.code) \subseteq Stored(t)
  <2>1. /\ CodeShape(t) /\ Len(t) = Len(f.code) - 1
        /\ Stored(f.code) \subseteq Stored(t) \cup {x \in Variable : f.code[1][1] \in Stores /\ f.code[1][2] = x}
    BY <1>1, <1>4, <1>9, OneOn
  <2>2. Len(t) > 1
    BY <1>1, <1>4, <2>1, CodeLength
  <2>3. f.code[1][1] \notin Stores
    BY <1>1, <1>4 DEF Stores
  <2> QED
    BY <2>1, <2>2, <2>3
<1>16. BodiesInv'
  <2>1. ASSUME NEW d \in Djuru, NEW i \in 1 .. Len(fs[d])
        PROVE  CodeShape(fs[d][i].code) /\ modules'[fs[d][i].module] # None
    <3>1. CASE d # cur \/ i \in 1 .. k - 1
      <4>1. i \in 1 .. Len(frames[d]) /\ fs[d][i] = frames[d][i] /\ frames[d][i] \in BodyType
        BY <1>4, <1>9, <1>14, <3>1
      <4> QED
        BY <1>6, <4>1 DEF IInv, BodiesInv, BodyType
    <3>2. CASE d = cur /\ i = k
      BY <1>6, <1>9, <1>14, <1>15, <3>2 DEF BodyType
    <3>3. CASE d = cur /\ i = k + 1
      BY <1>6, <1>8, <1>14, <3>3
    <3> QED
      BY <1>9, <1>14, <3>1, <3>2, <3>3
  <2> QED
    BY <1>4, <2>1 DEF BodiesInv
<1>17. Waits(fs)
  <2>1. ASSUME NEW d \in Djuru, NEW i \in 1 .. Len(fs[d]) - 1
        PROVE  /\ Len(fs[d][i].code) > 1
               /\ AtImport(fs[d][i].code) => fs[d][i + 1].module = fs[d][i].code[1][3]
    <3>1. CASE d # cur
      <4>1. /\ i \in 1 .. Len(frames[d]) - 1 /\ i \in 1 .. Len(frames[d]) /\ i + 1 \in 1 .. Len(frames[d])
        BY <1>9, <1>14, <3>1
      <4>2. fs[d][i] = frames[d][i] /\ fs[d][i + 1] = frames[d][i + 1]
        BY <1>14, <3>1, <4>1
      <4> QED
        BY <4>1, <4>2 DEF IInv, WaitingInv, Waits
    <3>2. CASE d = cur /\ i < k
      <4>1. i \in 1 .. Len(frames[cur]) - 1 /\ i \in 1 .. k - 1 /\ (i + 1 \in 1 .. k - 1 \/ i + 1 = k)
        BY <1>4, <1>9, <1>14, <3>2
      <4>2. fs[cur][i] = frames[cur][i] /\ fs[cur][i + 1].module = frames[cur][i + 1].module
        BY <1>9, <1>14, <4>1
      <4> QED
        BY <3>2, <4>1, <4>2 DEF IInv, WaitingInv, Waits
    <3>3. CASE d = cur /\ i = k
      BY <1>1, <1>2, <1>4, <1>8, <1>14, <1>15, <3>3
    <3> QED
      BY <1>9, <1>14, <3>1, <3>2, <3>3
  <2> QED
    BY <2>1 DEF Waits
<1>18. ASSUME NEW d \in Djuru, fs[d] # <<>>
       PROVE  Len(Last(fs[d]).code) # 1 /\ ~AtImport(Last(fs[d]).code)
  <2>1. CASE d = cur
    <3>1. Last(fs[d]) = body
      BY <1>14, <2>1 DEF Last
    <3>2. Len(body.code) # 1
      <4>1. PICK n : n = Len(body.code)
        OBVIOUS
      <4>2. n \in Nat /\ n >= 2
        BY <1>8, <4>1 DEF CodeShape
      <4>3. n > 1
        BY <4>2
      <4> QED
        BY <1>8, <4>1, <4>3, CodeLength
    <3> QED
      BY <1>8, <3>1, <3>2
  <2>2. CASE d # cur
    <3>1. Len(fs[d]) = Len(frames[d]) /\ Len(fs[d]) \in 1 .. Len(frames[d]) /\ frames[d] # <<>>
      BY <1>9, <1>13, <1>14, <1>18, <2>2
    <3>2. Last(fs[d]) = Last(frames[d])
      BY <1>14, <2>2, <3>1 DEF Last
    <3> QED
      BY <2>2, <3>1, <3>2 DEF IInv, TopInv
  <2> QED
    BY <2>1, <2>2
<1>19. TopInv'
  BY <1>4, <1>18 DEF TopInv
<1>20. CurInv' /\ LastInv' /\ WaitingInv'
  <2>1. frames'[cur] # <<>>
    BY <1>4, <1>9, <1>13, <1>14
  <2>2. lastModule' = lastModule /\ lastModule \in Name \cup {None} /\ (lastModule # None => modules[lastModule] # None)
    BY <1>5 DEF IInv, Types, LastInv
  <2> QED
    BY <1>4, <1>5, <1>6, <1>17, <2>1, <2>2 DEF CurInv, LastInv, WaitingInv
<1>21. NullsInv'
  <2>1. ASSUME NEW m \in Name \ (broken' \cup left' \cup cut'), NEW x \in Variable,
               modules'[m] # None, modules'[m][x] = "null"
        PROVE  \E d \in Djuru : \E i \in 1 .. Len(fs[d]) : fs[d][i].module = m /\ x \in Stored(fs[d][i].code)
    <3>1. CASE m = name /\ x \in Stored(body.code)
      <4>1. k + 1 \in 1 .. Len(fs[cur])
        BY <1>9, <1>14
      <4> QED
        BY <1>8, <1>9, <1>14, <3>1, <4>1
    <3>2. CASE modules[m] # None /\ modules[m][x] = "null"
      <4>1. m \in Name \ (broken \cup left \cup cut)
        BY <1>5, <1>6, <2>1
      <4>2. PICK d \in Djuru : \E i \in 1 .. Len(frames[d]) : frames[d][i].module = m /\ x \in Stored(frames[d][i].code)
        BY <3>2, <4>1 DEF IInv, NullsInv
      <4>3. PICK i \in 1 .. Len(frames[d]) : frames[d][i].module = m /\ x \in Stored(frames[d][i].code)
        BY <4>2
      <4>4. i \in 1 .. Len(fs[d])
        BY <1>4, <1>9, <1>14, <4>3
      <4>5. fs[d][i].module = m /\ x \in Stored(fs[d][i].code)
        <5>1. CASE d = cur /\ i = k
          BY <1>9, <1>14, <1>15, <4>3, <5>1
        <5>2. CASE ~(d = cur /\ i = k)
          <6>1. fs[d][i] = frames[d][i]
            BY <1>4, <1>9, <1>14, <4>3, <5>2
          <6> QED
            BY <4>3, <6>1
        <5> QED
          BY <5>1, <5>2
      <4> QED
        BY <4>4, <4>5
    <3> QED
      BY <1>7, <2>1, <3>1, <3>2
  <2> QED
    BY <1>4, <2>1 DEF NullsInv
<1>22. Types'
  BY <1>4, <1>5, <1>6, <1>13 DEF Types, BodyType, IInv
<1> QED
  BY <1>6, <1>16, <1>19, <1>20, <1>21, <1>22 DEF IInv

LEMMA OneBody ==
  ASSUME NEW b, NEW s, s = <<b>> \/ s = <<>>
  PROVE  /\ \A i \in 1 .. Len(s) : i = 1 /\ s[i] = b
         /\ ~\E j \in 1 .. Len(s) - 1 : TRUE
<1>1. CASE s = <<b>>
  BY <1>1
<1>2. CASE s = <<>>
  BY <1>2
<1> QED
  BY <1>1, <1>2

\* The run of a source that the host starts, when nothing runs.
LEMMA InterpretKeeps ==
  ASSUME IInv, NEW d \in Djuru, NEW name \in Name, NEW source \in Sources, MSCInterpret(d, name, source)
  PROVE  IInv'
<1>1. PICK fs, body : fs = frames' /\ body = BodyOf(name, source)
  OBVIOUS
<1>2. /\ cur = None /\ frames[d] = <<>> /\ compileInModule(name, source)
      /\ UNCHANGED <<lastModule, left, cut>>
  BY DEF MSCInterpret
<1>3. /\ modules' \in [Name -> [Variable -> Values] \cup {None}]
      /\ \A m \in Name : modules[m] # None => modules'[m] # None
      /\ modules'[name] # None
      /\ LinesInv'
      /\ broken \subseteq broken' /\ broken' \in SUBSET Name
  BY <1>2, CompileKeeps
<1>4. \A m \in Name \ broken' : \A x \in Variable : modules'[m] # None /\ modules'[m][x] = "null" =>
        \/ modules[m] # None /\ modules[m][x] = "null"
        \/ m = name /\ Compiles(name, source) /\ x \in Stored(body.code)
  BY <1>1, <1>2, CompileKeeps
<1>5. /\ body \in BodyType /\ body.module = name
      /\ CodeShape(body.code) /\ Len(body.code) >= 2 /\ ~AtImport(body.code)
  BY <1>1, <1>2, CompileKeeps
<1>6. /\ frames \in [Djuru -> Seq(BodyType)] /\ None \notin Djuru
      /\ lastModule \in Name \cup {None} /\ (lastModule # None => modules[lastModule] # None)
      /\ left \in SUBSET Name /\ cut \in SUBSET Name
  BY ModulesAssumption DEF IInv, Types, LastInv, BodyType
<1>7. Len(body.code) # 1
  <2>1. PICK n : n = Len(body.code)
    OBVIOUS
  <2>2. n \in Nat /\ n >= 2
    BY <1>5, <2>1 DEF CodeShape
  <2>3. n > 1
    BY <2>2
  <2> QED
    BY <1>5, <2>1, <2>3, CodeLength
<1>8. /\ fs \in [Djuru -> Seq(BodyType)]
      /\ \A e \in Djuru : e # d => fs[e] = frames[e]
      /\ \/ fs[d] = <<body>> /\ cur' = d
         \/ fs[d] = <<>> /\ cur' = None /\ ~Compiles(name, source)
      /\ Compiles(name, source) => fs[d] = <<body>>
  <2>1. CASE Compiles(name, source)
    <3>1. fs = [frames EXCEPT ![d] = <<body>>] /\ cur' = d
      BY <1>1, <2>1 DEF MSCInterpret
    <3>2. <<body>> \in Seq(BodyType)
      BY <1>5
    <3> QED
      BY <1>6, <3>1, <3>2
  <2>2. CASE ~Compiles(name, source)
    <3>1. fs = frames /\ cur' = None
      BY <1>1, <1>2, <2>2 DEF MSCInterpret
    <3> QED
      BY <1>2, <1>6, <2>2, <3>1
  <2> QED
    BY <2>1, <2>2
<1>9. ASSUME NEW e \in Djuru, NEW i \in 1 .. Len(fs[e])
      PROVE  \/ e # d /\ i \in 1 .. Len(frames[e]) /\ fs[e][i] = frames[e][i]
             \/ e = d /\ i = 1 /\ fs[e][i] = body
  <2>1. CASE e # d
    BY <1>8, <2>1
  <2>2. CASE e = d
    <3>1. i \in 1 .. Len(fs[d]) /\ (fs[d] = <<body>> \/ fs[d] = <<>>)
      BY <1>8, <2>2
    <3>2. i = 1 /\ fs[d][i] = body
      BY <3>1, OneBody
    <3> QED
      BY <2>2, <3>2
  <2> QED
    BY <2>1, <2>2
<1>10. BodiesInv'
  <2>1. ASSUME NEW e \in Djuru, NEW i \in 1 .. Len(fs[e])
        PROVE  CodeShape(fs[e][i].code) /\ modules'[fs[e][i].module] # None
    <3>1. CASE e # d /\ i \in 1 .. Len(frames[e]) /\ fs[e][i] = frames[e][i]
      <4>1. frames[e][i] \in BodyType
        BY <1>6, <3>1
      <4> QED
        BY <1>3, <3>1, <4>1 DEF IInv, BodiesInv, BodyType
    <3>2. CASE fs[e][i] = body
      BY <1>3, <1>5, <3>2
    <3> QED
      BY <1>9, <3>1, <3>2
  <2> QED
    BY <1>1, <2>1 DEF BodiesInv
<1>11. Waits(fs)
  <2>1. ASSUME NEW e \in Djuru, NEW i \in 1 .. Len(fs[e]) - 1
        PROVE  /\ Len(fs[e][i].code) > 1
               /\ AtImport(fs[e][i].code) => fs[e][i + 1].module = fs[e][i].code[1][3]
    <3>1. e # d
      <4>1. (fs[d] = <<body>> \/ fs[d] = <<>>) /\ ~\E j \in 1 .. Len(fs[d]) - 1 : TRUE
        BY <1>8, OneBody
      <4> QED
        BY <2>1, <4>1
    <3>2. fs[e] = frames[e]
      BY <1>8, <3>1
    <3> QED
      BY <2>1, <3>2 DEF IInv, WaitingInv, Waits
  <2> QED
    BY <2>1 DEF Waits
<1>12. ASSUME NEW e \in Djuru, fs[e] # <<>>
       PROVE  Len(Last(fs[e]).code) # 1 /\ ~AtImport(Last(fs[e]).code)
  <2>1. CASE e = d
    <3>1. Last(fs[e]) = body
      BY <1>8, <1>12, <2>1 DEF Last
    <3> QED
      BY <1>5, <1>7, <3>1
  <2>2. CASE e # d
    <3>1. fs[e] = frames[e] /\ e # cur
      BY <1>2, <1>6, <1>8, <2>2
    <3> QED
      BY <1>12, <3>1 DEF IInv, TopInv
  <2> QED
    BY <2>1, <2>2
<1>13. TopInv'
  BY <1>1, <1>12 DEF TopInv
<1>14. CurInv' /\ LastInv' /\ WaitingInv'
  <2>1. cur' # None => fs[cur'] # <<>>
    <3>1. fs[d] = <<body>> => fs[d] # <<>>
      OBVIOUS
    <3> QED
      BY <1>8, <3>1
  <2> QED
    BY <1>1, <1>2, <1>3, <1>6, <1>11, <2>1 DEF CurInv, LastInv, WaitingInv
<1>15. NullsInv'
  <2>1. ASSUME NEW m \in Name \ (broken' \cup left' \cup cut'), NEW x \in Variable,
               modules'[m] # None, modules'[m][x] = "null"
        PROVE  \E e \in Djuru : \E i \in 1 .. Len(fs[e]) : fs[e][i].module = m /\ x \in Stored(fs[e][i].code)
    <3>1. CASE m = name /\ Compiles(name, source) /\ x \in Stored(body.code)
      <4>1. 1 \in 1 .. Len(fs[d]) /\ fs[d][1] = body
        BY <1>8, <3>1
      <4> QED
        BY <1>5, <3>1, <4>1
    <3>2. CASE modules[m] # None /\ modules[m][x] = "null"
      <4>1. m \in Name \ (broken \cup left \cup cut)
        BY <1>2, <1>3, <2>1
      <4>2. PICK e \in Djuru : \E i \in 1 .. Len(frames[e]) : frames[e][i].module = m /\ x \in Stored(frames[e][i].code)
        BY <3>2, <4>1 DEF IInv, NullsInv
      <4>3. e # d
        BY <1>2, <4>2
      <4> QED
        BY <1>8, <4>2, <4>3
    <3> QED
      BY <1>4, <2>1, <3>1, <3>2
  <2> QED
    BY <1>1, <2>1 DEF NullsInv
<1>16. Types'
  BY <1>1, <1>2, <1>3, <1>6, <1>8 DEF Types, BodyType
<1> QED
  BY <1>3, <1>10, <1>13, <1>14, <1>15, <1>16 DEF IInv

\* An error that changes no variable.
LEMMA ErrorAlone ==
  ASSUME IInv, cur # None, RuntimeError, UNCHANGED <<modules, lastModule, broken, left>>
  PROVE  IInv'
<1>1. /\ modules \in [Name -> [Variable -> Values] \cup {None}] /\ broken \in SUBSET Name
      /\ LinesInv'
  BY DEF IInv, Types, LinesInv
<1> QED
  BY <1>1, ErrorKeeps

\* The import of a module that is not there.
LEMMA ImportKeeps == ASSUME IInv, importModule PROVE IInv'
<1>1. At("IMPORT_MODULE")
  BY DEF importModule
<1>2. cur # None /\ Operand \in Name
  BY <1>1, NextInstruction
<1>3. CASE \E source \in Sources : RunBody(source)
  BY <1>1, <1>3, RunBodyKeeps
<1>4. ASSUME NEW source \in Sources, compileInModule(Operand, source), ~Compiles(Operand, source),
             RuntimeError, UNCHANGED <<lastModule, runs, left>>
      PROVE  IInv'
  <2>1. PICK name : name = Operand
    OBVIOUS
  <2>2. name \in Name /\ compileInModule(name, source) /\ ~Compiles(name, source)
    BY <1>2, <1>4, <2>1
  <2>3. /\ modules' \in [Name -> [Variable -> Values] \cup {None}]
        /\ \A m \in Name : modules[m] # None => modules'[m] # None
        /\ LinesInv' /\ broken \subseteq broken' /\ broken' \in SUBSET Name
    BY <2>2, CompileKeeps
  <2>4. \A m \in Name \ broken' : \A x \in Variable : modules'[m] # None /\ modules'[m][x] = "null" =>
          modules[m] # None /\ modules[m][x] = "null"
    BY <2>2, CompileKeeps
  <2> QED
    BY <1>2, <1>4, <2>3, <2>4, ErrorKeeps
<1>5. CASE RuntimeError /\ UNCHANGED <<modules, lastModule, runs, broken, left>>
  BY <1>2, <1>5, ErrorAlone
<1> QED
  BY <1>3, <1>4, <1>5 DEF importModule

LEMMA ImportVariableKeeps == ASSUME IInv, IMPORT_VARIABLE PROVE IInv'
<1>1. /\ At("IMPORT_VARIABLE") /\ lastModule # None
      /\ UNCHANGED <<lastModule, runs, broken, left>>
  BY DEF IMPORT_VARIABLE
<1>2. cur # None
  BY <1>1, NextInstruction
<1>3. PICK v : v = modules[lastModule][Operand]
  OBVIOUS
<1>4. v \in Values
  <2>1. Operand \in Variable
    BY <1>1, NextInstruction DEF Stores
  <2>2. modules[lastModule] \in [Variable -> Values]
    BY <1>1 DEF IInv, Types, LastInv
  <2> QED
    BY <1>3, <2>1, <2>2
<1>5. CASE v = "absent"
  <2>1. RuntimeError /\ UNCHANGED modules
    BY <1>3, <1>5 DEF IMPORT_VARIABLE
  <2> QED
    BY <1>1, <1>2, <2>1, ErrorAlone
<1>6. CASE v # "absent"
  <2>1. PICK w : w = IF v = "null" THEN "object" ELSE IF IsNum(v) THEN "number" ELSE v
    OBVIOUS
  <2>2. w \in {"number", "object"}
    BY <1>4, <1>6, <2>1 DEF Values, IsNum
  <2>3. /\ modules' = [modules EXCEPT ![Frame.module][Operand] = w]
        /\ frames' = Advanced /\ UNCHANGED <<cur, cut>>
    BY <1>3, <1>6, <2>1 DEF IMPORT_VARIABLE
  <2>4. UNCHANGED <<lastModule, cur, history>>
    BY <1>1, <2>3 DEF history
  <2> QED
    BY <1>1, <2>2, <2>3, <2>4, WritingKeeps DEF Stores
<1> QED
  BY <1>5, <1>6

LEMMA Inductive ==
  /\ Init => IInv
  /\ IInv /\ [Next]_vars => IInv'
<1>1. ASSUME Init PROVE IInv
  <2>1. /\ modules = [m \in Name |-> None] /\ lastModule = None /\ cur = None
        /\ frames = [d \in Djuru |-> <<>>] /\ broken = {} /\ left = {} /\ cut = {}
    BY <1>1 DEF Init
  <2>2. (\A d \in Djuru : frames[d] = <<>>) /\ (\A m \in Name : modules[m] = None)
    BY <2>1
  <2>3. BodiesInv /\ WaitingInv /\ TopInv
    BY <2>2 DEF BodiesInv, WaitingInv, Waits, TopInv
  <2>4. CurInv /\ LastInv /\ LinesInv /\ NullsInv
    BY <2>1, <2>2 DEF CurInv, LastInv, LinesInv, NullsInv
  <2>5. Types
    BY <2>1 DEF Types
  <2> QED
    BY <2>3, <2>4, <2>5 DEF IInv
<1>2. ASSUME IInv, Next PROVE IInv'
  <2>1. CASE \E d \in Djuru, name \in Name, source \in Sources : MSCInterpret(d, name, source)
    BY <1>2, <2>1, InterpretKeeps
  <2>2. CASE STORE_MODULE_VAR
    <3>1. /\ At("STORE_MODULE_VAR") /\ frames' = Advanced /\ UNCHANGED <<lastModule, cur, history>>
          /\ \E v \in {"number", "object"} : modules' = [modules EXCEPT ![Frame.module][Operand] = v]
      BY <2>2 DEF STORE_MODULE_VAR
    <3> QED
      BY <1>2, <3>1, WritingKeeps DEF Stores
  <2>3. CASE RETURN
    BY <1>2, <2>3, ReturnKeeps
  <2>4. CASE importModule
    BY <1>2, <2>4, ImportKeeps
  <2>5. CASE IMPORT_VARIABLE
    BY <1>2, <2>5, ImportVariableKeeps
  <2>6. CASE Failure
    <3>1. At("fail") /\ RuntimeError /\ UNCHANGED <<modules, lastModule, broken, left>>
      BY <2>6 DEF Failure
    <3>2. cur # None
      BY <1>2, <3>1, NextInstruction
    <3> QED
      BY <1>2, <3>1, <3>2, ErrorAlone
  <2>7. CASE LOAD_MODULE_VAR \/ END_MODULE \/ AlreadyLoaded \/ Switch
    BY <1>2, <2>7, ReadingSteps
  <2> QED
    BY <1>2, <2>1, <2>2, <2>3, <2>4, <2>5, <2>6, <2>7 DEF Next
<1>3. ASSUME IInv, UNCHANGED vars PROVE IInv'
  <2>1. UNCHANGED <<modules, lastModule, cur, frames, broken, left, cut>>
    BY <1>3 DEF vars, history
  <2>2. Types' /\ BodiesInv' /\ WaitingInv'
    BY <1>3, <2>1 DEF IInv, Types, BodiesInv, WaitingInv, Waits
  <2>3. TopInv'
    BY <1>3, <2>1 DEF IInv, TopInv
  <2>4. CurInv' /\ LastInv' /\ LinesInv'
    BY <1>3, <2>1 DEF IInv, CurInv, LastInv, LinesInv
  <2>5. NullsInv'
    BY <1>3, <2>1 DEF IInv, NullsInv
  <2> QED
    BY <2>2, <2>3, <2>4, <2>5 DEF IInv
<1> QED
  BY <1>1, <1>2, <1>3

(****************************************************************************)
(* The theorems.                                                            *)
(****************************************************************************)
\* Whatever the sources, and whatever other djurus import in between, the
\* variables of an import come from the module it names.
THEOREM RightModule == Spec => []ImportsFromItsModule
<1>1. ASSUME IInv, At("IMPORT_VARIABLE") PROVE lastModule = Imported \/ Imported \in left
  <2>1. cur # None /\ Frame.code[1][1] = "IMPORT_VARIABLE"
    BY <1>1, NextInstruction
  <2>2. cur \in Djuru /\ frames[cur] # <<>> /\ AtImport(Frame.code)
    BY <1>1, <2>1, TopBody DEF AtImport
  <2> QED
    BY <1>1, <2>2 DEF IInv, TopInv, Frame, Imported
<1>2. IInv => ImportsFromItsModule
  BY <1>1 DEF ImportsFromItsModule
<1> QED
  BY Inductive, <1>2, PTL DEF Spec

\* An import takes no variable of a module that finished before it was given
\* a value.
THEOREM FinishedModules == Spec => []CompleteWhenImported
<1>1. ASSUME IInv, At("IMPORT_VARIABLE"), Imported \notin left \cup cut \cup broken, Bodies(Imported) = {}
      PROVE  modules[Imported][Operand] # "null"
  <2>1. /\ cur # None /\ Frame.code[1][1] = "IMPORT_VARIABLE" /\ Operand \in Variable
        /\ Frame.code[1][3] \in Name
    BY <1>1, NextInstruction DEF Stores
  <2>2. cur \in Djuru /\ frames[cur] # <<>> /\ AtImport(Frame.code)
    BY <1>1, <2>1, TopBody DEF AtImport
  <2>3. lastModule = Imported /\ Imported \in Name
    BY <1>1, <2>1, <2>2 DEF IInv, TopInv, Frame, Imported
  <2>4. modules[Imported] # None
    BY <1>1, <2>3, ModulesAssumption DEF IInv, LastInv
  <2>5. ASSUME NEW d \in Djuru, NEW i \in 1 .. Len(frames[d]) PROVE frames[d][i].module # Imported
    <3>1. frames[d][i] \in Range(frames[d])
      BY <1>1 DEF IInv, Types, Range
    <3> QED
      BY <1>1, <3>1 DEF Bodies
  <2> QED
    BY <1>1, <2>1, <2>3, <2>4, <2>5 DEF IInv, NullsInv
<1>2. IInv => CompleteWhenImported
  BY <1>1 DEF CompleteWhenImported
<1> QED
  BY Inductive, <1>2, PTL DEF Spec

\* Scripts read no line number in place of a variable's value.
THEOREM LinesNeverRead == Spec => []NoLineNumbers
<1>1. ASSUME IInv, At("LOAD_MODULE_VAR"), Frame.module \notin broken
      PROVE  modules[Frame.module][Operand] # "line"
  <2>1. cur # None /\ Frame.module \in Name /\ Operand \in Variable
    BY <1>1, NextInstruction DEF Stores
  <2>2. modules[Frame.module] # None
    BY <1>1, <2>1, TopBody
  <2> QED
    BY <1>1, <2>1, <2>2 DEF IInv, LinesInv
<1>2. ASSUME IInv, At("IMPORT_VARIABLE"), lastModule \notin broken \cup {None}
      PROVE  modules[lastModule][Operand] # "line"
  <2>1. lastModule \in Name /\ modules[lastModule] # None
    BY <1>2 DEF IInv, Types, LastInv
  <2>2. Operand \in Variable
    BY <1>2, NextInstruction DEF Stores
  <2> QED
    BY <1>2, <2>1, <2>2 DEF IInv, LinesInv
<1>3. IInv => NoLineNumbers
  BY <1>1, <1>2 DEF NoLineNumbers
<1> QED
  BY Inductive, <1>3, PTL DEF Spec
===============================================================================
