-------------------------- MODULE BuildProgramProofs --------------------------
(***************************************************************************)
(* That a build program whose table of options is one the reader is for    *)
(* never fails an assert when it reads them, and makes only graphs that    *)
(* the engine can build and clean, whatever the command line, the numbers  *)
(* of paths and objects given, and the order of the calls.  The last part  *)
(* puts the engine on such a graph: its builds keep the order, a success   *)
(* leaves every output, and without faults a build and a clean succeed.    *)
(***************************************************************************)
EXTENDS BuildProgram, BuildClientProofs

\* Tables that differ in nothing but the values of their options.
Alike(t, u) == Len(t) = Len(u) /\ \A j \in 1..Len(t) :
    t[j].name = u[j].name /\ t[j].type = u[j].type /\ t[j].optional = u[j].optional

LEMMA FirstIsLeast ==
    ASSUME NEW T \in SUBSET Nat, T # {}
    PROVE  First(T) \in T /\ \A n \in T : First(T) <= n
  BY Least DEF First

LEMMA TableIsSeq ==
    ASSUME NEW t, IsTable(t)
    PROVE  IsSeq(t) /\ Len(t) \in Nat
  BY SeqFunction DEF IsTable

LEMMA AlikeServe ==
    ASSUME NEW t, NEW u, Alike(t, u), Len(t) \in Nat, Serves(t)
    PROVE  Serves(u)
  <1>1. \A name : Places(u, name) = Places(t, name)
    BY DEF Alike, Places
  <1>2. ASSUME NEW name, Places(t, name) # {}
        PROVE  /\ aven_arg_get(u, name).type = aven_arg_get(t, name).type
               /\ aven_arg_get(u, name).optional = aven_arg_get(t, name).optional
    <2>1. Places(t, name) \in SUBSET Nat /\ Places(t, name) \subseteq 1..Len(t)
      BY DEF Places
    <2>2. First(Places(t, name)) \in 1..Len(t)
      BY <1>2, <2>1, FirstIsLeast
    <2>3. QED
      BY <1>1, <2>2 DEF aven_arg_get, Alike
  <1>3. \A name, type : HasType(t, name, type) => HasType(u, name, type)
    BY <1>1, <1>2 DEF HasType
  <1>4. \A name, type : Demands(t, name, type) => Demands(u, name, type)
    BY <1>1, <1>2, <1>3 DEF Demands
  <1>5. QED
    BY <1>3, <1>4 DEF Serves
-----------------------------------------------------------------------------
(* The parser fills a table in, and keeps it one for the reader.            *)

\* The table is one that has an option more filled in.
LEMMA OptionSet ==
    ASSUME NEW t, IsTable(t), NEW n \in 1..Len(t), NEW v,
           v = Value(v.type, v.data), v.type = t[n].type,
           v.type = "STRING" => v.data \in Seq(STRING)
    PROVE  IsTable([t EXCEPT ![n].value = v]) /\ Alike(t, [t EXCEPT ![n].value = v])
  <1> DEFINE u == [t EXCEPT ![n].value = v]
  <1>1. /\ Len(t) \in Nat /\ t = [j \in 1..Len(t) |-> t[j]]
        /\ \A j \in 1..Len(t) : IsOption(t[j])
    BY DEF IsTable
  <1>2. DOMAIN t = 1..Len(t)
    BY <1>1
  <1>3. /\ DOMAIN u = 1..Len(t) /\ u = [j \in 1..Len(t) |-> u[j]]
        /\ \A j \in 1..Len(t) : j # n => u[j] = t[j]
        /\ u[n] = [t[n] EXCEPT !.value = v]
    BY <1>2
  <1> HIDE DEF u
  <1>4. Len(u) = Len(t)
    BY <1>1, <1>3, SeqFunction
  <1>5. t[n] = [name |-> t[n].name, optional |-> t[n].optional, type |-> t[n].type,
                value |-> Value(t[n].value.type, t[n].value.data)]
    BY <1>1 DEF IsOption
  <1>6. u[n] = [name |-> t[n].name, optional |-> t[n].optional, type |-> t[n].type,
                value |-> v]
    BY <1>3, <1>5
  <1>7. /\ u[n].name = t[n].name /\ u[n].optional = t[n].optional
        /\ u[n].type = t[n].type /\ u[n].value = v
    BY <1>6
  <1>8. IsOption(u[n])
    BY <1>1, <1>6, <1>7 DEF IsOption
  <1>9. IsTable(u)
    BY <1>1, <1>3, <1>4, <1>8 DEF IsTable
  <1>10. Alike(t, u)
    BY <1>3, <1>4, <1>7 DEF Alike
  <1>11. QED
    BY <1>9, <1>10 DEF u

\* What is known until the options are read.
ArgsInv ==
    /\ argv \in Seq(Given) /\ i \in Nat /\ i >= 1
    /\ IsTable(args) /\ Serves(args)
    /\ result = "OK" => Missing = {}

LEMMA StartIsTable == ParseInit => ArgsInv
  <1>1. ASSUME ParseInit
        PROVE  ArgsInv
    <2>1. PICK n \in 0..MaxArgv : argv \in [1..n -> Given]
      BY <1>1 DEF ParseInit
    <2>2. argv \in Seq(Given)
      BY <2>1, GivenAssumption
    <2>3. QED
      BY <1>1, <2>2, TablesAssumption DEF ParseInit, ArgsInv
  <1>2. QED
    BY <1>1

LEMMA ParseKeeps ==
    ASSUME ArgsInv, Parse
    PROVE  ArgsInv' /\ result' # "READ"
  <1>1. /\ argv \in Seq(Given) /\ i \in Nat /\ i >= 1 /\ Len(argv) \in Nat
        /\ IsTable(args) /\ Serves(args) /\ Len(args) \in Nat
    BY DEF ArgsInv, IsTable
  <1>2. ASSUME Parsing, Known
        PROVE  Option \in 1..Len(args)
    <2>1. Matches(argv[i]) \in SUBSET Nat /\ Matches(argv[i]) \subseteq 1..Len(args)
      BY DEF Matches
    <2>2. QED
      BY <1>2, <2>1, FirstIsLeast DEF Known, Option
  <1>3. ASSUME NEW e, Return(e), e # "READ", e = "OK" => Missing = {}
        PROVE  ArgsInv' /\ result' # "READ"
    <2>1. Missing' = Missing
      BY <1>3 DEF Return, Missing
    <2>2. QED
      BY <1>1, <1>3, <2>1 DEF Return, ArgsInv
  <1>4. CASE SetBool
    <2>1. PICK n : n = Option
      OBVIOUS
    <2>2. PICK v : v = [args[n].value EXCEPT !.data = TRUE]
      OBVIOUS
    <2>3. n \in 1..Len(args) /\ args[n].type = "BOOL"
      BY <1>2, <1>4, <2>1 DEF SetBool
    <2>4. IsOption(args[n])
      BY <1>1, <2>3 DEF IsTable
    <2>5. PICK w : w = args[n].value
      OBVIOUS
    <2>6. w.type = "BOOL" /\ w = [type |-> w.type, data |-> w.data]
      BY <2>3, <2>4, <2>5 DEF IsOption, Value
    <2>7. v = Value(v.type, v.data) /\ v.type = "BOOL"
      BY <2>2, <2>5, <2>6 DEF Value
    <2>8. args' = [args EXCEPT ![n].value = v]
      <3>1. args' = [args EXCEPT ![n].value.data = TRUE]
        BY <1>4, <2>1 DEF SetBool
      <3>2. QED
        BY <2>2, <3>1
    <2>9. IsTable(args') /\ Alike(args, args')
      BY <1>1, <2>3, <2>7, <2>8, OptionSet
    <2>10. Serves(args')
      BY <1>1, <2>9, AlikeServe
    <2>11. result' = "BUSY" /\ i' = i + 1 /\ argv' = argv
      BY <1>4 DEF SetBool, Parsing
    <2>12. QED
      BY <1>1, <2>9, <2>10, <2>11 DEF ArgsInv
  <1>5. CASE SetValue
    <2>1. PICK n : n = Option
      OBVIOUS
    <2>2. PICK d : d = IF args[n].type = "INT" THEN Atoi[argv[i + 1]] ELSE argv[i + 1]
      OBVIOUS
    <2>3. PICK v : v = Value(args[n].type, d)
      OBVIOUS
    <2>4. n \in 1..Len(args) /\ i + 1 \in 1..Len(argv)
      BY <1>1, <1>2, <1>5, <2>1 DEF SetValue, HasValue
    <2>5. argv[i + 1] \in Seq(STRING)
      BY <1>1, <2>4, GivenAssumption
    <2>6. v.type = args[n].type /\ v.data = d /\ v = Value(v.type, v.data)
      BY <2>3 DEF Value
    <2>7. v.type = "STRING" => v.data \in Seq(STRING)
      BY <2>2, <2>5, <2>6
    <2>8. args' = [args EXCEPT ![n].value = v]
      BY <1>5, <2>1, <2>2, <2>3 DEF SetValue
    <2>9. IsTable(args') /\ Alike(args, args')
      BY <1>1, <2>4, <2>6, <2>7, <2>8, OptionSet
    <2>10. Serves(args')
      BY <1>1, <2>9, AlikeServe
    <2>11. result' = "BUSY" /\ i' = i + 2 /\ argv' = argv
      BY <1>5 DEF SetValue, Parsing, Consumed
    <2>12. QED
      BY <1>1, <2>9, <2>10, <2>11 DEF ArgsInv
  <1>6. CASE AskHelp \/ Unknown \/ NoValue
    BY <1>3, <1>6 DEF AskHelp, Unknown, NoValue
  <1>7. CASE Finish
    BY <1>3, <1>7 DEF Finish
  <1>8. QED
    BY <1>4, <1>5, <1>6, <1>7 DEF Parse

\* An option that is demanded can be read.
LEMMA DemandedIsReadable ==
    ASSUME NEW t, IsTable(t), \A j \in 1..Len(t) : t[j].optional \/ HasData(t[j]),
           NEW name, NEW type, Demands(t, name, type)
    PROVE  Readable(t, name, type)
  <1>1. Places(t, name) \in SUBSET Nat /\ Places(t, name) # {} /\ Len(t) \in Nat
    BY DEF Places, Demands, IsTable
  <1>2. First(Places(t, name)) \in 1..Len(t)
    BY <1>1, FirstIsLeast DEF Places
  <1>3. ~ aven_arg_get(t, name).optional /\ aven_arg_get(t, name).type = type
    BY <1>1 DEF Demands, HasType
  <1>4. HasData(aven_arg_get(t, name))
    BY <1>2, <1>3 DEF aven_arg_get
  <1>5. QED
    BY <1>1, <1>3, <1>4 DEF Readable, aven_arg_has_arg

\* Nothing is missing in this table.
Whole(t) == IsTable(t) /\ Serves(t) /\ \A j \in 1..Len(t) : t[j].optional \/ HasData(t[j])

LEMMA ArgsAreWhole ==
    ASSUME ArgsInv, result = "OK"
    PROVE  Whole(args)
  BY DEF ArgsInv, Missing, Whole

LEMMA ReadsAreReadable ==
    ASSUME NEW t, Whole(t)
    PROVE  \A type \in ArgType : \A name \in OptionsRead(t)[type] : Readable(t, name, type)
  <1>1. \A name, type : Demands(t, name, type) => Readable(t, name, type)
    BY DemandedIsReadable DEF Whole
  <1>2. ASSUME NEW name \in {"-ld", "-aroutflag", "-windres"}, aven_arg_has_arg(t, name)
        PROVE  Readable(t, name, "STRING")
    BY <1>2 DEF Whole, Serves, HasType, Readable, aven_arg_has_arg
  <1>3. \A name \in OptionsRead(t)["BOOL"] : Readable(t, name, "BOOL")
    BY <1>1 DEF OptionsRead, Whole, Serves
  <1>4. \A name \in OptionsRead(t)["INT"] : Readable(t, name, "INT")
    BY <1>1 DEF OptionsRead, Whole, Serves
  <1>5. \A name \in OptionalReads(t) : Readable(t, name, "STRING")
    BY <1>1, <1>2 DEF OptionalReads, Whole, Serves
  <1>6. \A name \in Flags \cup {"-cc", "-ar"} : Readable(t, name, "STRING")
    BY <1>1 DEF Whole, Serves
  <1>7. \A name \in OptionsRead(t)["STRING"] : Readable(t, name, "STRING")
    <2>1. OptionsRead(t)["STRING"] = {"-cc", "-ar"} \cup Flags \cup OptionalReads(t)
      BY DEF OptionsRead
    <2>2. QED
      BY <1>5, <1>6, <2>1
  <1>8. QED
    BY <1>3, <1>4, <1>7 DEF ArgType

LEMMA StringsAreRead ==
    ASSUME NEW t, IsTable(t), NEW name, Readable(t, name, "STRING")
    PROVE  Data(t, name) \in Seq(STRING)
  <1>1. /\ Places(t, name) \in SUBSET Nat /\ Places(t, name) # {} /\ Len(t) \in Nat
        /\ HasData(aven_arg_get(t, name)) /\ aven_arg_get(t, name).type = "STRING"
    BY DEF Places, Readable, aven_arg_has_arg, IsTable
  <1>2. First(Places(t, name)) \in 1..Len(t)
    BY <1>1, FirstIsLeast DEF Places
  <1>3. IsOption(aven_arg_get(t, name))
    BY <1>2 DEF IsTable, aven_arg_get
  <1>4. QED
    BY <1>1, <1>3 DEF IsOption, HasData, Data

\* What is read is what the constructors need.
LEMMA OptionsAreRead ==
    ASSUME Whole(args), ReadOpts
    PROVE  OptsOK' /\ ManyOK'
  <1>1. ASSUME NEW name \in Flags \cup {"-windresflags"}
        PROVE  /\ Data(args, name) \in Seq(STRING)
               /\ Len(Data(args, name)) \in Nat /\ IsSeq(Data(args, name))
    <2>1. Readable(args, name, "STRING")
      BY DemandedIsReadable DEF Whole, Serves
    <2>2. Data(args, name) \in Seq(STRING)
      BY <2>1, StringsAreRead DEF Whole
    <2>3. QED
      BY <2>2 DEF IsSeq
  <1>2. opts' = aven_build_common_opts(args) /\ many' \in Manies
    BY DEF ReadOpts
  <1>3. /\ opts'.ccflags = Len(Data(args, "-ccflags"))
        /\ opts'.ldflags = Len(Data(args, "-ldflags"))
        /\ opts'.arflags = Len(Data(args, "-arflags"))
        /\ opts'.wrflags = Len(Data(args, "-windresflags"))
        /\ opts'.obexts = Data(args, "-obext") /\ opts'.exexts = Data(args, "-exext")
        /\ opts'.soexts = Data(args, "-soext") /\ opts'.arexts = Data(args, "-arext")
        /\ opts'.wrexts = Data(args, "-wrext")
    BY <1>2 DEF aven_build_common_opts
  <1>4. /\ "-ccflags" \in Flags /\ "-ldflags" \in Flags /\ "-arflags" \in Flags
        /\ "-obext" \in Flags /\ "-exext" \in Flags /\ "-soext" \in Flags
        /\ "-arext" \in Flags /\ "-wrext" \in Flags
    BY DEF Flags
  <1>5. OptsOK'
    BY <1>1, <1>3, <1>4 DEF OptsOK
  <1>6. ManyOK'
    BY <1>2, ManiesAssumption DEF ManyOK
  <1>7. QED
    BY <1>5, <1>6
-----------------------------------------------------------------------------
(* The parser does what the command line means.                             *)

LEMMA StandingUnfolds ==
    ASSUME NEW n \in Nat, NEW V
    PROVE  \A k \in 1..n : k \in Standing(n, V) <=>
                k = 1 \/ ~ (k - 1 \in Standing(n, V) /\ k - 1 \in V)
  <1> DEFINE Solves(f, m) == f = [k \in 1..m |-> k = 1 \/ ~ (f[k - 1] /\ k - 1 \in V)]
             T == {m \in 0..n : ~ \E f : Solves(f, m)}
  <1>1. ASSUME NEW m \in 1..n, NEW f, Solves(f, m - 1)
        PROVE  \E h : Solves(h, m)
    <2> DEFINE h == [k \in 1..m |-> k = 1 \/ ~ (f[k - 1] /\ k - 1 \in V)]
    <2>1. \A k \in 1..(m - 1) : f[k] = (k = 1 \/ ~ (f[k - 1] /\ k - 1 \in V))
      BY <1>1
    <2>2. \A k \in 1..(m - 1) : h[k] = f[k]
      <3> TAKE k \in 1..(m - 1)
      <3>1. k \in 1..m
        OBVIOUS
      <3>2. h[k] = (k = 1 \/ ~ (f[k - 1] /\ k - 1 \in V))
        BY <3>1
      <3>3. QED
        BY <2>1, <3>2
    <2>3. \A k \in 1..m : h[k] = (k = 1 \/ ~ (f[k - 1] /\ k - 1 \in V))
      OBVIOUS
    <2>4. h = [k \in 1..m |-> h[k]]
      OBVIOUS
    <2> HIDE DEF h
    <2>5. \A k \in 1..m : k # 1 => h[k - 1] = f[k - 1]
      BY <2>2
    <2>6. \A k \in 1..m : h[k] = (k = 1 \/ ~ (h[k - 1] /\ k - 1 \in V))
      BY <2>3, <2>5
    <2>7. Solves(h, m)
      BY <2>4, <2>6
    <2>8. QED
      BY <2>7
  <1>2. \E f : Solves(f, 0)
    <2>1. Solves([k \in 1..0 |-> TRUE], 0)
      OBVIOUS
    <2>2. QED
      BY <2>1
  <1>3. n \notin T
    <2> SUFFICES ASSUME n \in T
                 PROVE  FALSE
      OBVIOUS
    <2> HIDE DEF Solves
    <2>1. T \in SUBSET Nat /\ T # {}
      OBVIOUS
    <2>2. PICK m \in T : \A l \in T : m <= l
      <3> HIDE DEF T
      <3>1. QED
        BY <2>1, Least
    <2>3. m \in 0..n /\ ~ \E f : Solves(f, m)
      OBVIOUS
    <2>4. m # 0
      BY <1>2, <2>3
    <2>5. m \in 1..n /\ m - 1 \in 0..n
      BY <2>3, <2>4
    <2>6. m - 1 \notin T
      BY <2>2, <2>5
    <2>7. \E f : Solves(f, m - 1)
      BY <2>5, <2>6
    <2>8. QED
      BY <1>1, <2>3, <2>5, <2>7
  <1>4. PICK f : f = [k \in 1..n |-> k = 1 \/ ~ (f[k - 1] /\ k - 1 \in V)]
    BY <1>3
  <1> HIDE DEF Solves, T
  <1>5. PICK at : /\ at = CHOOSE a : a = [k \in 1..n |-> k = 1 \/ ~ (a[k - 1] /\ k - 1 \in V)]
                  /\ Standing(n, V) = {k \in 1..n : at[k]}
    BY DEF Standing
  <1>6. at = [k \in 1..n |-> k = 1 \/ ~ (at[k - 1] /\ k - 1 \in V)]
    BY <1>4, <1>5
  <1>7. \A k \in 1..n : at[k] = (k = 1 \/ ~ (at[k - 1] /\ k - 1 \in V))
    BY <1>6
  <1>8. \A k \in 1..n : k \in Standing(n, V) <=> at[k]
    BY <1>5
  <1>9. ASSUME NEW k \in 1..n
        PROVE  k \in Standing(n, V) <=>
                    k = 1 \/ ~ (k - 1 \in Standing(n, V) /\ k - 1 \in V)
    <2>1. CASE k = 1
      <3>1. at[k] = TRUE
        BY <1>7, <2>1
      <3>2. QED
        BY <1>8, <2>1, <3>1
    <2>2. CASE k # 1
      <3>1. at[k] = ~ (at[k - 1] /\ k - 1 \in V)
        BY <1>7, <2>2
      <3>2. k - 1 \in 1..n
        BY <2>2
      <3>3. k - 1 \in Standing(n, V) <=> at[k - 1]
        BY <1>8, <3>2
      <3>4. at[k] <=> ~ (at[k - 1] /\ k - 1 \in V)
        BY <3>1, Zenon
      <3>5. k \in Standing(n, V) <=> at[k]
        BY <1>8
      <3>6. QED
        BY <2>2, <3>3, <3>4, <3>5, Zenon
    <2>3. QED
      BY <2>1, <2>2
  <1>10. QED
    BY <1>9

\* The value of an option that stands at the positions in U.
LastOf(U) == CHOOSE k \in U : \A l \in U : l <= k
ValueFrom(j, U) ==
    IF U = {} THEN defaults[j].value
    ELSE CASE defaults[j].type = "BOOL" -> Value("BOOL", TRUE)
           [] defaults[j].type = "INT" -> Value("INT", Atoi[argv[LastOf(U) + 1]])
           [] defaults[j].type = "STRING" -> Value("STRING", argv[LastOf(U) + 1])
UsedBefore(j, n) == {k \in AtOption : k < n /\ First(Matches(argv[k])) = j}

\* The part of the command line that the parser has seen has been obeyed.
Obeyed(n) ==
    /\ n <= Len(argv) + 1 /\ (n <= Len(argv) => n \in AtOption)
    /\ \A k \in AtOption : k < n => Wrong(k) = "OK"
    /\ \A j \in 1..Len(defaults) : args[j].value = ValueFrom(j, UsedBefore(j, n))
ParseInv ==
    /\ IsTable(defaults) /\ Alike(defaults, args)
    /\ result = "BUSY" => Obeyed(i)
    /\ ParsesAsMeant

LEMMA MeaningKept ==
    ASSUME argv' = argv, defaults' = defaults, Alike(args, args')
    PROVE  /\ AtOption' = AtOption
           /\ \A w : Matches(w)' = Matches(w) /\ (TakesValue(w)' <=> TakesValue(w))
           /\ \A k : Wrong(k)' = Wrong(k)
           /\ \A j, n : UsedBefore(j, n)' = UsedBefore(j, n)
           /\ \A j, U : ValueFrom(j, U)' = ValueFrom(j, U)
  <1>1. \A w : Matches(w)' = Matches(w)
    BY DEF Matches, Alike
  <1>2. \A w : TakesValue(w)' <=> TakesValue(w)
    BY <1>1 DEF TakesValue
  <1>3. {k \in 1..Len(argv) : TakesValue(argv[k])}' = {k \in 1..Len(argv) : TakesValue(argv[k])}
    BY <1>2
  <1>4. AtOption' = AtOption
    BY <1>3 DEF AtOption
  <1>5. \A k : Wrong(k)' = Wrong(k)
    BY <1>1, <1>2 DEF Wrong
  <1>6. \A j, n : UsedBefore(j, n)' = UsedBefore(j, n)
    BY <1>1, <1>4 DEF UsedBefore
  <1>7. \A j, U : ValueFrom(j, U)' = ValueFrom(j, U)
    BY DEF ValueFrom
  <1>8. QED
    BY <1>1, <1>2, <1>4, <1>5, <1>6, <1>7

\* What the options that stand before the first wrong one make of the table.
LEMMA StopsHere ==
    ASSUME argv \in Seq(Given), i \in Nat, i >= 1, Obeyed(i),
           i > Len(argv) \/ Wrong(i) # "OK"
    PROVE  /\ Stop = i
           /\ \A j : Uses(j) = UsedBefore(j, i)
           /\ \A j \in 1..Len(defaults) : args[j].value = Meant(j)
  <1>1. PICK len : len = Len(argv)
    OBVIOUS
  <1>2. len \in Nat /\ AtOption \subseteq 1..len
    BY <1>1 DEF AtOption, Standing
  <1>3. /\ i <= len + 1 /\ (i <= len => i \in AtOption)
        /\ \A k \in AtOption : k < i => Wrong(k) = "OK"
        /\ \A j \in 1..Len(defaults) : args[j].value = ValueFrom(j, UsedBefore(j, i))
    BY <1>1 DEF Obeyed
  <1>4. PICK bad : bad = {k \in AtOption : Wrong(k) # "OK"}
    OBVIOUS
  <1>5. /\ bad \in SUBSET Nat /\ bad \subseteq 1..len
        /\ i <= len => i \in bad
    <2>1. ASSUME NEW k \in bad
          PROVE  k \in 1..len /\ k \in Nat
      <3>1. k \in AtOption
        BY <1>4
      <3>2. QED
        BY <1>2, <3>1
    <2>2. ASSUME i <= len
          PROVE  i \in bad
      <3>1. i \in AtOption
        BY <1>3, <2>2
      <3>2. ~ (i > len)
        BY <1>2, <2>2
      <3>3. Wrong(i) # "OK"
        BY <1>1, <3>2
      <3>4. QED
        BY <1>4, <3>1, <3>3
    <2>3. QED
      BY <2>1, <2>2
  <1>6. ASSUME NEW k \in bad
        PROVE  i <= k
    <2>1. k \in Nat /\ k \in AtOption /\ Wrong(k) # "OK"
      BY <1>4, <1>5
    <2>2. ~ (k < i)
      BY <1>3, <2>1
    <2>3. QED
      BY <2>1, <2>2
  <1>a. Stop = IF bad = {} THEN len + 1 ELSE First(bad)
    BY <1>1, <1>4 DEF Stop
  <1>7. Stop = i
    <2>1. CASE i > len
      <3>1. bad = {}
        BY <1>2, <1>5, <1>6, <2>1
      <3>2. i = len + 1
        BY <1>2, <1>3, <2>1
      <3>3. QED
        BY <1>a, <3>1, <3>2
    <2>2. CASE i <= len
      <3>1. i \in bad
        BY <1>5, <2>2
      <3>2. First(bad) \in bad /\ First(bad) <= i
        BY <1>5, <3>1, FirstIsLeast
      <3>3. i <= First(bad) /\ First(bad) \in Nat
        BY <1>5, <1>6, <3>2
      <3>4. QED
        BY <1>a, <3>1, <3>2, <3>3
    <2>3. QED
      BY <1>2, <2>1, <2>2
  <1>8. \A j : Uses(j) = UsedBefore(j, i)
    BY <1>7 DEF Uses, UsedBefore
  <1>9. \A j : Meant(j) = ValueFrom(j, Uses(j))
    BY DEF Meant, ValueFrom, LastUse, LastOf
  <1>10. QED
    BY <1>3, <1>7, <1>8, <1>9

\* What the command line means does not change while the table does not.
LEMMA MeantKept ==
    ASSUME argv' = argv, args' = args, defaults' = defaults
    PROVE  MeantResult' = MeantResult /\ \A j : Meant(j)' = Meant(j)
  <1>2. Alike(args, args')
    BY DEF Alike
  <1>3. /\ AtOption' = AtOption /\ \A w : Matches(w)' = Matches(w)
        /\ \A k : Wrong(k)' = Wrong(k)
    BY <1>2, MeaningKept
  <1>4. Stop' = Stop
    BY <1>3 DEF Stop
  <1>5. \A j : Uses(j)' = Uses(j)
    BY <1>3, <1>4 DEF Uses
  <1>6. \A j : LastUse(j)' = LastUse(j)
    BY <1>5 DEF LastUse
  <1>7. ASSUME NEW j
        PROVE  Meant(j)' = Meant(j)
    <2>1. Uses(j)' = Uses(j) /\ LastUse(j)' = LastUse(j)
      BY <1>5, <1>6
    <2>2. QED
      BY <2>1 DEF Meant
  <1>8. Demanded' = Demanded
    BY DEF Demanded
  <1>9. MeantResult' = MeantResult
    BY <1>3, <1>4, <1>5, <1>8 DEF MeantResult
  <1>10. QED
    BY <1>7, <1>9

LEMMA ReturnKeeps ==
    ASSUME ParseInv, NEW e, Return(e), e \in {"HELP", "UNKNOWN", "VALUE", "OK", "MISSING"},
           e = MeantResult, \A j \in 1..Len(defaults) : args[j].value = Meant(j)
    PROVE  ParseInv'
  <1>1. result' = e /\ argv' = argv /\ i' = i /\ args' = args /\ defaults' = defaults
    BY DEF Return
  <1>2. MeantResult' = MeantResult /\ \A j : Meant(j)' = Meant(j)
    BY <1>1, MeantKept
  <1>3. ParsesAsMeant'
    BY <1>1, <1>2 DEF ParsesAsMeant
  <1>4. QED
    BY <1>1, <1>3 DEF ParseInv

LEMMA ObeyedKept ==
    ASSUME argv' = argv, i' = i, args' = args, result' = result, defaults' = defaults,
           result # "READ" => ParseInv
    PROVE  result' # "READ" => ParseInv'
  <1>1. Alike(args, args')
    BY DEF Alike
  <1>2. /\ AtOption' = AtOption /\ \A k : Wrong(k)' = Wrong(k)
        /\ \A j, n : UsedBefore(j, n)' = UsedBefore(j, n)
        /\ \A j, U : ValueFrom(j, U)' = ValueFrom(j, U)
    BY <1>1, MeaningKept
  <1>3. \A j : ValueFrom(j, UsedBefore(j, i))' = ValueFrom(j, UsedBefore(j, i))
    <2> TAKE j
    <2>1. PICK n : n = i
      OBVIOUS
    <2>2. PICK U : U = UsedBefore(j, n)
      OBVIOUS
    <2>3. UsedBefore(j, n)' = U /\ ValueFrom(j, U)' = ValueFrom(j, U)
      BY <1>2, <2>2
    <2>4. UsedBefore(j, i)' = U /\ UsedBefore(j, i) = U
      BY <2>1, <2>2, <2>3
    <2>5. QED
      BY <2>3, <2>4
  <1>4. Obeyed(i) => Obeyed(i)'
    BY <1>2, <1>3 DEF Obeyed
  <1>5. MeantResult' = MeantResult /\ \A j : Meant(j)' = Meant(j)
    BY MeantKept
  <1>6. ParsesAsMeant => ParsesAsMeant'
    BY <1>5 DEF ParsesAsMeant
  <1>7. QED
    BY <1>4, <1>6 DEF ParseInv

\* The option that stands here has been obeyed when the parser goes on at n.
LEMMA Advances ==
    ASSUME argv \in Seq(Given), i \in Nat, i >= 1, i <= Len(argv), Obeyed(i), Known,
           NEW n, n = IF TakesValue(argv[i]) THEN i + 2 ELSE i + 1, n <= Len(argv) + 1
    PROVE  /\ n <= Len(argv) => n \in AtOption
           /\ \A k \in AtOption : k < n => Wrong(k) = "OK"
           /\ UsedBefore(Option, n) # {} /\ LastOf(UsedBefore(Option, n)) = i
           /\ \A j : j # Option => UsedBefore(j, n) = UsedBefore(j, i)
  <1> DEFINE V == {k \in 1..Len(argv) : TakesValue(argv[k])}
  <1>1. /\ Len(argv) \in Nat /\ AtOption \subseteq 1..Len(argv)
        /\ AtOption = Standing(Len(argv), V)
    BY DEF AtOption, Standing
  <1>2. \A k \in V : k \in 1..Len(argv)
    OBVIOUS
  <1>3. i \in V <=> TakesValue(argv[i])
    OBVIOUS
  <1> HIDE DEF V
  <1>4. \A k \in 1..Len(argv) : k \in AtOption <=>
            k = 1 \/ ~ (k - 1 \in AtOption /\ k - 1 \in V)
    BY <1>1, StandingUnfolds
  <1>5. i \in AtOption /\ \A k \in AtOption : k < i => Wrong(k) = "OK"
    BY DEF Obeyed
  <1>6. n \in Nat /\ i < n
    OBVIOUS
  <1>7. \A k \in AtOption : k < n => k < i \/ k = i
    <2>1. CASE TakesValue(argv[i])
      <3>1. i + 1 \notin AtOption
        <4>1. i + 1 \in 1..Len(argv) /\ (i + 1) - 1 = i /\ i + 1 # 1
          BY <1>1, <2>1
        <4>2. QED
          BY <1>3, <1>4, <1>5, <2>1, <4>1
      <3>2. QED
        BY <1>1, <2>1, <3>1
    <2>2. CASE ~ TakesValue(argv[i])
      BY <1>1, <2>2
    <2>3. QED
      BY <2>1, <2>2
  <1>8. n <= Len(argv) => n \in AtOption
    <2> SUFFICES ASSUME n <= Len(argv)
                 PROVE  n \in AtOption
      OBVIOUS
    <2>1. n \in 1..Len(argv) /\ n - 1 \in Nat
      BY <1>1, <1>6
    <2>2. ~ (n - 1 \in AtOption /\ n - 1 \in V)
      <3>1. CASE TakesValue(argv[i])
        <4>1. n - 1 < n /\ ~ (n - 1 < i) /\ n - 1 # i
          BY <3>1
        <4>2. QED
          BY <1>7, <4>1
      <3>2. CASE ~ TakesValue(argv[i])
        <4>1. n - 1 = i
          BY <3>2
        <4>2. QED
          BY <1>3, <3>2, <4>1
      <3>3. QED
        BY <3>1, <3>2
    <2>3. QED
      BY <1>4, <2>1, <2>2
  <1>9. Wrong(i) = "OK"
    <2>1. argv[i] \notin Help /\ Matches(argv[i]) # {}
      BY DEF Known
    <2>2. ~ (TakesValue(argv[i]) /\ i = Len(argv))
      BY <1>1
    <2>3. QED
      BY <2>1, <2>2 DEF Wrong
  <1>10. \A k \in AtOption : k < n => Wrong(k) = "OK"
    BY <1>5, <1>7, <1>9
  <1>11. \A j : j # Option => UsedBefore(j, n) = UsedBefore(j, i)
    <2> TAKE j
    <2> HAVE j # Option
    <2>1. First(Matches(argv[i])) # j
      BY DEF Option
    <2>2. ASSUME NEW k \in AtOption, First(Matches(argv[k])) = j
          PROVE  k < n <=> k < i
      <3>1. k # i /\ k \in Nat
        BY <1>1, <2>1, <2>2
      <3>2. QED
        BY <1>6, <1>7, <3>1
    <2>3. QED
      BY <2>2 DEF UsedBefore
  <1>12. i \in UsedBefore(Option, n)
    BY <1>5, <1>6 DEF UsedBefore, Option
  <1>13. \A k \in UsedBefore(Option, n) : k \in Nat /\ k <= i
    BY <1>1, <1>7 DEF UsedBefore
  <1>14. LastOf(UsedBefore(Option, n)) = i
    <2>1. PICK U : U = UsedBefore(Option, n)
      OBVIOUS
    <2>2. i \in U /\ \A k \in U : k \in Nat /\ k <= i
      BY <1>12, <1>13, <2>1
    <2>3. LastOf(U) \in U /\ \A k \in U : k <= LastOf(U)
      BY <2>2 DEF LastOf
    <2>4. LastOf(U) \in Nat /\ LastOf(U) <= i /\ i <= LastOf(U)
      BY <2>2, <2>3
    <2>5. LastOf(U) = i
      BY <2>4
    <2>6. QED
      BY <2>1, <2>5
  <1>15. QED
    BY <1>8, <1>10, <1>11, <1>12, <1>14

LEMMA ObeyMore ==
    ASSUME argv \in Seq(Given), i \in Nat, i >= 1, i <= Len(argv), Obeyed(i), Known,
           IsTable(args), IsTable(defaults), Alike(defaults, args), Option \in 1..Len(args),
           i' = (IF TakesValue(argv[i]) THEN i + 2 ELSE i + 1), i' <= Len(argv) + 1,
           argv' = argv, defaults' = defaults, result' = "BUSY", Alike(args, args'),
           NEW v, args' = [args EXCEPT ![Option].value = v],
           \A U : U # {} /\ LastOf(U) = i => ValueFrom(Option, U) = v
    PROVE  ParseInv'
  <1>1. PICK n : n = i'
    OBVIOUS
  <1>2. /\ n <= Len(argv) => n \in AtOption
        /\ \A k \in AtOption : k < n => Wrong(k) = "OK"
        /\ UsedBefore(Option, n) # {} /\ LastOf(UsedBefore(Option, n)) = i
        /\ \A j : j # Option => UsedBefore(j, n) = UsedBefore(j, i)
    BY <1>1, Advances
  <1>3. PICK o : o = Option
    OBVIOUS
  <1>4. Len(args) \in Nat /\ Len(args) = Len(defaults) /\ DOMAIN args = 1..Len(args)
    BY DEF IsTable, Alike
  <1>5. /\ \A j \in 1..Len(args) : j # o => args'[j] = args[j]
        /\ args'[o] = [args[o] EXCEPT !.value = v]
    BY <1>3, <1>4
  <1>6. args'[o].value = v
    <2>1. IsOption(args[o])
      BY <1>3 DEF IsTable
    <2>2. PICK r : r = args[o]
      OBVIOUS
    <2>3. r = [name |-> r.name, optional |-> r.optional, type |-> r.type,
               value |-> Value(r.value.type, r.value.data)]
      BY <2>1, <2>2 DEF IsOption
    <2>4. [r EXCEPT !.value = v].value = v
      BY <2>3
    <2>5. QED
      BY <1>5, <2>2, <2>4
  <1>7. /\ AtOption' = AtOption
        /\ \A k : Wrong(k)' = Wrong(k)
        /\ \A j, m : UsedBefore(j, m)' = UsedBefore(j, m)
        /\ \A j, U : ValueFrom(j, U)' = ValueFrom(j, U)
    BY MeaningKept
  <1>8. ASSUME NEW j \in 1..Len(args)
        PROVE  args'[j].value = ValueFrom(j, UsedBefore(j, n))
    <2>1. CASE j = o
      BY <1>2, <1>3, <1>6, <2>1
    <2>2. CASE j # o
      <3>1. args[j].value = ValueFrom(j, UsedBefore(j, i))
        BY <1>4 DEF Obeyed
      <3>2. UsedBefore(j, n) = UsedBefore(j, i)
        BY <1>2, <1>3, <2>2
      <3>3. QED
        BY <1>5, <2>2, <3>1, <3>2
    <2>3. QED
      BY <2>1, <2>2
  <1>9. Obeyed(n)'
    <2>1. n <= Len(argv') + 1 /\ (n <= Len(argv') => n \in AtOption')
      BY <1>1, <1>2, <1>7
    <2>2. \A k \in AtOption' : k < n => Wrong(k)' = "OK"
      BY <1>2, <1>7
    <2>3. ASSUME NEW j \in 1..Len(defaults')
          PROVE  args'[j].value = ValueFrom(j, UsedBefore(j, n))'
      <3>1. args'[j].value = ValueFrom(j, UsedBefore(j, n))
        BY <1>4, <1>8
      <3>2. PICK U : U = UsedBefore(j, n)
        OBVIOUS
      <3>3. UsedBefore(j, n)' = U /\ ValueFrom(j, U)' = ValueFrom(j, U)
        BY <1>7, <3>2
      <3>4. QED
        BY <3>1, <3>2, <3>3
    <2>4. QED
      BY <2>1, <2>2, <2>3 DEF Obeyed
  <1>10. Obeyed(i)'
    BY <1>1, <1>9
  <1>11. Alike(defaults', args') /\ IsTable(defaults')
    BY DEF Alike
  <1>12. QED
    BY <1>10, <1>11 DEF ParseInv, ParsesAsMeant
LEMMA StartMeans == ParseInit => ParseInv
  <1> SUFFICES ASSUME ParseInit
               PROVE  ParseInv
    OBVIOUS
  <1>1. argv \in Seq(Given) /\ i = 1 /\ result = "BUSY" /\ args = defaults
    BY StartIsTable DEF ParseInit, ArgsInv
  <1>2. IsTable(defaults) /\ Alike(defaults, args)
    BY <1>1, TablesAssumption DEF ParseInit, Alike
  <1>3. /\ Len(argv) \in Nat /\ AtOption \subseteq 1..Len(argv)
    BY <1>1 DEF AtOption, Standing
  <1>4. 1 <= Len(argv) => 1 \in AtOption
    <2>1. PICK V : AtOption = Standing(Len(argv), V)
      BY DEF AtOption
    <2>2. QED
      BY <1>3, <2>1, StandingUnfolds
  <1>5. \A k \in AtOption : ~ (k < 1)
    BY <1>3
  <1>6. \A j : UsedBefore(j, 1) = {}
    BY <1>5 DEF UsedBefore
  <1>7. \A j : args[j].value = ValueFrom(j, UsedBefore(j, 1))
    BY <1>1, <1>6 DEF ValueFrom
  <1>8. Obeyed(1)
    BY <1>3, <1>4, <1>5, <1>7 DEF Obeyed
  <1>9. QED
    BY <1>1, <1>2, <1>8 DEF ParseInv, ParsesAsMeant

LEMMA ParseMeans ==
    ASSUME ArgsInv, ParseInv, Parse
    PROVE  ParseInv'
  <1>1. /\ argv \in Seq(Given) /\ i \in Nat /\ i >= 1 /\ Len(argv) \in Nat
        /\ IsTable(args) /\ Len(args) \in Nat
        /\ IsTable(defaults) /\ Alike(defaults, args)
    BY DEF ArgsInv, ParseInv, IsTable
  <1>2. result = "BUSY" /\ Obeyed(i)
    BY DEF ParseInv, Parse, AskHelp, Unknown, SetBool, NoValue, SetValue, Finish, Parsing
  <1>3. ASSUME Parsing, Known
        PROVE  /\ Option \in 1..Len(args) /\ args[Option].type = defaults[Option].type
               /\ IsOption(args[Option])
               /\ TakesValue(argv[i]) <=> args[Option].type # "BOOL"
    <2>1. Matches(argv[i]) \in SUBSET Nat /\ Matches(argv[i]) \subseteq 1..Len(args)
      BY DEF Matches
    <2>2. Option \in 1..Len(args)
      BY <1>3, <2>1, FirstIsLeast DEF Known, Option
    <2>3. args[Option].type = defaults[Option].type
      BY <1>1, <2>2 DEF Alike
    <2>4. TakesValue(argv[i]) <=> args[Option].type # "BOOL"
      BY <1>3, <2>3 DEF TakesValue, Known, Option
    <2>5. QED
      BY <1>1, <2>2, <2>3, <2>4 DEF IsTable
  <1>4. CASE AskHelp
    <2>1. argv[i] \in Help /\ i <= Len(argv) /\ Return("HELP")
      BY <1>4 DEF AskHelp, Parsing
    <2>2. Wrong(i) = "HELP"
      BY <2>1 DEF Wrong, TakesValue
    <2>3. Stop = i /\ \A j \in 1..Len(defaults) : args[j].value = Meant(j)
      BY <1>1, <1>2, <2>2, StopsHere
    <2>4. MeantResult = "HELP"
      BY <2>1, <2>2, <2>3 DEF MeantResult
    <2>5. QED
      BY <2>1, <2>3, <2>4, ReturnKeeps
  <1>5. CASE Unknown
    <2>1. /\ argv[i] \notin Help /\ Matches(argv[i]) = {}
          /\ i <= Len(argv) /\ Return("UNKNOWN")
      BY <1>5 DEF Unknown, Parsing
    <2>2. Wrong(i) = "UNKNOWN"
      BY <2>1 DEF Wrong, TakesValue
    <2>3. Stop = i /\ \A j \in 1..Len(defaults) : args[j].value = Meant(j)
      BY <1>1, <1>2, <2>2, StopsHere
    <2>4. MeantResult = "UNKNOWN"
      BY <2>1, <2>2, <2>3 DEF MeantResult
    <2>5. QED
      BY <2>1, <2>3, <2>4, ReturnKeeps
  <1>6. CASE NoValue
    <2>1. /\ Parsing /\ Known /\ i <= Len(argv) /\ ~ (i + 1 <= Len(argv))
          /\ args[Option].type # "BOOL" /\ Return("VALUE")
      BY <1>6 DEF NoValue, Parsing, HasValue
    <2>2. i = Len(argv)
      BY <1>1, <2>1
    <2>3. TakesValue(argv[i]) /\ argv[i] \notin Help /\ Matches(argv[i]) # {}
      BY <1>3, <2>1 DEF Known
    <2>4. Wrong(i) = "VALUE"
      BY <2>2, <2>3 DEF Wrong
    <2>5. Stop = i /\ \A j \in 1..Len(defaults) : args[j].value = Meant(j)
      BY <1>1, <1>2, <2>4, StopsHere
    <2>6. MeantResult = "VALUE"
      BY <2>1, <2>4, <2>5 DEF MeantResult
    <2>7. QED
      BY <2>1, <2>5, <2>6, ReturnKeeps
  <1>7. CASE Finish
    <2>1. i > Len(argv) /\ Return(IF Missing = {} THEN "OK" ELSE "MISSING")
      BY <1>7 DEF Finish
    <2>2. /\ Stop = i /\ \A j : Uses(j) = UsedBefore(j, i)
          /\ \A j \in 1..Len(defaults) : args[j].value = Meant(j)
      BY <1>1, <1>2, <2>1, StopsHere
    <2>3. Len(defaults) = Len(args)
      BY <1>1 DEF Alike
    <2>4. ASSUME NEW j \in 1..Len(defaults)
          PROVE  j \in Missing <=> j \in Demanded /\ Uses(j) = {}
      <3>1. /\ args[j].value = Meant(j) /\ args[j].type = defaults[j].type
            /\ args[j].optional = defaults[j].optional /\ defaults[j].type \in ArgType
        BY <1>1, <2>2, <2>3, <2>4 DEF Alike, IsTable, IsOption
      <3>2. CASE Uses(j) = {}
        <4>1. args[j].value = defaults[j].value
          BY <3>1, <3>2 DEF Meant
        <4>2. QED
          BY <2>3, <3>1, <3>2, <4>1 DEF Missing, Demanded, HasData
      <3>3. CASE Uses(j) # {}
        <4>1. Meant(j).type = defaults[j].type
          BY <3>1, <3>3 DEF Meant, Value, ArgType
        <4>2. HasData(args[j])
          BY <3>1, <4>1 DEF HasData
        <4>3. QED
          BY <3>3, <4>2 DEF Missing
      <3>4. QED
        BY <3>2, <3>3
    <2>5. Missing = {} <=> ~ \E j \in Demanded : Uses(j) = {}
      BY <2>3, <2>4 DEF Missing, Demanded
    <2>6. ~ (Stop <= Len(argv))
      BY <1>1, <2>1, <2>2
    <2>7. MeantResult = IF Missing = {} THEN "OK" ELSE "MISSING"
      BY <2>5, <2>6 DEF MeantResult
    <2>8. QED
      BY <2>1, <2>2, <2>7, ReturnKeeps
  <1>8. CASE SetBool
    <2>1. /\ Parsing /\ Known /\ args[Option].type = "BOOL" /\ i <= Len(argv)
          /\ args' = [args EXCEPT ![Option].value.data = TRUE]
          /\ i' = i + 1 /\ argv' = argv /\ result' = "BUSY" /\ defaults' = defaults
      BY <1>8 DEF SetBool, Parsing
    <2>2. PICK v : v = Value("BOOL", TRUE)
      OBVIOUS
    <2>3. args' = [args EXCEPT ![Option].value = v]
      <3>1. PICK w : w = args[Option].value
        OBVIOUS
      <3>2. w.type = "BOOL" /\ w = [type |-> w.type, data |-> w.data]
        BY <1>3, <2>1, <3>1 DEF IsOption, Value
      <3>3. PICK x : w = [type |-> "BOOL", data |-> x]
        BY <3>2
      <3>4. [w EXCEPT !.data = TRUE] = [type |-> "BOOL", data |-> TRUE]
        <4>1. \A b : [w EXCEPT !.data = b] = [type |-> "BOOL", data |-> b]
          BY <3>3
        <4>2. QED
          BY <4>1
      <3>5. [w EXCEPT !.data = TRUE] = v
        BY <2>2, <3>4 DEF Value
      <3>6. QED
        BY <2>1, <3>1, <3>5
    <2>4. Alike(args, args')
      <3>1. /\ v = Value(v.type, v.data) /\ v.type = args[Option].type
            /\ v.type = "STRING" => v.data \in Seq(STRING)
        BY <2>1, <2>2 DEF Value
      <3>2. Option \in 1..Len(args) /\ IsTable(args)
        BY <1>1, <1>3, <2>1
      <3>3. PICK n : n = Option
        OBVIOUS
      <3>4. Alike(args, [args EXCEPT ![n].value = v])
        BY <3>1, <3>2, <3>3, OptionSet
      <3>5. QED
        BY <2>3, <3>3, <3>4
    <2>5. \A U : U # {} /\ LastOf(U) = i => ValueFrom(Option, U) = v
      BY <1>3, <2>1, <2>2 DEF ValueFrom
    <2>6. ~ TakesValue(argv[i]) /\ i' <= Len(argv) + 1
      BY <1>1, <1>3, <2>1
    <2>7. QED
      BY <1>1, <1>2, <1>3, <2>1, <2>3, <2>4, <2>5, <2>6, ObeyMore
  <1>9. CASE SetValue
    <2>1. /\ Parsing /\ Known /\ args[Option].type # "BOOL"
          /\ i <= Len(argv) /\ i + 1 <= Len(argv)
          /\ i' = i + 2 /\ argv' = argv /\ result' = "BUSY" /\ defaults' = defaults
      BY <1>9 DEF SetValue, Parsing, HasValue, Consumed
    <2>2. PICK d : d = IF args[Option].type = "INT" THEN Atoi[argv[i + 1]] ELSE argv[i + 1]
      OBVIOUS
    <2>3. PICK v : v = Value(args[Option].type, d)
      OBVIOUS
    <2>4. args' = [args EXCEPT ![Option].value = v]
      BY <1>9, <2>2, <2>3 DEF SetValue
    <2>5. Alike(args, args')
      <3>1. argv[i + 1] \in Seq(STRING)
        BY <1>1, <2>1, GivenAssumption
      <3>2. /\ v = Value(v.type, v.data) /\ v.type = args[Option].type
            /\ v.type = "STRING" => v.data \in Seq(STRING)
        BY <2>2, <2>3, <3>1 DEF Value
      <3>3. QED
        BY <1>1, <1>3, <2>1, <2>4, <3>2, OptionSet
    <2>6. \A U : U # {} /\ LastOf(U) = i => ValueFrom(Option, U) = v
      <3>1. defaults[Option].type = args[Option].type /\ args[Option].type \in ArgType
        BY <1>3, <2>1 DEF IsOption
      <3>2. args[Option].type \in {"INT", "STRING"}
        BY <2>1, <3>1 DEF ArgType
      <3>3. QED
        BY <2>2, <2>3, <3>1, <3>2 DEF ValueFrom
    <2>7. TakesValue(argv[i]) /\ i' <= Len(argv) + 1
      BY <1>1, <1>3, <2>1
    <2>8. QED
      BY <1>1, <1>2, <1>3, <2>1, <2>4, <2>5, <2>6, <2>7, ObeyMore
  <1>10. QED
    BY <1>4, <1>5, <1>6, <1>7, <1>8, <1>9 DEF Parse
-----------------------------------------------------------------------------
(* The whole program.                                                       *)

ProgramInv ==
    /\ result # "READ" => ArgsInv /\ graph = <<>> /\ mine = {}
    /\ result = "READ" => OptsOK /\ ManyOK
    /\ GraphInv

LEMMA NoGraphNext == (graph = <<>> /\ mine = {})' => GraphInv'
  <1>1. graph = <<>> /\ mine = {} => GraphInv
    BY NoGraphYet
  <1>2. QED
    BY <1>1, PTL

LEMMA ProgramStarts == Init => ProgramInv
  BY StartIsTable, NoGraphYet DEF Init, ParseInit, ProgramInv

LEMMA ParseKeepsProgram ==
    ASSUME ProgramInv, Parse, UNCHANGED clientVars
    PROVE  ProgramInv'
  <1>1. result # "READ"
    BY DEF Parse, AskHelp, Unknown, SetBool, NoValue, SetValue, Finish, Parsing
  <1>2. ArgsInv' /\ result' # "READ"
    BY <1>1, ParseKeeps DEF ProgramInv
  <1>3. graph' = <<>> /\ mine' = {}
    BY <1>1 DEF ProgramInv, clientVars
  <1>4. GraphInv'
    BY <1>3, NoGraphNext
  <1>5. QED
    BY <1>2, <1>3, <1>4 DEF ProgramInv

LEMMA ReadOptsKeepsProgram ==
    ASSUME ProgramInv, ReadOpts
    PROVE  ProgramInv'
  <1>1. ArgsInv /\ result = "OK" /\ result' = "READ"
    BY DEF ProgramInv, ReadOpts
  <1>2. OptsOK' /\ ManyOK'
    BY <1>1, ArgsAreWhole, OptionsAreRead
  <1>3. graph' = <<>> /\ mine' = {}
    BY <1>1 DEF ProgramInv, ReadOpts
  <1>4. GraphInv'
    BY <1>3, NoGraphNext
  <1>5. QED
    BY <1>1, <1>2, <1>4 DEF ProgramInv

LEMMA BuildKeepsProgram ==
    ASSUME ProgramInv, result = "READ", Build, UNCHANGED argVars
    PROVE  ProgramInv'
  <1>1. GraphInv'
    BY BuildKeeps DEF ProgramInv
  <1>2. opts' = opts /\ many' = many
    <2>1. \A g : Make(g) => opts' = opts /\ many' = many
      BY DEF Make
    <2>2. ASSUME NEW dir \in DirSteps, NEW name \in Dirs, Mkdir(name) \/ Subdir(dir, name)
          PROVE  opts' = opts /\ many' = many
      BY <2>1, <2>2 DEF Mkdir, Subdir
    <2>3. ASSUME NEW name \in Dirs, Mkdir(name)
          PROVE  opts' = opts /\ many' = many
      BY <2>1, <2>3 DEF Mkdir
    <2>4. ASSUME NEW dir \in DirSteps, NEW src \in Srcs, Cc(src, dir) \/ Windres(src, dir)
          PROVE  opts' = opts /\ many' = many
      BY <2>1, <2>4 DEF Cc, Windres
    <2>5. ASSUME NEW dir \in DirSteps, NEW src \in Srcs, NEW objs \in Objs,
                 \/ \E kind \in BinType : CcLd(objs, src, dir, kind)
                 \/ \E graphical \in BOOLEAN : CcLdRunExe(objs, src, dir, graphical)
          PROVE  opts' = opts /\ many' = many
      BY <2>1, <2>5 DEF CcLd, CcLdRunExe
    <2>6. ASSUME NEW dir \in DirSteps, NEW objs \in Objs, NEW name \in Names,
                 \/ Ar(objs, dir, name) \/ Trunc(dir, name)
                 \/ \E kind \in BinType : Ld(objs, dir, name, kind)
          PROVE  opts' = opts /\ many' = many
      BY <2>1, <2>6 DEF Ar, Trunc, Ld
    <2>7. ASSUME \/ \E exe \in ObjSteps : RunExe(exe)
                 \/ \E s \in ObjSteps, dir \in DirSteps : Copy(s, dir)
                 \/ Root
          PROVE  opts' = opts /\ many' = many
      BY <2>1, <2>7 DEF RunExe, Copy, Root
    <2>8. ASSUME NEW root \in mine, NEW s \in mine, AddDep(root, s)
          PROVE  opts' = opts /\ many' = many
      BY <2>8 DEF AddDep
    <2>9. QED
      BY <2>2, <2>3, <2>4, <2>5, <2>6, <2>7, <2>8 DEF Build
  <1>3. OptsOK' /\ ManyOK' /\ result' = "READ"
    BY <1>2 DEF ProgramInv, OptsOK, ManyOK, argVars
  <1>4. QED
    BY <1>1, <1>3 DEF ProgramInv

LEMMA StutterKeepsProgram ==
    ASSUME ProgramInv, UNCHANGED vars
    PROVE  ProgramInv'
  <1>1. /\ result' = result /\ argv' = argv /\ i' = i /\ args' = args
        /\ opts' = opts /\ many' = many /\ graph' = graph /\ mine' = mine
    BY DEF vars, argVars, clientVars
  <1>2. ArgsInv => ArgsInv'
    BY <1>1 DEF ArgsInv, Missing
  <1>3. OptsOK /\ ManyOK => OptsOK' /\ ManyOK'
    BY <1>1 DEF OptsOK, ManyOK
  <1>4. GraphInv'
    BY <1>1 DEF ProgramInv, GraphInv, ExtsApart, Removable
  <1>5. QED
    BY <1>1, <1>2, <1>3, <1>4 DEF ProgramInv

\* In every state of the program the parser has a table for the reader, and
\* the graph is one the constructors make from options that were read.
THEOREM ProgramInvariant == Spec => []ProgramInv
  <1>1. ASSUME ProgramInv, [Next]_vars
        PROVE  ProgramInv'
    <2>1. CASE Parse /\ UNCHANGED clientVars
      BY <1>1, <2>1, ParseKeepsProgram
    <2>2. CASE ReadOpts
      BY <1>1, <2>2, ReadOptsKeepsProgram
    <2>3. CASE result = "READ" /\ Build /\ UNCHANGED argVars
      BY <1>1, <2>3, BuildKeepsProgram
    <2>4. CASE UNCHANGED vars
      BY <1>1, <2>4, StutterKeepsProgram
    <2>5. QED
      BY <1>1, <2>1, <2>2, <2>3, <2>4 DEF Next
  <1>2. QED
    BY <1>1, ProgramStarts, PTL DEF Spec

\* Until the options are read, the parser has obeyed what it has seen.
ObeyInv == result # "READ" => ParseInv

\* The parser reports the first thing that is wrong and nothing else, and every
\* option has the value it was last given before that, or its default, for
\* every table and every command line.
THEOREM ParserDoesAsMeant == Spec => []ParsesAsMeant
  <1>1. Init => ObeyInv
    BY StartMeans DEF Init, ObeyInv
  <1>2. ASSUME ProgramInv, ObeyInv, [Next]_vars
        PROVE  ObeyInv'
    <2>1. CASE Parse /\ UNCHANGED clientVars
      <3>1. result # "READ"
        BY <2>1 DEF Parse, AskHelp, Unknown, SetBool, NoValue, SetValue, Finish, Parsing
      <3>2. QED
        BY <1>2, <2>1, <3>1, ParseMeans DEF ProgramInv, ObeyInv
    <2>2. CASE ReadOpts
      BY <2>2 DEF ReadOpts, ObeyInv
    <2>3. CASE result = "READ" /\ Build /\ UNCHANGED argVars
      BY <2>3 DEF argVars, ObeyInv
    <2>4. CASE UNCHANGED vars
      <3>1. /\ result' = result /\ argv' = argv /\ i' = i /\ args' = args
            /\ defaults' = defaults
        BY <2>4 DEF vars, argVars
      <3>2. Alike(args, args')
        BY <3>1 DEF Alike
      <3>3. QED
        BY <1>2, <3>1, <3>2, ObeyedKept DEF ObeyInv
    <2>5. QED
      BY <1>2, <2>1, <2>2, <2>3, <2>4 DEF Next
  <1>3. ObeyInv => ParsesAsMeant
    BY DEF ObeyInv, ParseInv, ParsesAsMeant
  <1>4. QED
    BY <1>1, <1>2, <1>3, ProgramInvariant, PTL DEF Spec

\* No accessor of the options fails its assert, on any table of which the
\* reader demands what it reads, whatever the command line.
THEOREM OptionsCanBeRead == Spec => []AccessorsSafe
  <1>1. ProgramInv => AccessorsSafe
    BY ArgsAreWhole, ReadsAreReadable DEF ProgramInv, AccessorsSafe
  <1>2. QED
    BY <1>1, ProgramInvariant, PTL

\* Steps depend on older steps, so that the recursion of the engine ends.
THEOREM GraphsAreOrdered == Spec => []Ordered
  <1>1. ProgramInv => Ordered
    BY GraphIsGood DEF ProgramInv
  <1>2. QED
    BY <1>1, ProgramInvariant, PTL

\* What AcyclicAssumption asks of the graphs of the engine.
Acyclic == \A S \in SUBSET StepsOf(graph) : S # {} => \E s \in S : DepsOf(graph, s) \cap S = {}

\* Whatever calls a client makes of the constructors, its graph is one for the
\* engine, and the recursion over it ends.
THEOREM GraphsAreAcyclic == Spec => []Acyclic
  <1>1. ASSUME ProgramInv
        PROVE  Acyclic
    <2>1. Len(graph) \in Nat /\ \A s \in 1..Len(graph) : DepsOf(graph, s) \subseteq 1..(s - 1)
      BY <1>1, SeqAppend DEF ProgramInv, GraphInv, Made, IsGraph, StepsOf
    <2>2. ASSUME NEW S \in SUBSET (1..Len(graph)), S # {}
          PROVE  \E s \in S : DepsOf(graph, s) \cap S = {}
      <3>1. S \in SUBSET Nat
        OBVIOUS
      <3>2. PICK s \in S : \A t \in S : s <= t
        BY <2>2, <3>1, Least
      <3>3. \A t \in DepsOf(graph, s) : t \in Int /\ t < s
        BY <2>1, <3>1
      <3>4. DepsOf(graph, s) \cap S = {}
        BY <3>1, <3>2, <3>3
      <3>5. QED
        BY <3>4
    <2>3. QED
      BY <2>2 DEF Acyclic, StepsOf
  <1>2. QED
    BY <1>1, ProgramInvariant, PTL

\* A client that lets no tool leave beside its output what another step makes.
SidesApart == \A s, t \in StepsOf(graph) :
    graph[s].type = "PATH" => graph[s].out \notin Outputs(graph, t)

\* What OutputAssumption asks of the graphs of the engine: an out_path is made
\* by its step or below it, and nowhere else.
OutputsMade ==
    \A o \in {s \in StepsOf(graph) : graph[s].type # "PATH" /\ graph[s].out # NoPath} :
        LET below == Below(graph)[o] \cup {o}
        IN  /\ \E t \in below : graph[o].out \in Products(graph, t)
            /\ \A t \in StepsOf(graph) : graph[o].out \in Products(graph, t) =>
                t \in below /\ (graph[o].type = "COPY" => t = o)
            /\ \A t \in StepsOf(graph) :
                graph[t].out = graph[o].out => graph[t].type # "PATH"

LEMMA OutputsAreMade ==
    ASSUME GraphInv, SidesApart
    PROVE  OutputsMade
  <1>1. IsGraph(graph) /\ Distinct(graph) /\ \A s \in StepsOf(graph) : Sound(graph, s)
    BY DEF GraphInv, Made
  <1>2. ASSUME NEW o \in StepsOf(graph), graph[o].type # "PATH", graph[o].out # NoPath
        PROVE  LET below == Below(graph)[o] \cup {o}
               IN  /\ \E t \in below : graph[o].out \in Products(graph, t)
                   /\ \A t \in StepsOf(graph) : graph[o].out \in Products(graph, t) =>
                        t \in below /\ (graph[o].type = "COPY" => t = o)
                   /\ \A t \in StepsOf(graph) :
                        graph[t].out = graph[o].out => graph[t].type # "PATH"
    <2>1. PICK p : p = graph[o].out
      OBVIOUS
    <2>2. PICK maker \in Below(graph)[o] \cup {o} : p \in Outputs(graph, maker)
      BY <1>1, <1>2, <2>1 DEF Sound
    <2>3. maker \in StepsOf(graph)
      BY <1>1, <1>2, <2>2, BelowFacts
    <2>4. \A t \in StepsOf(graph) : p \in Outputs(graph, t) => t = maker
      BY <1>1, <2>2, <2>3 DEF Distinct
    <2>5. \A t \in StepsOf(graph) : graph[t].out = p => graph[t].type # "PATH"
      BY <2>2, <2>3 DEF SidesApart
    <2>6. ASSUME NEW t \in StepsOf(graph), p \in Products(graph, t)
          PROVE  t = maker
      <3>1. \A d \in DepsOf(graph, t) : d \in StepsOf(graph)
        <4>1. Len(graph) \in Nat
          BY <1>1, SeqAppend DEF IsGraph
        <4>2. QED
          BY <1>1, <2>6, <4>1 DEF IsGraph, StepsOf
      <3>2. p \in Outputs(graph, t)
        BY <2>5, <2>6, <3>1 DEF Products
      <3>3. QED
        BY <2>4, <3>2
    <2>7. graph[o].type = "COPY" => o = maker
      BY <1>2, <2>1, <2>4 DEF Outputs
    <2>8. p \in Products(graph, maker)
      BY <2>2 DEF Products
    <2>9. QED
      BY <2>1, <2>2, <2>5, <2>6, <2>7, <2>8
  <1>3. QED
    BY <1>2 DEF OutputsMade

\* If what tools leave beside their outputs is made by no other step, the graphs
\* of the constructors satisfy what the proofs about the files assume.
THEOREM OutputsAreAsAssumed == Spec => [](SidesApart => OutputsMade)
  <1>1. ProgramInv => (SidesApart => OutputsMade)
    BY OutputsAreMade DEF ProgramInv
  <1>2. QED
    BY <1>1, ProgramInvariant, PTL

\* The words of a command fill its array exactly, however many include paths,
\* macros, libraries, flags, objects and arguments there are.
THEOREM CommandsAreFilled == Spec => []SlotsFilled
  <1>1. ProgramInv => SlotsFilled
    BY GraphIsGood DEF ProgramInv
  <1>2. QED
    BY <1>1, ProgramInvariant, PTL

\* What a command reads is made by a step below it.
THEOREM CommandsAreFed == Spec => []InputsAreMade
  <1>1. ProgramInv => InputsAreMade
    BY GraphIsGood DEF ProgramInv
  <1>2. QED
    BY <1>1, ProgramInvariant, PTL

\* A directory is made by a step below each step that puts a file into it.
THEOREM DirsAreMadeFirst == Spec => []DirsFirst
  <1>1. ProgramInv => DirsFirst
    BY GraphIsGood DEF ProgramInv
  <1>2. QED
    BY <1>1, ProgramInvariant, PTL

\* A clean of a step the client holds knows every file the build makes.
THEOREM CleansKnowAll == Spec => []CleanKnows
  <1>1. ProgramInv => CleanKnows
    BY GraphIsGood DEF ProgramInv
  <1>2. QED
    BY <1>1, ProgramInvariant, PTL

\* If the extension of the objects is none of the side files of a tool, then
\* an object is removed after all that make or read it.
THEOREM ObjectsAreRemovedLast == Spec => [](ExtsApart => RemovedLast)
  <1>1. ProgramInv => (ExtsApart => RemovedLast)
    BY GraphIsGood DEF ProgramInv
  <1>2. QED
    BY <1>1, ProgramInvariant, PTL
-----------------------------------------------------------------------------
(* The engine on the graph of a client.  The steps of the engine are those  *)
(* of the graph G, and the client calls it on some of them.                 *)

CONSTANTS
    G,                      \* a graph that the client may come to have
    Calls,                  \* the steps it calls the library on
    Pid, NoPid, Fault,      \* the system the engine runs on
    Windows

VARIABLES state, pid, proc, fs, op, root, frames, ret, todo, failed

\* The files that the commands of a graph read and no step makes.
SourcesOf(g) == UNION {Named(g, s, {"src"}) : s \in StepsOf(g)}
Commands == {s \in StepsOf(G) : G[s].type = "CMD"}

\* The constants of the engine, read off G.
TypeOf == [s \in StepsOf(G) |-> G[s].type]
DepOf == [s \in StepsOf(G) |-> G[s].dep]
OutOf == [s \in StepsOf(G) |-> G[s].out]
ArgOf == [s \in StepsOf(G) |-> IF G[s].type \in {"RM", "COPY"} THEN G[s].arg ELSE NoPath]
ReadsOf == [s \in StepsOf(G) |->
    IF s \in Commands THEN Inputs(G, s) \cup Named(G, s, {"src"}) ELSE {}]
WritesOf == [s \in StepsOf(G) |-> IF s \in Commands THEN Products(G, s) ELSE {}]
PathsOf == (SourcesOf(G) \cup UNION {Products(G, s) \cup {G[s].out} : s \in StepsOf(G)})
            \ {NoPath}
\* The directories of the sources are there whatever the build does.
InOf == [p \in PathsOf |-> IF p \in SourcesOf(G) THEN NoPath ELSE p.in]

Engine == INSTANCE BuildProofs WITH
    Step <- StepsOf(G), NoStep <- 0, Roots <- Calls,
    Type <- TypeOf, Dep <- DepOf, Out <- OutOf, Arg <- ArgOf,
    Reads <- ReadsOf, Writes <- WritesOf,
    Source <- SourcesOf(G), Path <- PathsOf, In <- InOf

\* A path that is valid is not an invalid one.
ValidPaths == \A dir, base, ext : File(dir, base, ext) # NoPath

\* No step makes, or names as its own, what another needs as a source.
SourcesApart == \A p \in SourcesOf(graph) :
    p # NoPath /\ \A s \in StepsOf(graph) : p # graph[s].out /\ p \notin Outputs(graph, s)

\* A client that gives different files different names.
Careful == ExtsApart /\ SidesApart /\ SourcesApart

\* What is known of G if a careful client has it.
Good ==
    /\ IsGraph(G) /\ Distinct(G)
    /\ \A s \in StepsOf(G) : Sound(G, s)
    /\ \E m, e : Lasts(G, m, e)
    /\ \A s, t \in StepsOf(G) : G[s].type = "PATH" => G[s].out \notin Outputs(G, t)
    /\ \A p \in SourcesOf(G) :
        p # NoPath /\ \A s \in StepsOf(G) : p # G[s].out /\ p \notin Outputs(G, s)

LEMMA ClientsAreGood ==
    ASSUME ProgramInv, graph = G, Careful
    PROVE  Good
  <1>1. IsGraph(G) /\ Distinct(G) /\ \A s \in StepsOf(G) : Sound(G, s)
    BY DEF ProgramInv, GraphInv, Made
  <1>2. Lasts(G, mine, Removable)
    BY DEF ProgramInv, GraphInv, Careful
  <1>3. \A s, t \in StepsOf(G) : G[s].type = "PATH" => G[s].out \notin Outputs(G, t)
    BY DEF Careful, SidesApart
  <1>4. \A p \in SourcesOf(G) :
            p # NoPath /\ \A s \in StepsOf(G) : p # G[s].out /\ p \notin Outputs(G, s)
    BY DEF Careful, SourcesApart
  <1>5. QED
    BY <1>1, <1>2, <1>3, <1>4 DEF Good

LEMMA GoodSteps ==
    ASSUME Good
    PROVE  /\ Len(G) \in Nat /\ StepsOf(G) = 1..Len(G) /\ IsGraph(G)
           /\ \A s \in StepsOf(G) :
                /\ DepsOf(G, s) \subseteq 1..(s - 1) /\ DepsOf(G, s) \subseteq StepsOf(G)
                /\ Below(G)[s] \subseteq 1..(s - 1) /\ Below(G)[s] \subseteq StepsOf(G)
                /\ DepsOf(G, s) \subseteq Below(G)[s]
  <1>1. IsGraph(G)
    BY DEF Good
  <1>2. Len(G) \in Nat /\ StepsOf(G) = 1..Len(G)
    BY <1>1, SeqAppend DEF IsGraph, StepsOf
  <1>3. \A s \in StepsOf(G) : DepsOf(G, s) \subseteq 1..(s - 1)
    BY <1>1 DEF IsGraph
  <1>4. \A s \in StepsOf(G) : /\ Below(G)[s] \subseteq 1..(s - 1)
                              /\ Below(G)[s] \subseteq StepsOf(G)
                              /\ DepsOf(G, s) \subseteq Below(G)[s]
    BY <1>1, BelowFacts
  <1>5. QED
    BY <1>1, <1>2, <1>3, <1>4

\* An output has one maker, and is neither a side file nor a source.
LEMMA OneMaker ==
    ASSUME Good, NEW o \in StepsOf(G), NEW p \in Outputs(G, o)
    PROVE  /\ \A t \in StepsOf(G) : p \in Products(G, t) => t = o
           /\ \A t \in StepsOf(G) : G[t].out = p => G[t].type # "PATH"
           /\ p \notin SourcesOf(G)
  <1>1. \A t \in StepsOf(G) : p \in Outputs(G, t) => t = o
    BY DEF Good, Distinct
  <1>2. \A t \in StepsOf(G) : G[t].out = p => G[t].type # "PATH"
    BY DEF Good
  <1>3. ASSUME NEW t \in StepsOf(G), p \in Products(G, t)
        PROVE  t = o
    <2>1. \A d \in DepsOf(G, t) : d \in StepsOf(G)
      BY GoodSteps
    <2>2. p \in Outputs(G, t)
      BY <1>2, <1>3, <2>1 DEF Products
    <2>3. QED
      BY <1>1, <2>2
  <1>4. QED
    BY <1>2, <1>3 DEF Good

\* What a step makes is a file, in a directory made below it.
LEMMA ProductIsFile ==
    ASSUME Good, ValidPaths, NEW s \in StepsOf(G), NEW p \in Products(G, s)
    PROVE  /\ p # NoPath /\ p \in PathsOf /\ p \notin SourcesOf(G)
           /\ p.in # NoPath =>
                \E t \in Below(G)[s] : G[t].type = "MKDIR" /\ G[t].out = p.in
  <1>1. \A t \in StepsOf(G) : Sound(G, t)
    BY DEF Good
  <1>2. \A d \in DepsOf(G, s) : d \in StepsOf(G)
    BY GoodSteps
  <1>3. IsFile(p) /\ p \notin SourcesOf(G)
    <2>1. CASE p \in Outputs(G, s)
      BY <1>1, <2>1 DEF Sound, Placed, Good
    <2>2. CASE p \notin Outputs(G, s)
      <3>1. PICK d \in DepsOf(G, s) : G[d].type = "PATH" /\ G[d].out = p
        BY <2>2 DEF Products
      <3>2. d \in StepsOf(G)
        BY <1>2
      <3>3. QED
        BY <1>1, <3>1, <3>2 DEF Sound, Placed, Good
    <2>3. QED
      BY <2>1, <2>2
  <1>4. p # NoPath
    BY <1>3 DEF IsFile, ValidPaths
  <1>5. p \in PathsOf
    BY <1>4 DEF PathsOf
  <1>6. QED
    BY <1>1, <1>3, <1>4, <1>5 DEF Sound

-----------------------------------------------------------------------------
(* What the engine sees of G *)

LEMMA Seen ==
    ASSUME Good, ValidPaths, NEW s \in StepsOf(G)
    PROVE  /\ TypeOf[s] = G[s].type /\ DepOf[s] = G[s].dep /\ OutOf[s] = G[s].out
           /\ ArgOf[s] = IF G[s].type \in {"RM", "COPY"} THEN G[s].arg ELSE NoPath
           /\ ReadsOf[s] = IF G[s].type = "CMD" THEN Inputs(G, s) \cup Named(G, s, {"src"}) ELSE {}
           /\ WritesOf[s] = IF G[s].type = "CMD" THEN Products(G, s) ELSE {}
           /\ G[s].type \in Kinds
           /\ G[s].out \in PathsOf \cup {NoPath}
           /\ Products(G, s) \subseteq PathsOf
           /\ Engine!Deps(s) = DepsOf(G, s)
           /\ Engine!Products(s) = Products(G, s)
  <1>1. /\ TypeOf[s] = G[s].type /\ DepOf[s] = G[s].dep /\ OutOf[s] = G[s].out
        /\ ArgOf[s] = IF G[s].type \in {"RM", "COPY"} THEN G[s].arg ELSE NoPath
        /\ s \in Commands <=> G[s].type = "CMD"
    BY DEF TypeOf, DepOf, OutOf, ArgOf, Commands
  <1>2. /\ ReadsOf[s] = IF G[s].type = "CMD" THEN Inputs(G, s) \cup Named(G, s, {"src"}) ELSE {}
        /\ WritesOf[s] = IF G[s].type = "CMD" THEN Products(G, s) ELSE {}
    BY <1>1 DEF ReadsOf, WritesOf
  <1>3. G[s].type \in Kinds
    BY DEF Good, Sound, IsStep
  <1>4. Products(G, s) \subseteq PathsOf
    BY ProductIsFile
  <1>5. G[s].out \in PathsOf \cup {NoPath}
    BY DEF PathsOf
  <1>6. Engine!Deps(s) = DepsOf(G, s)
    BY <1>1 DEF Engine!Deps, DepsOf
  <1>7. Engine!Products(s) = Products(G, s)
    <2>1. Engine!Products(s) = {p \in PathsOf :
            \/ G[s].type = "CMD" /\ p \in Products(G, s)
            \/ G[s].type \in {"MKDIR", "TRUNC", "COPY"} /\ p = G[s].out}
      BY <1>1, <1>2 DEF Engine!Products
    <2>2. CASE G[s].type = "CMD"
      BY <1>4, <2>1, <2>2
    <2>3. CASE G[s].type \in {"MKDIR", "TRUNC", "COPY"}
      <3>1. Products(G, s) = {G[s].out}
        BY <2>3 DEF Products, Outputs
      <3>2. QED
        BY <1>4, <2>1, <2>3, <3>1
    <2>4. CASE G[s].type \notin {"CMD", "MKDIR", "TRUNC", "COPY"}
      <3>1. Products(G, s) = {}
        BY <2>4 DEF Products, Outputs
      <3>2. QED
        BY <2>1, <2>4, <3>1
    <2>5. QED
      BY <2>2, <2>3, <2>4
  <1>8. QED
    BY <1>1, <1>2, <1>3, <1>4, <1>5, <1>6, <1>7

\* The engine reaches what is below a step.
LEMMA BelowIsReached ==
    ASSUME Good, ValidPaths, NEW r \in StepsOf(G)
    PROVE  /\ r \in Engine!Reach[r] /\ Below(G)[r] \subseteq Engine!Reach[r]
           /\ Engine!Reach[r] \subseteq StepsOf(G)
  <1>1. Engine!Reach[r] = {s \in StepsOf(G) : \A S \in Engine!Closed : r \in S => s \in S}
    BY DEF Engine!Reach
  <1>2. ASSUME NEW S \in Engine!Closed, r \in S
        PROVE  Below(G)[r] \subseteq S
    <2>1. \A s \in S : s \in StepsOf(G) /\ Engine!Deps(s) \subseteq S
      BY DEF Engine!Closed
    <2>2. \A s \in S : DepsOf(G, s) \subseteq S
      BY <2>1, Seen
    <2>3. QED
      BY <1>2, <2>2, GoodSteps, BelowLeast
  <1>3. Below(G)[r] \subseteq StepsOf(G)
    BY GoodSteps
  <1>4. QED
    BY <1>1, <1>2, <1>3

\* A file that a command makes is made by nothing else.
LEMMA BuiltFile ==
    ASSUME Good, ValidPaths, NEW t \in StepsOf(G), NEW p, Builds(G, t, p)
    PROVE  /\ p \in PathsOf /\ p \in Engine!Products(t)
           /\ \A s \in StepsOf(G) : p \in Engine!Products(s) => s = t
           /\ \A s \in StepsOf(G) : G[s].type = "MKDIR" => G[s].out # p
           /\ \A s \in StepsOf(G) : G[s].out = p => G[s].type # "PATH"
           /\ p \notin SourcesOf(G)
  <1>1. p \in Outputs(G, t) /\ G[t].type = "CMD"
    BY DEF Builds
  <1>2. p \in Products(G, t)
    BY <1>1 DEF Products
  <1>3. \A s \in StepsOf(G) : p \in Products(G, s) => s = t
    BY <1>1, OneMaker
  <1>4. ASSUME NEW s \in StepsOf(G), G[s].type = "MKDIR", G[s].out = p
        PROVE  FALSE
    <2>1. p \in Products(G, s)
      BY <1>4 DEF Products, Outputs
    <2>2. QED
      BY <1>1, <1>3, <1>4, <2>1
  <1>5. /\ \A s \in StepsOf(G) : G[s].out = p => G[s].type # "PATH"
        /\ p \notin SourcesOf(G)
    BY <1>1, OneMaker
  <1>6. p \in PathsOf /\ p \in Engine!Products(t)
    BY <1>2, Seen
  <1>7. \A s \in StepsOf(G) : p \in Engine!Products(s) => s = t
    BY <1>3, Seen
  <1>8. QED
    BY <1>4, <1>5, <1>6, <1>7

\* A directory that a step makes is made by nothing else.
LEMMA MadeDir ==
    ASSUME Good, ValidPaths, NEW t \in StepsOf(G), G[t].type = "MKDIR"
    PROVE  /\ G[t].out \in PathsOf /\ G[t].out \in Engine!Products(t)
           /\ \A s \in StepsOf(G) : G[t].out \in Engine!Products(s) => s = t
           /\ \A s \in StepsOf(G) : G[s].out = G[t].out => s = t
           /\ G[t].out \notin SourcesOf(G)
  <1>1. PICK p : p = G[t].out
    OBVIOUS
  <1>2. p \in Outputs(G, t) /\ p \in Products(G, t)
    BY <1>1 DEF Outputs, Products
  <1>3. \A s \in StepsOf(G) : p \in Products(G, s) => s = t
    BY <1>2, OneMaker
  <1>4. p \in PathsOf /\ p \notin SourcesOf(G) /\ p # NoPath
    BY <1>2, ProductIsFile
  <1>5. ASSUME NEW s \in StepsOf(G), G[s].out = p
        PROVE  s = t
    <2>1. G[s].type # "PATH"
      BY <1>2, <1>5, OneMaker
    <2>2. PICK u \in Below(G)[s] \cup {s} :
            /\ p \in Outputs(G, u)
            /\ G[s].type \notin Makes => G[u].type = "CMD"
      BY <1>4, <1>5, <2>1 DEF Good, Sound
    <2>3. u \in StepsOf(G)
      BY GoodSteps
    <2>4. u = t
      BY <1>3, <2>2, <2>3 DEF Products
    <2>5. G[s].type \in Makes
      BY <2>2, <2>4
    <2>6. p \in Products(G, s)
      BY <1>5, <2>5 DEF Makes, Outputs, Products
    <2>7. QED
      BY <1>3, <2>6
  <1>6. QED
    BY <1>1, <1>2, <1>3, <1>4, <1>5, Seen

\* What a command or a copy reads and a removal removes: a source, or a file
\* that a command makes below it.
LEMMA NeededFile ==
    ASSUME Good, ValidPaths, NEW s \in StepsOf(G), NEW p \in Engine!NeedsFile(s)
    PROVE  \/ p \in SourcesOf(G)
           \/ \E t \in Below(G)[s] : Builds(G, t, p)
  <1>1. p \in PathsOf
    BY DEF Engine!NeedsFile
  <1>2. \/ G[s].type = "CMD" /\ p \in Inputs(G, s) \cup Named(G, s, {"src"})
        \/ G[s].type = "RM" /\ p = G[s].arg
        \/ G[s].type = "COPY" /\ p = G[s].arg
    BY Seen DEF Engine!NeedsFile
  <1>3. \A q \in Inputs(G, s) : \E t \in Below(G)[s] : Builds(G, t, q)
    BY DEF Good, Sound
  <1>4. CASE G[s].type = "CMD"
    BY <1>2, <1>3, <1>4 DEF SourcesOf
  <1>5. CASE G[s].type = "COPY"
    BY <1>2, <1>3, <1>5 DEF Inputs
  <1>6. CASE G[s].type = "RM"
    <2>1. p = G[s].arg
      BY <1>2, <1>6
    <2>2. PICK m, e : Lasts(G, m, e)
      BY DEF Good
    <2>3. PICK t \in StepsOf(G) : Builds(G, t, p)
      BY <1>6, <2>1, <2>2 DEF Lasts, Removed
    <2>4. p \in Products(G, t)
      BY <2>3 DEF Builds, Products
    <2>5. t \in Below(G)[s]
      BY <1>6, <2>1, <2>2, <2>4 DEF Lasts
    <2>6. QED
      BY <2>3, <2>5
  <1>7. QED
    BY <1>2, <1>4, <1>5, <1>6

\* What removes a file that a step needs comes after the step.
LEMMA RemovedAfter ==
    ASSUME Good, ValidPaths, NEW m \in StepsOf(G), G[m].type = "RM"
    PROVE  /\ \E t \in StepsOf(G) : Builds(G, t, G[m].arg)
           /\ \A s \in StepsOf(G) :
                G[m].arg \in Engine!NeedsFile(s) => s \in Below(G)[m] \cup {m}
  <1>1. PICK n, e : Lasts(G, n, e)
    BY DEF Good
  <1>2. \E t \in StepsOf(G) : Builds(G, t, G[m].arg)
    BY <1>1 DEF Lasts, Removed
  <1>3. ASSUME NEW s \in StepsOf(G), G[m].arg \in Engine!NeedsFile(s)
        PROVE  s \in Below(G)[m] \cup {m}
    <2>1. G[m].arg \notin SourcesOf(G)
      BY <1>2, BuiltFile
    <2>2. \/ G[s].type = "CMD" /\ G[m].arg \in Inputs(G, s) \cup Named(G, s, {"src"})
          \/ G[s].type = "RM" /\ G[m].arg = G[s].arg
          \/ G[s].type = "COPY" /\ G[m].arg = G[s].arg
      BY <1>3, Seen DEF Engine!NeedsFile
    <2>3. CASE G[s].type = "RM"
      BY <1>1, <2>2, <2>3 DEF Lasts
    <2>4. CASE G[s].type # "RM"
      <3>1. G[m].arg \in Inputs(G, s)
        BY <2>1, <2>2, <2>4 DEF SourcesOf, Inputs
      <3>2. QED
        BY <1>1, <3>1 DEF Lasts
    <2>5. QED
      BY <2>3, <2>4
  <1>4. QED
    BY <1>2, <1>3

\* A directory that a step puts something into is made below it.
LEMMA NeededDir ==
    ASSUME Good, ValidPaths, NEW s \in StepsOf(G), NEW p \in Engine!NeedsDir(s)
    PROVE  \E t \in Below(G)[s] : G[t].type = "MKDIR" /\ G[t].out = p
  <1>1. p \in PathsOf /\ p # NoPath
    BY DEF Engine!NeedsDir, PathsOf
  <1>2. G[s].type # "RMDIR"
    BY Seen DEF Kinds, Makes
  <1>3. PICK q \in Products(G, s) : InOf[q] = p
    BY <1>2, Seen DEF Engine!NeedsDir
  <1>4. q.in = p
    BY <1>1, <1>3, ProductIsFile DEF InOf
  <1>5. QED
    BY <1>1, <1>3, <1>4, ProductIsFile
-----------------------------------------------------------------------------
(* What the engine assumes of its graphs *)

\* Whatever a step names as its own is in a directory made before it.
LEMMA OutIsPlaced ==
    ASSUME Good, ValidPaths, NEW s \in StepsOf(G),
           NEW p \in Products(G, s) \cup {G[s].out}, p # NoPath, p.in # NoPath
    PROVE  \E t \in Below(G)[s] : G[t].type = "MKDIR" /\ G[t].out = p.in
  <1>1. CASE p \in Products(G, s)
    BY <1>1, ProductIsFile
  <1>2. CASE p = G[s].out /\ G[s].type = "PATH"
    BY <1>2 DEF Good, Sound, Placed
  <1>3. CASE p = G[s].out /\ G[s].type # "PATH"
    <2>1. PICK u \in Below(G)[s] \cup {s} : p \in Outputs(G, u)
      BY <1>3 DEF Good, Sound
    <2>2. u \in StepsOf(G) /\ p \in Products(G, u)
      BY <2>1, GoodSteps DEF Products
    <2>3. PICK t \in Below(G)[u] : G[t].type = "MKDIR" /\ G[t].out = p.in
      BY <2>2, ProductIsFile
    <2>4. Below(G)[u] \subseteq Below(G)[s]
      BY <2>1, GoodSteps, BelowFacts
    <2>5. QED
      BY <2>3, <2>4
  <1>4. QED
    BY <1>1, <1>2, <1>3

LEMMA GraphAsAssumed ==
    ASSUME Good, ValidPaths, Calls \subseteq StepsOf(G)
    PROVE  Engine!GraphAssumption
  <1>1. 0 \notin StepsOf(G)
    BY GoodSteps
  <1>2. TypeOf \in [StepsOf(G) -> Engine!StepType]
    <2>1. \A s \in StepsOf(G) : G[s].type \in Engine!StepType
      BY Seen DEF Kinds, Makes, Engine!StepType
    <2>2. QED
      BY <2>1 DEF TypeOf
  <1>3. ASSUME NEW s \in StepsOf(G)
        PROVE  G[s].dep \in Seq(StepsOf(G))
    <2>1. PICK d : d = G[s].dep
      OBVIOUS
    <2>2. PICK S : d \in Seq(S)
      BY <2>1 DEF Good, Sound, IsStep, IsSeq
    <2>3. \A k \in 1..Len(d) : d[k] \in StepsOf(G)
      BY <2>1, GoodSteps DEF DepsOf
    <2>4. d \in [1..Len(d) -> StepsOf(G)] /\ Len(d) \in Nat
      BY <2>2, <2>3
    <2>5. d \in Seq(StepsOf(G))
      BY <2>4
    <2>6. QED
      BY <2>1, <2>5
  <1>4. DepOf \in [StepsOf(G) -> Seq(StepsOf(G))]
    BY <1>3 DEF DepOf
  <1>5. QED
    BY <1>1, <1>2, <1>4 DEF Engine!GraphAssumption

LEMMA AcyclicAsAssumed ==
    ASSUME Good, ValidPaths
    PROVE  Engine!AcyclicAssumption
  <1> SUFFICES ASSUME NEW S \in SUBSET StepsOf(G), S # {}
               PROVE  \E s \in S : Engine!Deps(s) \cap S = {}
    BY DEF Engine!AcyclicAssumption
  <1>1. StepsOf(G) = 1..Len(G) /\ Len(G) \in Nat
    BY GoodSteps
  <1>2. S \in SUBSET Nat
    BY <1>1
  <1>3. PICK s \in S : \A t \in S : s <= t
    BY <1>2, Least
  <1>4. \A t \in DepsOf(G, s) : t \in 1..(s - 1)
    BY GoodSteps
  <1>5. \A t \in DepsOf(G, s) : t \notin S
    BY <1>2, <1>3, <1>4
  <1>6. QED
    BY <1>5, Seen

LEMMA PathsAsAssumed ==
    ASSUME Good, ValidPaths
    PROVE  Engine!PathAssumption
  <1>1. NoPath \notin PathsOf
    BY DEF PathsOf
  <1>2. \A p \in SourcesOf(G) : p \in PathsOf
    BY DEF PathsOf, Good
  <1>3. ASSUME NEW p \in PathsOf
        PROVE  InOf[p] \in PathsOf \cup {NoPath}
    <2>1. CASE p \in SourcesOf(G)
      BY <2>1 DEF InOf
    <2>2. CASE p \notin SourcesOf(G)
      <3>1. InOf[p] = p.in
        BY <2>2 DEF InOf
      <3>2. PICK s \in StepsOf(G) : p \in Products(G, s) \cup {G[s].out}
        BY <2>2 DEF PathsOf
      <3>3. p.in = NoPath \/ \E t \in StepsOf(G) : G[t].type = "MKDIR" /\ G[t].out = p.in
        <4>1. Below(G)[s] \subseteq StepsOf(G)
          BY GoodSteps
        <4>2. p # NoPath
          BY <1>1
        <4>3. QED
          BY <3>2, <4>1, <4>2, OutIsPlaced
      <3>4. QED
        BY <3>1, <3>3, MadeDir
    <2>3. QED
      BY <2>1, <2>2
  <1>4. InOf \in [PathsOf -> PathsOf \cup {NoPath}]
    BY <1>3 DEF InOf
  <1>5. OutOf \in [StepsOf(G) -> PathsOf \cup {NoPath}]
    <2>1. \A s \in StepsOf(G) : G[s].out \in PathsOf \cup {NoPath}
      BY Seen
    <2>2. QED
      BY <2>1 DEF OutOf
  <1>6. ASSUME NEW s \in StepsOf(G), G[s].type \in {"RM", "COPY"}
        PROVE  G[s].arg \in PathsOf
    <2>1. CASE G[s].type = "RM"
      BY <2>1, RemovedAfter, BuiltFile
    <2>2. CASE G[s].type = "COPY"
      <3>1. G[s].arg \in Inputs(G, s)
        BY <2>2 DEF Inputs
      <3>2. PICK t \in Below(G)[s] : Builds(G, t, G[s].arg)
        BY <3>1 DEF Good, Sound
      <3>3. QED
        BY <3>2, GoodSteps, BuiltFile
    <2>3. QED
      BY <1>6, <2>1, <2>2
  <1>7. ArgOf \in [StepsOf(G) -> PathsOf \cup {NoPath}]
    BY <1>6 DEF ArgOf
  <1>8. \A s \in StepsOf(G) : TypeOf[s] \in {"RM", "RMDIR", "COPY"} => ArgOf[s] \in PathsOf
    BY <1>6, Seen DEF Kinds, Makes
  <1>9. ASSUME NEW s \in StepsOf(G)
        PROVE  Inputs(G, s) \cup Named(G, s, {"src"}) \subseteq PathsOf
    <2>1. \A p \in Inputs(G, s) : \E t \in Below(G)[s] : Builds(G, t, p)
      BY DEF Good, Sound
    <2>2. \A p \in Inputs(G, s) : p \in PathsOf
      BY <2>1, GoodSteps, BuiltFile
    <2>3. Named(G, s, {"src"}) \subseteq SourcesOf(G)
      BY DEF SourcesOf
    <2>4. QED
      BY <1>2, <2>2, <2>3
  <1>10. ReadsOf \in [StepsOf(G) -> SUBSET PathsOf]
    BY <1>9 DEF ReadsOf
  <1>11. WritesOf \in [StepsOf(G) -> SUBSET PathsOf]
    BY Seen DEF WritesOf
  <1>12. SourcesOf(G) \subseteq {p \in PathsOf : InOf[p] = NoPath}
    BY <1>2 DEF InOf
  <1>13. QED
    BY <1>1, <1>4, <1>5, <1>7, <1>8, <1>10, <1>11, <1>12 DEF Engine!PathAssumption

LEMMA OutputsAsAssumed ==
    ASSUME Good, ValidPaths
    PROVE  Engine!OutputAssumption
  <1>1. ASSUME NEW o \in StepsOf(G), G[o].type # "PATH", G[o].out # NoPath
        PROVE  /\ \E t \in Engine!Reach[o] : OutOf[o] \in Engine!Products(t)
               /\ \A t \in StepsOf(G) : OutOf[o] \in Engine!Products(t) =>
                    t \in Engine!Reach[o] /\ (TypeOf[o] = "COPY" => t = o)
               /\ \A t \in StepsOf(G) : OutOf[t] = OutOf[o] => TypeOf[t] # "PATH"
    <2>1. PICK maker \in Below(G)[o] \cup {o} : G[o].out \in Outputs(G, maker)
      BY <1>1 DEF Good, Sound
    <2>2. maker \in StepsOf(G) /\ maker \in Engine!Reach[o]
      BY <2>1, GoodSteps, BelowIsReached
    <2>3. G[o].out \in Products(G, maker)
      BY <2>1 DEF Products
    <2>4. \A t \in StepsOf(G) : G[o].out \in Products(G, t) => t = maker
      BY <2>1, <2>2, OneMaker
    <2>5. G[o].type = "COPY" => o = maker
      <3>1. G[o].type = "COPY" => G[o].out \in Products(G, o)
        BY DEF Products, Outputs
      <3>2. QED
        BY <2>4, <3>1
    <2>6. \A t \in StepsOf(G) : G[t].out = G[o].out => G[t].type # "PATH"
      BY <2>1, <2>2, OneMaker
    <2>7. \A t \in StepsOf(G) : Engine!Products(t) = Products(G, t)
      BY Seen
    <2>8. \A t \in StepsOf(G) : TypeOf[t] = G[t].type /\ OutOf[t] = G[t].out
      BY Seen
    <2>9. QED
      BY <2>2, <2>3, <2>4, <2>5, <2>6, <2>7, <2>8
  <1>2. \A o \in StepsOf(G) : TypeOf[o] = G[o].type /\ OutOf[o] = G[o].out
    BY Seen
  <1>3. QED
    BY <1>1, <1>2 DEF Engine!OutputAssumption
-----------------------------------------------------------------------------
(* What a build without faults needs *)

\* As many process ids as there are commands are enough.
EnoughIds == IsFiniteSet(Pid) /\ Cardinality(Commands) <= Cardinality(Pid)

LEMMA PidsSuffice ==
    ASSUME Good, ValidPaths, EnoughIds
    PROVE  Engine!EnoughPids
  <1>1. {s \in StepsOf(G) : TypeOf[s] = "CMD"} = Commands
    BY Seen DEF Commands
  <1>2. IsFiniteSet(Commands) /\ Commands \subseteq StepsOf(G)
    <2>1. IsFiniteSet(1..Len(G))
      BY GoodSteps, FS_Interval
    <2>2. Commands \subseteq 1..Len(G)
      BY GoodSteps DEF Commands
    <2>3. QED
      BY <2>1, <2>2, FS_Subset DEF Commands
  <1>3. ASSUME NEW f \in [Pid -> Commands], NEW s \in Commands,
               \A p \in Pid : f[p] # s,
               \A p, q \in Pid : p # q => f[p] # f[q]
        PROVE  FALSE
    <2>1. f \in Injection(Pid, Commands \ {s})
      BY <1>3 DEF Injection, IsInjective
    <2>2. IsFiniteSet(Commands \ {s}) /\ Cardinality(Commands \ {s}) = Cardinality(Commands) - 1
      BY <1>2, FS_RemoveElement
    <2>3. Cardinality(Pid) <= Cardinality(Commands \ {s})
      BY <2>1, <2>2, FS_Injection DEF ExistsInjection
    <2>4. Cardinality(Pid) \in Nat /\ Cardinality(Commands) \in Nat
      BY <1>2, FS_CardinalityType DEF EnoughIds
    <2>5. QED
      BY <2>2, <2>3, <2>4 DEF EnoughIds
  <1>4. \A s \in Commands : s \in Engine!Reach[s]
    BY <1>2, BelowIsReached
  <1>5. ASSUME NEW f \in [Pid -> Commands], NEW s \in Commands
        PROVE  \/ \E p \in Pid : f[p] \in Engine!Reach[s] \/ s \in Engine!Reach[f[p]]
               \/ \E p, q \in Pid : p # q /\ f[p] \in Engine!Reach[f[q]]
    <2>1. CASE \E p \in Pid : f[p] = s
      BY <1>4, <2>1
    <2>2. CASE \E p, q \in Pid : p # q /\ f[p] = f[q]
      BY <1>4, <2>2
    <2>3. QED
      BY <1>3, <2>1, <2>2
  <1>6. QED
    BY <1>1, <1>5 DEF Engine!EnoughPids

\* Every step finds what it needs.
LEMMA StepsAreSupplied ==
    ASSUME Good, ValidPaths, NEW s \in StepsOf(G)
    PROVE  Engine!Supplied(s)
  <1>1. \A t \in Below(G)[s] : t \in StepsOf(G) /\ t # s /\ t \in Engine!Reach[s]
    BY GoodSteps, BelowIsReached
  <1>2. \A p : Engine!Makers(p) = {t \in StepsOf(G) : p \in Engine!Products(t)}
    BY DEF Engine!Makers
  <1>3. \A p : Engine!IsDir(p) <=> \E t \in StepsOf(G) : G[t].type = "MKDIR" /\ G[t].out = p
    BY Seen DEF Engine!IsDir
  <1>4. \A o \in StepsOf(G) : TypeOf[o] = G[o].type /\ OutOf[o] = G[o].out /\ G[o].type # "RMDIR"
    BY Seen DEF Kinds, Makes
  <1>5. \A m \in StepsOf(G) : G[m].type = "RM" => ArgOf[m] = G[m].arg
    BY Seen
  <1>6. ASSUME NEW p \in Engine!NeedsFile(s), p \in SourcesOf(G)
        PROVE  /\ Engine!Makers(p) = {} /\ ~ Engine!IsDir(p)
               /\ p \notin Engine!NeedsDir(s)
               /\ \A o \in StepsOf(G) : OutOf[o] # p
               /\ \A m \in StepsOf(G) : G[m].type = "RM" => G[m].arg # p
    <2>1. \A o \in StepsOf(G) : G[o].out # p
      BY <1>6 DEF Good
    <2>2. \A t \in StepsOf(G) : p \notin Engine!Products(t)
      <3> TAKE t \in StepsOf(G)
      <3>1. p \notin Products(G, t)
        BY <1>6, ProductIsFile
      <3>2. Engine!Products(t) = Products(G, t)
        BY Seen
      <3>3. QED
        BY <3>1, <3>2
    <2>3. p \notin Engine!NeedsDir(s)
      BY <1>1, <2>1, NeededDir
    <2>4. \A m \in StepsOf(G) : G[m].type = "RM" => G[m].arg # p
      BY <1>6, RemovedAfter, BuiltFile
    <2>5. QED
      BY <1>2, <1>3, <1>4, <2>1, <2>2, <2>3, <2>4
  <1>7. ASSUME NEW p \in Engine!NeedsFile(s), NEW t \in Below(G)[s], Builds(G, t, p)
        PROVE  /\ Engine!Makers(p) = {t} /\ ~ Engine!IsDir(p)
               /\ p \notin Engine!NeedsDir(s)
               /\ \A o \in StepsOf(G) : OutOf[o] = p => TypeOf[o] # "PATH"
               /\ p \notin SourcesOf(G)
               /\ \A m \in StepsOf(G) :
                    G[m].type = "RM" /\ G[m].arg = p => s \in Engine!Reach[m]
    <2>1. /\ p \in Engine!Products(t)
          /\ \A o \in StepsOf(G) : p \in Engine!Products(o) => o = t
          /\ \A o \in StepsOf(G) : G[o].type = "MKDIR" => G[o].out # p
          /\ \A o \in StepsOf(G) : G[o].out = p => G[o].type # "PATH"
          /\ p \notin SourcesOf(G)
      BY <1>1, <1>7, BuiltFile
    <2>2. p \notin Engine!NeedsDir(s)
      BY <1>1, <2>1, NeededDir
    <2>3. \A m \in StepsOf(G) :
            G[m].type = "RM" /\ G[m].arg = p => s \in Engine!Reach[m]
      BY RemovedAfter, BelowIsReached
    <2>4. QED
      BY <1>1, <1>2, <1>3, <1>4, <2>1, <2>2, <2>3
  <1>8. ASSUME NEW p \in Engine!NeedsDir(s)
        PROVE  \E t \in Below(G)[s] :
               /\ Engine!Makers(p) = {t} /\ Engine!IsDir(p)
               /\ p \notin Engine!NeedsFile(s)
               /\ \A o \in StepsOf(G) : OutOf[o] = p => TypeOf[o] # "PATH"
               /\ p \notin SourcesOf(G)
               /\ \A m \in StepsOf(G) : G[m].type = "RM" => G[m].arg # p
    <2>1. PICK t \in Below(G)[s] : G[t].type = "MKDIR" /\ G[t].out = p
      BY NeededDir
    <2>2. /\ p \in Engine!Products(t) /\ t \in StepsOf(G)
          /\ \A o \in StepsOf(G) : p \in Engine!Products(o) => o = t
          /\ \A o \in StepsOf(G) : G[o].out = p => o = t
          /\ p \notin SourcesOf(G)
      BY <1>1, <2>1, MadeDir
    <2>3. p \notin Engine!NeedsFile(s)
      BY <1>1, <2>1, <2>2, NeededFile, BuiltFile
    <2>4. \A m \in StepsOf(G) : G[m].type = "RM" => G[m].arg # p
      BY <2>1, <2>2, RemovedAfter, BuiltFile
    <2>5. QED
      BY <1>2, <1>3, <1>4, <2>1, <2>2, <2>3, <2>4
  <1>9. ASSUME NEW p \in Engine!NeedsFile(s)
        PROVE  p \in SourcesOf(G) \/ \E t \in Below(G)[s] : Builds(G, t, p)
    BY NeededFile
  <1>10. Engine!Needs(s) = Engine!NeedsFile(s) \cup Engine!NeedsDir(s)
    BY DEF Engine!Needs
  <1>11. QED
    BY <1>1, <1>4, <1>5, <1>6, <1>7, <1>8, <1>9, <1>10 DEF Engine!Supplied

LEMMA KindsAreKept ==
    ASSUME Good, ValidPaths
    PROVE  Engine!KindsAgree
  <1>1. \A s \in StepsOf(G) : TypeOf[s] = G[s].type /\ OutOf[s] = G[s].out /\ G[s].type # "RMDIR"
    BY Seen DEF Kinds, Makes
  <1>2. ASSUME NEW p \in PathsOf, Engine!IsDir(p)
        PROVE  p \notin SourcesOf(G) /\ \A t \in Engine!Makers(p) : TypeOf[t] = "MKDIR"
    <2>1. PICK d \in StepsOf(G) : G[d].type = "MKDIR" /\ G[d].out = p
      BY <1>1, <1>2 DEF Engine!IsDir
    <2>2. p \notin SourcesOf(G) /\ \A t \in StepsOf(G) : p \in Engine!Products(t) => t = d
      BY <2>1, MadeDir
    <2>3. QED
      BY <1>1, <2>1, <2>2 DEF Engine!Makers
  <1>3. QED
    BY <1>1, <1>2 DEF Engine!KindsAgree

\* Of directories that are all in each other the one made last is in none.
LEMMA NoDirInItself ==
    ASSUME Good, ValidPaths, NEW S \in SUBSET PathsOf, S # {}
    PROVE  \E p \in S : \A q \in S : InOf[q] # p
  <1> SUFFICES ASSUME \A p \in S : \E q \in S : InOf[q] = p
               PROVE  FALSE
    OBVIOUS
  <1>1. StepsOf(G) = 1..Len(G) /\ Len(G) \in Nat /\ NoPath \notin PathsOf
    BY GoodSteps DEF PathsOf
  \* Every one of them is the directory of another, and made by a step.
  <1>2. ASSUME NEW q \in S, InOf[q] # NoPath
        PROVE  /\ InOf[q] = q.in
               /\ \E t \in StepsOf(G) : G[t].type = "MKDIR" /\ G[t].out = q.in
    <2>1. q \in PathsOf
      OBVIOUS
    <2>2. InOf[q] = q.in /\ q \notin SourcesOf(G)
      BY <1>2, <2>1 DEF InOf
    <2>3. PICK s \in StepsOf(G) : q \in Products(G, s) \cup {G[s].out}
      BY <2>1, <2>2 DEF PathsOf
    <2>4. q # NoPath /\ q.in # NoPath
      BY <1>1, <1>2, <2>1, <2>2
    <2>5. \E t \in Below(G)[s] : G[t].type = "MKDIR" /\ G[t].out = q.in
      BY <2>3, <2>4, OutIsPlaced
    <2>6. Below(G)[s] \subseteq StepsOf(G)
      BY GoodSteps
    <2>7. QED
      BY <2>2, <2>5, <2>6
  <1>3. \A p \in S : \E t \in StepsOf(G) : G[t].type = "MKDIR" /\ G[t].out = p
    <2> TAKE p \in S
    <2>1. PICK q \in S : InOf[q] = p
      OBVIOUS
    <2>2. p # NoPath
      BY <1>1
    <2>3. QED
      BY <1>2, <2>1, <2>2
  <1> DEFINE Backwards == {n \in 0..Len(G) :
                \E t \in StepsOf(G) : G[t].type = "MKDIR" /\ G[t].out \in S /\ n = Len(G) - t}
  <1>4. Backwards \in SUBSET Nat /\ Backwards # {}
    <2>1. PICK t \in StepsOf(G) : G[t].type = "MKDIR" /\ G[t].out \in S
      BY <1>3
    <2>2. Len(G) - t \in 0..Len(G)
      BY <1>1
    <2>3. QED
      BY <1>1, <2>1, <2>2
  <1>5. PICK n \in Backwards : \A m \in Backwards : n <= m
    <2> HIDE DEF Backwards
    <2>1. QED
      BY <1>4, Least
  <1>6. PICK u \in StepsOf(G) : G[u].type = "MKDIR" /\ G[u].out \in S /\ n = Len(G) - u
    OBVIOUS
  <1>7. PICK q \in S : InOf[q] = G[u].out
    BY <1>6
  <1>8. PICK v \in StepsOf(G) : G[v].type = "MKDIR" /\ G[v].out = q
    BY <1>3
  <1>9. u < v
    <2>1. q.in = G[u].out /\ q.in # NoPath /\ q # NoPath
      BY <1>1, <1>2, <1>6, <1>7
    <2>2. PICK t \in Below(G)[v] : G[t].type = "MKDIR" /\ G[t].out = q.in
      BY <1>8, <2>1, OutIsPlaced
    <2>3. t \in StepsOf(G) /\ t \in 1..(v - 1)
      BY GoodSteps
    <2>4. t = u
      BY <1>6, <2>1, <2>2, <2>3, MadeDir
    <2>5. QED
      BY <1>1, <2>3, <2>4
  <1>10. Len(G) - v \in Backwards
    BY <1>1, <1>8
  <1>11. QED
    BY <1>1, <1>5, <1>6, <1>9, <1>10

LEMMA DirsAreBelow ==
    ASSUME Good, ValidPaths
    PROVE  Engine!DirsBelow
  <1>1. \A s \in StepsOf(G) : OutOf[s] = G[s].out /\ G[s].out \in PathsOf \cup {NoPath}
    BY Seen
  <1>2. ASSUME NEW s \in StepsOf(G), NEW d \in StepsOf(G),
               G[s].out # NoPath, InOf[G[s].out] # NoPath, G[d].out = InOf[G[s].out]
        PROVE  d \in Engine!Reach[s]
    <2>1. PICK p : p = G[s].out
      OBVIOUS
    <2>2. p \in PathsOf /\ InOf[p] = p.in
      BY <1>1, <1>2, <2>1 DEF InOf
    <2>3. PICK t \in Below(G)[s] : G[t].type = "MKDIR" /\ G[t].out = p.in
      BY <1>2, <2>1, <2>2, OutIsPlaced
    <2>4. t \in StepsOf(G) /\ t \in Engine!Reach[s]
      BY GoodSteps, BelowIsReached
    <2>5. d = t
      BY <1>2, <2>1, <2>2, <2>3, <2>4, MadeDir
    <2>6. QED
      BY <2>4, <2>5
  <1>3. \A S \in SUBSET PathsOf : S # {} => \E p \in S : \A q \in S : InOf[q] # p
    BY NoDirInItself
  <1>4. QED
    BY <1>1, <1>2, <1>3 DEF Engine!DirsBelow

\* The client calls the engine on steps that leave no command running.
CallsAreJoined == Calls \subseteq {s \in StepsOf(G) : G[s].type # "CMD"}

LEMMA GraphIsWellMade ==
    ASSUME Good, ValidPaths, CallsAreJoined, EnoughIds
    PROVE  Engine!WellMade
  <1>1. \A r \in Calls : TypeOf[r] # "CMD"
    BY Seen DEF CallsAreJoined
  <1>2. ASSUME NEW s \in StepsOf(G), G[s].type \in {"MKDIR", "TRUNC", "COPY"}
        PROVE  G[s].out # NoPath
    <2>1. G[s].out \in Products(G, s)
      BY <1>2 DEF Products, Outputs
    <2>2. QED
      BY <2>1, ProductIsFile
  <1>3. \A s \in StepsOf(G) : TypeOf[s] \in {"MKDIR", "TRUNC", "COPY"} => OutOf[s] # NoPath
    BY <1>2, Seen
  <1>4. QED
    BY <1>1, <1>3, StepsAreSupplied, KindsAreKept, PidsSuffice, DirsAreBelow DEF Engine!WellMade
-----------------------------------------------------------------------------
(* The builds of clients: whatever careful client comes to have G, at any time *)
(* and by whatever calls, and whatever it calls the engine on.                 *)

\* What the engine assumes of its graph, its paths and its processes.
Assumed ==
    /\ Engine!GraphAssumption /\ Engine!AcyclicAssumption
    /\ Engine!PathAssumption /\ Engine!OutputAssumption

LEMMA GoodIsAssumed ==
    ASSUME Good, ValidPaths, Calls \subseteq StepsOf(G)
    PROVE  Assumed
  BY GraphAsAssumed, AcyclicAsAssumed, PathsAsAssumed, OutputsAsAssumed DEF Assumed

\* The engine is only ever given what it assumes: the graph of a careful client
\* meets every assumption that the proofs about the engine rest on.
THEOREM ClientGraphsAreAssumed ==
    ASSUME ValidPaths, Calls \subseteq StepsOf(G)
    PROVE  Spec => [](graph = G /\ Careful => Assumed)
  <1>1. ProgramInv => (graph = G /\ Careful => Assumed)
    BY ClientsAreGood, GoodIsAssumed
  <1>2. QED
    BY <1>1, ProgramInvariant, PTL

\* The graph of a careful client is well made: every step finds what it needs
\* below it, nothing is removed before its last use, and no directory is in
\* itself.  The constructors see to it, and not the client.
THEOREM ClientGraphsAreWellMade ==
    ASSUME ValidPaths, CallsAreJoined, EnoughIds
    PROVE  Spec => [](graph = G /\ Careful => Engine!WellMade)
  <1>1. ProgramInv => (graph = G /\ Careful => Engine!WellMade)
    BY ClientsAreGood, GraphIsWellMade
  <1>2. QED
    BY <1>1, ProgramInvariant, PTL

\* What is known of a graph does not depend on when a client has it.
LEMMA OnceIsEver == Spec /\ <>(graph = G /\ Careful) => Good
  <1>1. ProgramInv /\ graph = G /\ Careful => Good
    BY ClientsAreGood
  <1>2. ~ Good => (~ Good)'
    OBVIOUS
  <1>3. QED
    BY <1>1, <1>2, ProgramInvariant, PTL

\* With all faults and crashes, the builds of a client execute a step only
\* after everything it depends on, and once.
THEOREM ClientBuildsKeepOrder ==
    ASSUME ValidPaths, Calls \subseteq StepsOf(G), NoPid \notin Pid
    PROVE  Spec /\ <>(graph = G /\ Careful) /\ Engine!Spec => Engine!ImplementsDagBuild
  <1>1. Good => (Engine!Spec => Engine!ImplementsDagBuild)
    <2> SUFFICES ASSUME Good
                 PROVE  Engine!Spec => Engine!ImplementsDagBuild
      OBVIOUS
    <2>1. Assumed /\ Engine!PidAssumption
      BY GoodIsAssumed DEF Engine!PidAssumption
    <2>2. QED
      BY <2>1, Engine!Refinement DEF Assumed
  <1>2. QED
    BY <1>1, OnceIsEver, PTL

\* With all faults and crashes, a build of a client that returns 0 leaves the
\* output of every step below its root on disk.
THEOREM ClientBuildsLeaveOutputs ==
    ASSUME ValidPaths, Calls \subseteq StepsOf(G), NoPid \notin Pid
    PROVE  Spec /\ <>(graph = G /\ Careful) /\ Engine!Spec => []Engine!SuccessMeansBuilt
  <1>1. Good => (Engine!Spec => []Engine!SuccessMeansBuilt)
    <2> SUFFICES ASSUME Good
                 PROVE  Engine!Spec => []Engine!SuccessMeansBuilt
      OBVIOUS
    <2>1. Assumed /\ Engine!PidAssumption
      BY GoodIsAssumed DEF Engine!PidAssumption
    <2>2. QED
      BY <2>1, Engine!SuccessIsBuilt DEF Assumed
  <1>2. QED
    BY <1>1, OnceIsEver, PTL

\* Where nothing fails, no build of a client reports an error, and no clean
\* leaves an output of the client behind, whatever steps the constructors made.
THEOREM ClientBuildsSucceed ==
    ASSUME ValidPaths, CallsAreJoined, NoPid \notin Pid, EnoughIds, Fault = {}
    PROVE  Spec /\ <>(graph = G /\ Careful) /\ Engine!Spec =>
                []Engine!NoSpuriousError /\ []Engine!CleanRemovesAll
  <1>1. Good => (Engine!Spec => []Engine!NoSpuriousError /\ []Engine!CleanRemovesAll)
    <2> SUFFICES ASSUME Good
                 PROVE  Engine!Spec => []Engine!NoSpuriousError /\ []Engine!CleanRemovesAll
      OBVIOUS
    <2>1. Assumed /\ Engine!PidAssumption
      BY GoodIsAssumed DEF Engine!PidAssumption, CallsAreJoined
    <2>2. Engine!WellMade
      BY GraphIsWellMade
    <2>3. Engine!Spec => []Engine!NoSpuriousError
      BY <2>1, <2>2, Engine!FaultlessRunsSucceed DEF Assumed
    <2>4. Engine!Spec => []Engine!CleanRemovesAll
      BY <2>1, <2>2, Engine!FaultlessCleanRemovesAll DEF Assumed
    <2>5. QED
      BY <2>3, <2>4
  <1>2. QED
    BY <1>1, OnceIsEver, PTL
=============================================================================
