----------------------------- MODULE DeclaredProofs -----------------------------
(***************************************************************************)
(* Proofs about MethodCall, Declarations and Inheritance, as MCDeclared    *)
(* has them.                                                               *)
(*                                                                         *)
(* MethodCall, for any number of arguments and any compound values: what   *)
(* the checks have gone past fits, and status and the messages tell of     *)
(* every refusal.                                                          *)
(*                                                                         *)
(* Declarations, for any classes, attributes and methods: the tables are a *)
(* tree of classes with their layouts, the table of a class has the last   *)
(* method of those above it, and what is loaded so far is what is declared *)
(* so far, without its methods.                                            *)
(*                                                                         *)
(* Inheritance, for any classes and any width of a longword from two bits  *)
(* on: a class has a code that begins with the code of the class above it  *)
(* and with those of no others, the patterns hold the codes and the masks  *)
(* say where the codes end.                                                *)
(***************************************************************************)
EXTENDS MCDeclared, SequenceFacts, FiniteSetTheorems

-----------------------------------------------------------------------------
(* A call                                                                  *)

TypeOK ==
  /\ call \in Method!Call /\ Len(call.params) = Len(call.args)
  /\ pc \in {"receiver", "lookup", "count", "arg", "class", "done"}
  /\ i \in Nat \ {0} /\ j \in Nat \ {0}
  /\ status \in BOOLEAN
  /\ called \in {"method", "no method", "nothing"}

\* The place in the code tells which of the first checks the call has passed.
PlaceTells ==
  /\ pc \notin {"receiver", "done"} => call.receiver = "live"
  /\ pc \in {"count", "arg", "class"} => call.lookup = "found"
  /\ pc \in {"arg", "class"} => call.count
  /\ pc \in {"receiver", "lookup", "count"} => status /\ i = 1

\* The arguments before the one that is looked at fit, unless one was refused.
ArgsPassed ==
  pc \in {"arg", "class"} /\ status =>
    \A n \in DOMAIN call.args : n < i => Method!Fits(n)

\* So do the elements before the one whose class is looked at.
IdsPassed ==
  pc = "class" =>
    /\ i \in DOMAIN call.args /\ j \in DOMAIN Method!arg.ids
    /\ Method!param.restricted
    /\ status => /\ Method!Accepted
                 /\ \A k \in DOMAIN Method!arg.ids : k < j => Method!arg.ids[k] = "of"

\* Nothing is called before the checks are over.
CalledLast ==
  /\ pc # "done" => called = "nothing"
  /\ called = "method" => Method!Callable

\* Nothing is reported until an argument is refused.
ReportsTell ==
  /\ pc # "done" => (status <=> reports = {})
  /\ Method!RefusalsReported

Inv == TypeOK /\ PlaceTells /\ ArgsPassed /\ IdsPassed /\ CalledLast /\ ReportsTell

-----------------------------------------------------------------------------
\* The elements of an argument are a sequence of answers about instance ids.
LEMMA ElementsType ==
  ASSUME Method!BoundsAssumption, NEW a \in Method!Arg
  PROVE  /\ a.ids \in Seq(Method!Id) /\ DOMAIN a.ids = 1 .. Len(a.ids)
         /\ Len(a.ids) \in Nat
         /\ a.shape \in {"atom", "compound"}
         /\ a.valid \in BOOLEAN /\ a.domain \in BOOLEAN
         /\ a.valid /\ a.shape = "atom" => DOMAIN a.ids = {1}
<1>1. CASE a \in [shape : {"atom"}, valid : {FALSE}, domain : {FALSE}, ids : {<<>>}]
  <2>1. a.ids = << >> /\ a.valid = FALSE /\ a.shape = "atom" /\ a.domain = FALSE
    BY <1>1
  <2>2. << >> \in Seq(Method!Id) /\ Len(<< >>) = 0 /\ DOMAIN << >> = 1 .. 0
    OBVIOUS
  <2>. QED
    BY <2>1, <2>2
<1>2. CASE a \in [shape : {"atom"}, valid : {TRUE}, domain : BOOLEAN, ids : [1..1 -> Method!Id]]
  <2>1. /\ a.ids \in [1..1 -> Method!Id]
        /\ a.valid \in BOOLEAN /\ a.shape = "atom" /\ a.domain \in BOOLEAN
    BY <1>2
  <2>2. a.ids \in Seq(Method!Id) /\ Len(a.ids) = 1 /\ DOMAIN a.ids = 1 .. 1
    BY <2>1, IntervalSeq
  <2>3. 1 .. 1 = {1}
    OBVIOUS
  <2>. QED
    BY <2>1, <2>2, <2>3
<1>3. CASE a \in [shape : {"compound"}, valid : {TRUE}, domain : BOOLEAN,
                  ids : UNION {[1..n -> Method!Id] : n \in 0..MaxCompound}]
  <2>1. PICK n \in 0..MaxCompound : a.ids \in [1..n -> Method!Id]
    BY <1>3
  <2>2. n \in Nat /\ a.ids \in Seq(Method!Id) /\ Len(a.ids) = n /\ DOMAIN a.ids = 1 .. n
    BY <2>1, IntervalSeq DEF Method!BoundsAssumption
  <2>3. a.valid \in BOOLEAN /\ a.shape = "compound" /\ a.domain \in BOOLEAN
    BY <1>3
  <2>. QED
    BY <2>2, <2>3
<1>. QED
  BY <1>1, <1>2, <1>3 DEF Method!Arg

\* Parameters and arguments are sequences of one length.
LEMMA CallType ==
  ASSUME Method!BoundsAssumption, TypeOK
  PROVE  /\ DOMAIN call.args = 1 .. Len(call.args)
         /\ DOMAIN call.params = DOMAIN call.args
         /\ Len(call.args) \in Nat
         /\ \A n \in DOMAIN call.args :
              call.args[n] \in Method!Arg /\ call.params[n] \in Method!Param
<1>1. PICK m \in 0..MaxArg : call.args \in [1..m -> Method!Arg]
  BY DEF TypeOK, Method!Call
<1>2. PICK k \in 0..MaxArg : call.params \in [1..k -> Method!Param]
  BY DEF TypeOK, Method!Call
<1>3. m \in Nat /\ k \in Nat
  BY DEF Method!BoundsAssumption
<1>4. Len(call.args) = m /\ DOMAIN call.args = 1 .. m
  BY <1>1, <1>3, IntervalSeq
<1>5. Len(call.params) = k /\ DOMAIN call.params = 1 .. k
  BY <1>2, <1>3, IntervalSeq
<1>6. m = k
  BY <1>4, <1>5 DEF TypeOK
<1>. QED
  BY <1>1, <1>2, <1>3, <1>4, <1>5, <1>6

-----------------------------------------------------------------------------
\* A call begins with nothing checked.
LEMMA InitInv == Method!Init => Inv
<1>. SUFFICES ASSUME Method!Init PROVE Inv
  OBVIOUS
<1>1. TypeOK
  BY DEF Method!Init, TypeOK
<1>2. PlaceTells /\ ArgsPassed /\ IdsPassed
  BY DEF Method!Init, PlaceTells, ArgsPassed, IdsPassed
<1>3. CalledLast /\ ReportsTell
  BY DEF Method!Init, CalledLast, ReportsTell, Method!RefusalsReported
<1>. QED
  BY <1>1, <1>2, <1>3 DEF Inv

\* The first three checks refuse the call or let it on to the next.
LEMMA FirstChecksInv ==
  ASSUME Method!BoundsAssumption, Inv, Method!CheckReceiver \/ Method!LookUp \/ Method!CountArgs
  PROVE  Inv'
<1>1. TypeOK /\ PlaceTells /\ CalledLast /\ ReportsTell
  BY DEF Inv
<1>2. call.lookup \in {"found", "system", "fallback", "none"}
  BY <1>1 DEF TypeOK, Method!Call
<1>3. /\ call' = call /\ i' = i /\ j' = j /\ status' = status
      /\ pc \in {"receiver", "lookup", "count"}
      /\ pc' \in {"lookup", "count", "arg", "done"}
      /\ called' = called \/ called' = "no method"
      /\ called' # called => pc' = "done"
  BY <1>2 DEF Method!CheckReceiver, Method!LookUp, Method!CountArgs, Method!ReturnNull
<1>4. TypeOK'
  BY <1>1, <1>3 DEF TypeOK
<1>5. PlaceTells'
  BY <1>1, <1>2, <1>3
     DEF TypeOK, Method!Call, PlaceTells, Method!CheckReceiver, Method!LookUp,
         Method!CountArgs, Method!ReturnNull
<1>6. ArgsPassed'
  <2>. SUFFICES ASSUME pc' = "arg", NEW n \in DOMAIN call.args, n < 1 PROVE FALSE
    BY <1>1, <1>3 DEF ArgsPassed, PlaceTells
  <2>. QED
    BY CallType, <1>1
<1>7. IdsPassed' /\ CalledLast'
  BY <1>1, <1>3 DEF IdsPassed, CalledLast
<1>8. ReportsTell'
  BY <1>1, <1>2, <1>3
     DEF ReportsTell, Method!RefusalsReported, PlaceTells, CalledLast, Method!Report,
     Method!CheckReceiver, Method!LookUp, Method!CountArgs, Method!ReturnNull
<1>. QED
  BY <1>4, <1>5, <1>6, <1>7, <1>8 DEF Inv

\* An argument is accepted and its elements are looked at, or it is passed.
LEMMA CheckArgInv ==
  ASSUME Method!BoundsAssumption, Inv, Method!CheckArg
  PROVE  Inv'
<1>1. /\ TypeOK /\ PlaceTells /\ CalledLast /\ ReportsTell /\ ArgsPassed
      /\ pc = "arg" /\ i \in DOMAIN call.args /\ call' = call /\ called' = called
      /\ i \in Nat
  <2>1. TypeOK /\ PlaceTells /\ CalledLast /\ ReportsTell /\ ArgsPassed
    BY DEF Inv
  <2>2. pc = "arg" /\ call' = call /\ called' = called /\ i <= Len(call.args)
    BY DEF Method!CheckArg
  <2>3. i \in Nat \ {0}
    BY <2>1 DEF TypeOK
  <2>4. i \in DOMAIN call.args
    BY <2>1, <2>2, <2>3, CallType
  <2>. QED
    BY <2>1, <2>2, <2>3, <2>4
<1>2. Method!arg \in Method!Arg /\ Method!param \in Method!Param
  BY <1>1, CallType DEF Method!arg, Method!param
<1>3. Method!Accepted \in BOOLEAN /\ status' = (status /\ Method!Accepted) /\ status' \in BOOLEAN
  BY <1>1, <1>2, ElementsType DEF Method!Accepted, Method!CheckArg, TypeOK
<1>4. \/ /\ pc' = "class" /\ j' = 1 /\ i' = i
         /\ status' /\ Method!param.restricted /\ Method!arg.ids # << >>
      \/ /\ pc' = "arg" /\ j' = j /\ i' = i + 1
         /\ ~(status' /\ Method!param.restricted /\ Method!arg.ids # << >>)
  BY <1>1 DEF Method!CheckArg
<1>5. TypeOK' /\ PlaceTells'
  <2>0. i \in Nat \ {0} /\ j \in Nat \ {0}
    BY <1>1 DEF TypeOK
  <2>1. i' \in Nat \ {0} /\ j' \in Nat \ {0} /\ pc' \in {"arg", "class"}
    <3>1. CASE pc' = "class" /\ j' = 1 /\ i' = i
      BY <3>1, <2>0
    <3>2. CASE pc' = "arg" /\ j' = j /\ i' = i + 1
      BY <3>2, <2>0
    <3>. QED
      BY <3>1, <3>2, <1>4
  <2>2. TypeOK'
    BY <2>1, <1>1, <1>3 DEF TypeOK
  <2>. QED
    BY <2>1, <2>2, <1>1 DEF PlaceTells
<1>6. ASSUME status' PROVE status /\ \A n \in DOMAIN call.args : n < i => Method!Fits(n)
  BY <1>6, <1>1, <1>3 DEF ArgsPassed
<1>7. ASSUME pc' = "arg", status' PROVE Method!Fits(i)
  <2>1. Method!Accepted /\ (Method!arg.ids = << >> \/ ~Method!param.restricted)
    BY <1>7, <1>3, <1>4
  <2>2. Method!arg.ids = << >> => DOMAIN Method!arg.ids = {}
    OBVIOUS
  <2>. QED
    BY <2>1, <2>2 DEF Method!Fits, Method!Accepted, Method!arg, Method!param
<1>8. ArgsPassed'
  <2>. SUFFICES ASSUME status', NEW n \in DOMAIN call.args, n < i' PROVE Method!Fits(n)
    BY <1>1 DEF ArgsPassed, Method!Fits
  <2>1. n \in Nat /\ n <= i /\ (n = i => pc' = "arg")
    BY <1>1, <1>4, CallType
  <2>. QED
    BY <2>1, <1>1, <1>6, <1>7
<1>9. IdsPassed'
  <2>. SUFFICES ASSUME pc' = "class"
                PROVE  /\ 1 \in DOMAIN Method!arg.ids /\ Method!param.restricted /\ Method!Accepted
                       /\ \A k \in DOMAIN Method!arg.ids : ~(k < 1)
    BY <1>1, <1>4 DEF IdsPassed, Method!arg, Method!param, Method!Accepted
  <2>1. /\ DOMAIN Method!arg.ids = 1 .. Len(Method!arg.ids)
        /\ Len(Method!arg.ids) \in Nat /\ Method!arg.ids \in Seq(Method!Id)
    BY <1>2, ElementsType
  <2>2. Len(Method!arg.ids) # 0
    BY <2>1, <1>4
  <2>. QED
    BY <2>1, <2>2, <1>3, <1>4
<1>10. CalledLast'
  BY <1>1, <1>4 DEF CalledLast
<1>11. ReportsTell'
  <2>1. \/ Method!Accepted /\ reports' = reports
        \/ ~Method!Accepted /\ reports' = reports \cup {"METINVARG"}
    BY <1>3 DEF Method!CheckArg, Method!Report
  <2>. QED
    BY <2>1, <1>1, <1>3, <1>4 DEF ReportsTell, Method!RefusalsReported, TypeOK
<1>. QED
  BY <1>5, <1>8, <1>9, <1>10, <1>11 DEF Inv

\* The class of one element is compared; an argument is passed after its last.
LEMMA CheckClassInv ==
  ASSUME Method!BoundsAssumption, Inv, Method!CheckClass
  PROVE  Inv'
<1>1. /\ TypeOK /\ PlaceTells /\ CalledLast /\ ReportsTell /\ ArgsPassed /\ IdsPassed
      /\ pc = "class" /\ i \in DOMAIN call.args /\ call' = call
      /\ called' = called /\ called = "nothing"
      /\ j \in DOMAIN Method!arg.ids /\ i \in Nat /\ j \in Nat
  BY DEF Inv, Method!CheckClass, TypeOK, Method!ReturnNull, IdsPassed, CalledLast
<1>2. Method!arg \in Method!Arg /\ Method!param \in Method!Param
  BY <1>1, CallType DEF Method!arg, Method!param
<1>3. DOMAIN Method!arg.ids = 1 .. Len(Method!arg.ids) /\ Len(Method!arg.ids) \in Nat
  BY <1>2, ElementsType
<1>4. CASE Method!arg.ids[j] = "gone" /\ Method!Report("NOSUCHWM") /\ Method!ReturnNull
  <2>1. /\ pc' = "done" /\ i' = i /\ j' = j /\ status' = status /\ reports' # {}
    BY <1>4 DEF Method!ReturnNull, Method!Report
  <2>2. TypeOK' /\ PlaceTells' /\ ArgsPassed' /\ IdsPassed' /\ CalledLast'
    BY <2>1, <1>1 DEF TypeOK, PlaceTells, ArgsPassed, IdsPassed, CalledLast
  <2>3. ReportsTell'
    BY <2>1, <1>1 DEF ReportsTell, Method!RefusalsReported, PlaceTells
  <2>. QED
    BY <2>2, <2>3 DEF Inv
<1>5. CASE /\ Method!arg.ids[j] = "other" /\ Method!Report("METINVARG")
           /\ status' = FALSE /\ Method!NextId
  <2>1. pc' = pc /\ i' = i /\ j' = j /\ ~status' /\ reports' # {}
    BY <1>5 DEF Method!NextId, Method!Report
  <2>2. TypeOK' /\ PlaceTells' /\ ArgsPassed'
    BY <1>5, <2>1, <1>1 DEF TypeOK, PlaceTells, ArgsPassed
  <2>3. IdsPassed' /\ CalledLast'
    BY <2>1, <1>1 DEF IdsPassed, CalledLast, Method!arg, Method!param
  <2>4. ReportsTell'
    BY <2>1, <1>1 DEF ReportsTell, Method!RefusalsReported
  <2>. QED
    BY <2>2, <2>3, <2>4 DEF Inv
<1>6. CASE Method!arg.ids[j] = "of" /\ UNCHANGED <<status, reports>> /\ Method!NextId
  <2>1. \/ pc' = pc /\ i' = i /\ j' = j
        \/ pc' = pc /\ i' = i /\ j' = j + 1 /\ j < Len(Method!arg.ids)
        \/ pc' = "arg" /\ i' = i + 1 /\ j' = j /\ ~(j < Len(Method!arg.ids))
    BY <1>1, <1>6 DEF Method!NextId
  <2>2. TypeOK' /\ PlaceTells'
    BY <2>1, <1>1, <1>6 DEF TypeOK, PlaceTells
  <2>3. ASSUME status
        PROVE  /\ Method!Accepted
               /\ \A k \in DOMAIN Method!arg.ids : k <= j => Method!arg.ids[k] = "of"
    <3>1. Method!Accepted /\ \A k \in DOMAIN Method!arg.ids : k < j => Method!arg.ids[k] = "of"
      BY <2>3, <1>1 DEF IdsPassed
    <3>2. \A k \in DOMAIN Method!arg.ids : k <= j => k < j \/ k = j
      BY <1>1, <1>3
    <3>. QED
      BY <3>1, <3>2, <1>6
  <2>4. ASSUME pc' = "arg", status PROVE Method!Fits(i)
    <3>1. \A k \in DOMAIN Method!arg.ids : k <= j
      BY <2>4, <2>1, <1>1, <1>3
    <3>. QED
      BY <3>1, <2>3, <2>4 DEF Method!Fits, Method!Accepted, Method!arg, Method!param
  <2>5. ArgsPassed'
    <3>. SUFFICES ASSUME status, NEW n \in DOMAIN call.args, n < i' PROVE Method!Fits(n)
      BY <1>1, <1>6 DEF ArgsPassed, Method!Fits
    <3>1. n \in Nat /\ n <= i /\ (n = i => pc' = "arg")
      BY <2>1, <1>1, CallType
    <3>2. n < i => Method!Fits(n)
      BY <1>1 DEF ArgsPassed
    <3>. QED
      BY <3>1, <3>2, <2>4, <1>1
  <2>6. IdsPassed'
    <3>. SUFFICES ASSUME pc' = "class"
                  PROVE  /\ j' \in DOMAIN Method!arg.ids /\ i' = i /\ Method!param.restricted
                         /\ status => Method!Accepted /\ \A k \in DOMAIN Method!arg.ids :
                                                    k < j' => Method!arg.ids[k] = "of"
      BY <1>1, <1>6 DEF IdsPassed, Method!arg, Method!param, Method!Accepted
    <3>1. i' = i /\ j' \in DOMAIN Method!arg.ids /\ Method!param.restricted
      BY <2>1, <1>1, <1>3 DEF IdsPassed
    <3>2. \A k \in DOMAIN Method!arg.ids : k < j' => k <= j
      BY <2>1, <1>1, <1>3
    <3>. QED
      BY <3>1, <3>2, <2>3
  <2>7. CalledLast' /\ ReportsTell'
    BY <2>1, <1>1, <1>6 DEF CalledLast, ReportsTell, Method!RefusalsReported
  <2>. QED
    BY <2>2, <2>5, <2>6, <2>7 DEF Inv
<1>. QED
  BY <1>4, <1>5, <1>6 DEF Method!CheckClass

\* The method is called after the last argument.
LEMMA InvokeInv ==
  ASSUME Method!BoundsAssumption, Inv, Method!Invoke
  PROVE  Inv'
<1>1. /\ TypeOK /\ PlaceTells /\ CalledLast /\ ReportsTell /\ ArgsPassed
      /\ pc = "arg" /\ pc' = "done" /\ call' = call /\ i' = i /\ j' = j
      /\ status' = status /\ reports' = reports /\ i > Len(call.args) /\ i \in Nat
  BY DEF Inv, Method!Invoke, TypeOK
<1>2. called' = IF status THEN "method" ELSE "nothing"
  BY <1>1 DEF Method!Invoke, CalledLast
<1>3. ASSUME status PROVE Method!Callable
  <2>1. \A n \in DOMAIN call.args : n < i
    BY <1>1, CallType
  <2>. QED
    BY <1>3, <1>1, <2>1 DEF Method!Callable, ArgsPassed, PlaceTells
<1>4. TypeOK' /\ PlaceTells' /\ ArgsPassed' /\ IdsPassed'
  BY <1>1, <1>2 DEF TypeOK, PlaceTells, ArgsPassed, IdsPassed
<1>5. CalledLast'
  <2>1. Method!Callable' <=> Method!Callable
    BY <1>1 DEF Method!Callable, Method!Fits
  <2>. QED
    BY <2>1, <1>1, <1>2, <1>3 DEF CalledLast
<1>6. ReportsTell'
  BY <1>1, <1>2 DEF ReportsTell, Method!RefusalsReported, PlaceTells
<1>. QED
  BY <1>4, <1>5, <1>6 DEF Inv

\* A state in which nothing moves keeps everything.
LEMMA StutterInv ==
  ASSUME Inv, UNCHANGED Method!vars
  PROVE  Inv'
BY DEF Method!vars, Inv, TypeOK, PlaceTells, ArgsPassed, IdsPassed, CalledLast, ReportsTell,
       Method!RefusalsReported, Method!Callable, Method!Fits, Method!Accepted, Method!arg, Method!param

-----------------------------------------------------------------------------
\* No step of a call loses the invariant.
LEMMA InvStep ==
  ASSUME Method!BoundsAssumption, Inv, [Method!Next]_(Method!vars)
  PROVE  Inv'
BY FirstChecksInv, CheckArgInv, CheckClassInv, InvokeInv, StutterInv DEF Method!Next

\* The strengthening is an invariant of every call.
THEOREM InvHolds == ASSUME Method!BoundsAssumption PROVE Method!Spec => []Inv
BY InitInv, InvStep, PTL DEF Method!Spec

\* rul__call_method calls the code of a method only when the receiver is live,
\* the method was found, and each of its arguments fits its generic, for calls of
\* any number of arguments and compound arguments of any length.
THEOREM FittingOnly ==
  ASSUME Method!BoundsAssumption
  PROVE  Method!Spec => []Method!OnlyFittingCalls
<1>1. Inv => Method!OnlyFittingCalls
  BY DEF Inv, CalledLast, Method!OnlyFittingCalls
<1>. QED
  BY <1>1, InvHolds, PTL

\* It says why whenever it calls nothing, and says nothing when it calls the
\* method, unless the method is one of the system's that has no code.
THEOREM RefusalsTold ==
  ASSUME Method!BoundsAssumption
  PROVE  Method!Spec => []Method!RefusalsReported
<1>1. Inv => Method!RefusalsReported
  BY DEF Inv, ReportsTell
<1>. QED
  BY <1>1, InvHolds, PTL

\* Of the run of calls: no method is called with an argument that does not fit,
\* and every refusal is told.
THEOREM RunCallsFit == MCSpec => []OnlyFittingCalls
<1>. DEFINE J == part = "call" => Inv
<1>1. MCInit => J
  BY InitInv DEF MCInit
<1>2. J /\ [Encodes \/ Declares \/ CallsMethod]_mcVars => J'
  <2>. SUFFICES ASSUME J, [Encodes \/ Declares \/ CallsMethod]_mcVars, part' = "call"
                PROVE  Inv'
    OBVIOUS
  <2>1. part = "call" /\ [Method!Next]_(Method!vars)
    BY DEF Encodes, Declares, CallsMethod, mcVars, callVars, Method!vars
  <2>. QED
    BY <2>1, InvStep, DeclaredAssumption
<1>3. J => OnlyFittingCalls
  BY DEF Inv, CalledLast, ReportsTell, OnlyFittingCalls, Method!OnlyFittingCalls
<1>. QED
  BY <1>1, <1>2, <1>3, PTL DEF MCSpec

-----------------------------------------------------------------------------
(* The tree of classes                                                     *)

(* The tree of classes: P gives the class above each, s is the chain of    *)
(* the classes below $ROOT, and a class is declared after the one above it.*)
Tree(s, P) ==
  /\ s \in Seq(ClassName)
  /\ \A k, m \in 1 .. Len(s) : s[k] = s[m] => k = m
  /\ DOMAIN P = {Root} \cup ToSet(s)
  /\ P[Root] = Root
  /\ \A k \in 1 .. Len(s) : P[s[k]] = Root \/ \E m \in 1 .. k - 1 : P[s[k]] = s[m]

Lines(P, L) == L = [c \in DOMAIN P |-> IF c = Root THEN <<Root>> ELSE <<c>> \o L[P[c]]]
Lineage(P) == CHOOSE L : Lines(P, L)
Below(P, c, p) == p \in ToSet(Lineage(P)[c])

\* The lineages depend on the classes above alone.
LEMMA LineageIs == ASSUME NEW t PROVE LineageIn(t) = Lineage(t.parent)
BY DEF LineageIn, Lineage, Lines

\* What a tree of classes consists of.
LEMMA TreeIs ==
  ASSUME NamesAssumption, NEW s, NEW P, Tree(s, P)
  PROVE  /\ Len(s) \in Nat /\ DOMAIN s = 1 .. Len(s)
         /\ ToSet(s) \subseteq ClassName /\ Root \notin ToSet(s)
         /\ \A c \in DOMAIN P : P[c] \in DOMAIN P
         /\ \A c \in ToSet(s) : \E k \in 1 .. Len(s) : c = s[k]
<1>1. Len(s) \in Nat /\ DOMAIN s = 1 .. Len(s) /\ \A k \in 1 .. Len(s) : s[k] \in ClassName
  BY DEF Tree
<1>2. ToSet(s) = {s[k] : k \in 1 .. Len(s)}
  BY <1>1 DEF ToSet
<1>3. ToSet(s) \subseteq ClassName /\ Root \notin ToSet(s)
  BY <1>1, <1>2 DEF NamesAssumption
<1>4. \A c \in DOMAIN P : P[c] \in DOMAIN P
  BY <1>1, <1>2 DEF Tree
<1>. QED
  BY <1>1, <1>2, <1>3, <1>4

\* What holds of $ROOT and of a class when it holds of the one above holds of all.
LEMMA OverClasses ==
  ASSUME NamesAssumption, NEW s, NEW P, Tree(s, P), NEW G,
         Root \in G, \A c \in ToSet(s) : P[c] \in G => c \in G
  PROVE  \A c \in DOMAIN P : c \in G
<1>. DEFINE n == Len(s)
            H == {k \in 0 .. n : \A m \in 1 .. k : s[m] \in G}
<1>1. /\ n \in Nat /\ DOMAIN P = {Root} \cup ToSet(s)
      /\ \A c \in ToSet(s) : \E k \in 1 .. n : c = s[k]
      /\ \A k \in 1 .. n : s[k] \in ToSet(s)
  BY TreeIs DEF Tree, ToSet
<1>2. \A k \in 1 .. n : P[s[k]] = Root \/ \E m \in 1 .. k - 1 : P[s[k]] = s[m]
  BY DEF Tree
<1>. HIDE DEF n
<1>3. 0 \in H
  BY <1>1
<1>4. ASSUME NEW k \in 1 .. n, k - 1 \in H PROVE k \in H
  <2>1. \A m \in 1 .. k - 1 : s[m] \in G
    BY <1>4
  <2>2. s[k] \in G
    BY <2>1, <1>1, <1>2
  <2>. QED
    BY <2>1, <2>2, <1>1
<1>. HIDE DEF H
<1>5. \A k \in 0 .. n : k \in H
  BY <1>1, <1>3, <1>4, Induct
<1>6. \A m \in 1 .. n : s[m] \in G
  BY <1>1, <1>5 DEF H
<1>. QED
  BY <1>1, <1>6

\* The recursion that defines the lineages has a solution.
LEMMA LineageExists ==
  ASSUME NamesAssumption, NEW s, NEW P, Tree(s, P)
  PROVE  Lines(P, Lineage(P))
<1>. DEFINE n == Len(s)
            Known(k) == {Root} \cup {s[m] : m \in 1 .. k}
            Def(L, k) == L = [c \in Known(k) |-> IF c = Root THEN <<Root>> ELSE <<c>> \o L[P[c]]]
            H == {k \in 0 .. n : \E L : Def(L, k)}
<1>1. /\ n \in Nat /\ DOMAIN P = Known(n)
      /\ \A k \in 1 .. n : s[k] # Root
      /\ \A k, m \in 1 .. n : s[k] = s[m] => k = m
      /\ \A k \in 1 .. n : P[s[k]] \in Known(k - 1)
  BY TreeIs DEF Tree, ToSet
<1>. HIDE DEF n
<1>2. 0 \in H
  <2>. DEFINE L0 == [c \in {Root} |-> <<Root>>]
  <2>1. Known(0) = {Root}
    OBVIOUS
  <2>2. \E L : Def(L, 0)
    <3>1. Def(L0, 0)
      BY <2>1
    <3>. QED
      BY <3>1
  <2>3. 0 \in 0 .. n
    BY <1>1
  <2>. HIDE DEF Def
  <2>. QED
    BY <2>2, <2>3
<1>3. ASSUME NEW k \in 1 .. n, k - 1 \in H PROVE k \in H
  <2>1. PICK L : Def(L, k - 1)
    BY <1>3
  <2>. DEFINE M == [c \in Known(k) |-> IF c = s[k] THEN <<c>> \o L[P[c]] ELSE L[c]]
  <2>2. Known(k) = Known(k - 1) \cup {s[k]} /\ s[k] \notin Known(k - 1) /\ s[k] # Root
    <3>1. \A m \in 1 .. k - 1 : s[m] # s[k]
      BY <1>1
    <3>2. 1 .. k = (1 .. k - 1) \cup {k}
      OBVIOUS
    <3>3. Root \in Known(k)
      OBVIOUS
    <3>. QED
      BY <1>1, <3>1, <3>2
  <2>3. \A c \in Known(k - 1) : c # Root => P[c] \in Known(k - 1)
    <3>. SUFFICES ASSUME NEW m \in 1 .. k - 1 PROVE P[s[m]] \in Known(k - 1)
      OBVIOUS
    <3>1. m \in 1 .. n /\ P[s[m]] \in Known(m - 1)
      BY <1>1
    <3>2. 1 .. m - 1 \subseteq 1 .. k - 1
      OBVIOUS
    <3>. QED
      BY <3>1, <3>2
  <2>4. P[s[k]] \in Known(k - 1)
    BY <1>1
  <2>. HIDE DEF Known
  <2>5. /\ \A c \in Known(k - 1) : M[c] = L[c]
        /\ \A c \in Known(k - 1) : L[c] = IF c = Root THEN <<Root>> ELSE <<c>> \o L[P[c]]
        /\ M[s[k]] = <<s[k]>> \o L[P[s[k]]]
    BY <2>1, <2>2
  <2>6. \A c \in Known(k) : M[c] = IF c = Root THEN <<Root>> ELSE <<c>> \o M[P[c]]
    BY <2>2, <2>3, <2>4, <2>5
  <2>7. Def(M, k)
    BY <2>6
  <2>8. \E K : Def(K, k)
    BY <2>7
  <2>9. k \in 0 .. n
    BY <1>1
  <2>. HIDE DEF Def
  <2>. QED
    BY <2>8, <2>9
<1>. HIDE DEF H
<1>4. \A k \in 0 .. n : k \in H
  BY <1>1, <1>2, <1>3, Induct
<1>5. PICK L : Def(L, n)
  <2>1. n \in H
    BY <1>1, <1>4
  <2>. HIDE DEF Def
  <2>. QED
    BY <2>1 DEF H
<1>6. Lines(P, L)
  BY <1>1, <1>5 DEF Lines
<1>. QED
  BY <1>6 DEF Lineage

\* A lineage goes from the class to $ROOT, and that of a class in it is its end.
Straight(P, L, c) ==
  /\ L[c] \in Seq(DOMAIN P) /\ Len(L[c]) \in Nat \ {0}
  /\ L[c][1] = c /\ L[c][Len(L[c])] = Root
  /\ \A k \in 1 .. Len(L[c]) : L[c][k] = Root => k = Len(L[c])
  /\ \A k \in 1 .. Len(L[c]) :
       /\ Len(L[L[c][k]]) = Len(L[c]) - k + 1
       /\ \A m \in 1 .. Len(L[c]) - k + 1 : L[L[c][k]][m] = L[c][k + m - 1]

\* A lineage is the class, then that of the class above it.
LEMMA LineageFacts ==
  ASSUME NamesAssumption, NEW s, NEW P, Tree(s, P)
  PROVE  /\ Lineage(P)[Root] = <<Root>>
         /\ \A c \in ToSet(s) : Lineage(P)[c] = <<c>> \o Lineage(P)[P[c]]
         /\ \A c \in DOMAIN P : Straight(P, Lineage(P), c)
<1>. DEFINE L == Lineage(P)
<1>1. Lines(P, L)
  BY LineageExists
<1>. HIDE DEF L
<1>2. DOMAIN P = {Root} \cup ToSet(s) /\ Root \notin ToSet(s)
  BY TreeIs DEF Tree
<1>3. L[Root] = <<Root>>
  BY <1>1, <1>2 DEF Lines
<1>4. \A c \in ToSet(s) : L[c] = <<c>> \o L[P[c]]
  BY <1>1, <1>2 DEF Lines
<1>. DEFINE Fits(c) ==
              /\ L[c] \in Seq(DOMAIN P) /\ Len(L[c]) \in Nat \ {0}
              /\ L[c][1] = c /\ L[c][Len(L[c])] = Root
              /\ \A k \in 1 .. Len(L[c]) : L[c][k] = Root => k = Len(L[c])
              /\ \A k \in 1 .. Len(L[c]) :
                   /\ Len(L[L[c][k]]) = Len(L[c]) - k + 1
                   /\ \A m \in 1 .. Len(L[c]) - k + 1 : L[L[c][k]][m] = L[c][k + m - 1]
            G == {c \in DOMAIN P : Fits(c)}
<1>5. Root \in G
  <2>1. Root \in DOMAIN P
    BY <1>2
  <2>2. L[Root] \in Seq(DOMAIN P) /\ Len(L[Root]) = 1 /\ L[Root][1] = Root
    BY <2>1, <1>3
  <2>4. ASSUME NEW k \in 1 .. 1
        PROVE  /\ Len(L[L[Root][k]]) = 1 - k + 1
               /\ \A m \in 1 .. 1 - k + 1 : L[L[Root][k]][m] = L[Root][k + m - 1]
    <3>1. k = 1 /\ 1 - k + 1 = 1 /\ L[Root][k] = Root
      BY <2>2
    <3>2. ASSUME NEW m \in 1 .. 1 PROVE m = 1 /\ k + m - 1 = 1
      BY <3>1
    <3>. QED
      BY <2>2, <3>1, <3>2
  <2>. QED
    BY <2>1, <2>2, <2>4
<1>6. ASSUME NEW c \in ToSet(s), P[c] \in G PROVE c \in G
  <2>. DEFINE q == L[P[c]]
              l == <<c>> \o q
  <2>1. Fits(P[c]) /\ c \in DOMAIN P /\ c # Root /\ L[c] = l
    BY <1>2, <1>4, <1>6
  <2>2. q \in Seq(DOMAIN P) /\ Len(q) \in Nat \ {0}
    BY <2>1
  <2>3. /\ l \in Seq(DOMAIN P) /\ Len(l) = Len(q) + 1 /\ l[1] = c
        /\ \A k \in 1 .. Len(q) : l[k + 1] = q[k]
    BY <2>1, <2>2, PushedFirst
  <2>. HIDE DEF l
  <2>4. \A k \in 1 .. Len(q) + 1 : k = 1 \/ (k - 1 \in 1 .. Len(q) /\ l[k] = q[k - 1])
    <3>. SUFFICES ASSUME NEW k \in 1 .. Len(q) + 1, k # 1
                  PROVE  k - 1 \in 1 .. Len(q) /\ l[k] = q[k - 1]
      OBVIOUS
    <3>1. k - 1 \in 1 .. Len(q) /\ (k - 1) + 1 = k
      BY <2>2
    <3>. QED
      BY <3>1, <2>3
  <2>5. l[Len(l)] = Root /\ \A k \in 1 .. Len(l) : l[k] = Root => k = Len(l)
    <3>1. q[Len(q)] = Root /\ \A k \in 1 .. Len(q) : q[k] = Root => k = Len(q)
      BY <2>1
    <3>2. Len(q) \in 1 .. Len(q)
      BY <2>2
    <3>3. l[Len(l)] = Root
      BY <2>3, <3>1, <3>2
    <3>4. ASSUME NEW k \in 1 .. Len(l), l[k] = Root PROVE k = Len(l)
      <4>1. k # 1
        BY <3>4, <2>1, <2>3
      <4>2. k - 1 \in 1 .. Len(q) /\ q[k - 1] = Root
        BY <3>4, <4>1, <2>3, <2>4
      <4>. QED
        BY <4>2, <3>1, <2>2, <2>3
    <3>. QED
      BY <3>3, <3>4
  <2>6. ASSUME NEW k \in 1 .. Len(l)
        PROVE  /\ Len(L[l[k]]) = Len(l) - k + 1
               /\ \A m \in 1 .. Len(l) - k + 1 : L[l[k]][m] = l[k + m - 1]
    <3>1. CASE k = 1
      BY <3>1, <2>1, <2>3
    <3>2. CASE k # 1
      <4>1. k - 1 \in 1 .. Len(q) /\ l[k] = q[k - 1] /\ k \in Nat
        BY <3>2, <2>3, <2>4
      <4>2. /\ Len(L[q[k - 1]]) = Len(q) - (k - 1) + 1
            /\ \A m \in 1 .. Len(q) - (k - 1) + 1 : L[q[k - 1]][m] = q[(k - 1) + m - 1]
        BY <4>1, <2>1
      <4>3. Len(q) - (k - 1) + 1 = Len(l) - k + 1
        <5>1. Len(q) \in Nat /\ Len(l) = Len(q) + 1
          BY <2>2, <2>3
        <5>. HIDE DEF q
        <5>. QED
          BY <4>1, <5>1
      <4>4. ASSUME NEW m \in 1 .. Len(l) - k + 1 PROVE L[l[k]][m] = l[k + m - 1]
        <5>1. /\ L[l[k]][m] = q[(k - 1) + m - 1]
          BY <4>1, <4>2, <4>3
        <5>2. (k - 1) + m - 1 \in 1 .. Len(q) /\ ((k - 1) + m - 1) + 1 = k + m - 1
          BY <4>1, <2>2, <2>3
        <5>. QED
          BY <5>1, <5>2, <2>3
      <4>. QED
        BY <4>1, <4>2, <4>3, <4>4
    <3>. QED
      BY <3>1, <3>2
  <2>7. Fits(c)
    BY <2>1, <2>2, <2>3, <2>5, <2>6
  <2>. QED
    BY <2>1, <2>7
<1>. HIDE DEF G
<1>7. \A c \in DOMAIN P : c \in G
  BY <1>5, <1>6, OverClasses
<1>. QED
  BY <1>3, <1>4, <1>7 DEF G, L, Straight

\* A class is below those in its lineage.
LEMMA BelowIs ==
  ASSUME NamesAssumption, NEW s, NEW P, Tree(s, P), NEW c \in DOMAIN P
  PROVE  /\ \A p : Below(P, c, p) <=>
                 \E k \in 1 .. Len(Lineage(P)[c]) : Lineage(P)[c][k] = p
         /\ \A p : Below(P, c, p) => p \in DOMAIN P
<1>. DEFINE L == Lineage(P)
<1>1. L[c] \in Seq(DOMAIN P)
  BY LineageFacts DEF Straight
<1>2. DOMAIN L[c] = 1 .. Len(L[c]) /\ \A k \in 1 .. Len(L[c]) : L[c][k] \in DOMAIN P
  BY <1>1
<1>. QED
  BY <1>2 DEF Below, ToSet

\* "Is below" is an order, and what is above a class is a chain.
LEMMA BelowFacts ==
  ASSUME NamesAssumption, NEW s, NEW P, Tree(s, P)
  PROVE  /\ \A p : Below(P, Root, p) <=> p = Root
         /\ \A c \in ToSet(s) : \A p : Below(P, c, p) <=> p = c \/ Below(P, P[c], p)
         /\ \A c \in DOMAIN P : Below(P, c, c) /\ Below(P, c, Root)
         /\ \A c \in DOMAIN P : \A p : Below(P, c, p) => p \in DOMAIN P
         /\ \A c \in DOMAIN P : \A p, q : Below(P, c, p) /\ Below(P, p, q) => Below(P, c, q)
         /\ \A c \in DOMAIN P : \A p : Below(P, c, p) /\ Below(P, p, c) => c = p
         /\ \A c \in DOMAIN P : \A p, q :
              Below(P, c, p) /\ Below(P, c, q) => Below(P, p, q) \/ Below(P, q, p)
<1>. DEFINE L == Lineage(P)
<1>1. /\ L[Root] = <<Root>>
      /\ \A c \in ToSet(s) : L[c] = <<c>> \o L[P[c]]
      /\ \A c \in DOMAIN P :
           /\ L[c] \in Seq(DOMAIN P) /\ Len(L[c]) \in Nat \ {0}
           /\ L[c][1] = c /\ L[c][Len(L[c])] = Root
           /\ \A k \in 1 .. Len(L[c]) :
                /\ Len(L[L[c][k]]) = Len(L[c]) - k + 1
                /\ \A m \in 1 .. Len(L[c]) - k + 1 : L[L[c][k]][m] = L[c][k + m - 1]
  BY LineageFacts DEF Straight
<1>2. \A c \in DOMAIN P :
        /\ \A p : Below(P, c, p) <=> \E k \in 1 .. Len(L[c]) : L[c][k] = p
        /\ \A p : Below(P, c, p) => p \in DOMAIN P
  BY BelowIs
<1>3. DOMAIN P = {Root} \cup ToSet(s) /\ \A c \in DOMAIN P : P[c] \in DOMAIN P
  BY TreeIs DEF Tree
<1>. HIDE DEF L
<1>4. \A p : Below(P, Root, p) <=> p = Root
  <2>1. Len(<<Root>>) = 1 /\ <<Root>>[1] = Root /\ 1 .. 1 = {1}
    OBVIOUS
  <2>. QED
    BY <1>1, <1>2, <1>3, <2>1
<1>5. ASSUME NEW c \in ToSet(s), NEW p PROVE Below(P, c, p) <=> p = c \/ Below(P, P[c], p)
  <2>. DEFINE q == L[P[c]]
  <2>1. c \in DOMAIN P /\ P[c] \in DOMAIN P /\ q \in Seq(DOMAIN P) /\ L[c] = <<c>> \o q
    BY <1>1, <1>3
  <2>2. /\ Len(L[c]) = Len(q) + 1 /\ L[c][1] = c /\ Len(q) \in Nat
        /\ \A k \in 1 .. Len(q) : L[c][k + 1] = q[k]
    BY <2>1, PushedFirst
  <2>3. Below(P, P[c], p) <=> \E k \in 1 .. Len(q) : q[k] = p
    BY <1>2, <2>1
  <2>4. Below(P, c, p) <=> \E k \in 1 .. Len(L[c]) : L[c][k] = p
    BY <1>2, <2>1
  <2>. HIDE DEF q
  <2>5. ASSUME NEW k \in 1 .. Len(q), q[k] = p PROVE Below(P, c, p)
    <3>1. k + 1 \in 1 .. Len(L[c]) /\ L[c][k + 1] = p
      BY <2>2, <2>5
    <3>. QED
      BY <3>1, <2>4
  <2>6. ASSUME p = c PROVE Below(P, c, p)
    BY <2>2, <2>4, <2>6
  <2>7. ASSUME NEW k \in 1 .. Len(L[c]), L[c][k] = p, p # c PROVE Below(P, P[c], p)
    <3>1. k # 1
      BY <2>7, <2>2
    <3>2. k - 1 \in 1 .. Len(q) /\ (k - 1) + 1 = k
      BY <3>1, <2>2
    <3>. QED
      BY <3>2, <2>2, <2>3, <2>7
  <2>. QED
    BY <2>3, <2>4, <2>5, <2>6, <2>7
<1>6. \A c \in DOMAIN P : Below(P, c, c) /\ Below(P, c, Root)
  <2>. SUFFICES ASSUME NEW c \in DOMAIN P PROVE Below(P, c, c) /\ Below(P, c, Root)
    OBVIOUS
  <2>1. Len(L[c]) \in 1 .. Len(L[c]) /\ 1 \in 1 .. Len(L[c])
    BY <1>1
  <2>. QED
    BY <2>1, <1>1, <1>2
<1>7. ASSUME NEW c \in DOMAIN P, NEW p, NEW q, Below(P, c, p), Below(P, p, q) PROVE Below(P, c, q)
  <2>1. PICK k \in 1 .. Len(L[c]) : L[c][k] = p
    BY <1>2, <1>7
  <2>2. PICK m \in 1 .. Len(L[p]) : L[p][m] = q
    BY <1>2, <1>7
  <2>3. m \in 1 .. Len(L[c]) - k + 1 /\ q = L[c][k + m - 1]
    <3>1. /\ Len(L[L[c][k]]) = Len(L[c]) - k + 1
          /\ \A x \in 1 .. Len(L[c]) - k + 1 : L[L[c][k]][x] = L[c][k + x - 1]
      BY <1>1
    <3>2. /\ Len(L[p]) = Len(L[c]) - k + 1
          /\ \A x \in 1 .. Len(L[c]) - k + 1 : L[p][x] = L[c][k + x - 1]
      BY <3>1, <2>1
    <3>. QED
      BY <2>2, <3>2
  <2>4. k + m - 1 \in 1 .. Len(L[c])
    <3>1. Len(L[c]) \in Nat /\ m \in 1 .. Len(L[c]) - k + 1
      BY <2>3, <1>1
    <3>. QED
      BY <3>1
  <2>. QED
    BY <2>3, <2>4, <1>2
<1>8. ASSUME NEW c \in DOMAIN P, NEW p, Below(P, c, p), Below(P, p, c) PROVE c = p
  <2>1. PICK k \in 1 .. Len(L[c]) : L[c][k] = p
    BY <1>2, <1>8
  <2>2. p \in DOMAIN P
    BY <1>2, <1>8
  <2>3. PICK m \in 1 .. Len(L[p]) : L[p][m] = c
    BY <1>2, <1>8
  <2>4. Len(L[p]) = Len(L[c]) - k + 1 /\ Len(L[c]) = Len(L[p]) - m + 1
    BY <2>1, <2>2, <2>3, <1>1
  <2>5. k = 1
    BY <2>4, <1>1, <2>2
  <2>. QED
    BY <2>1, <2>5, <1>1
<1>9. ASSUME NEW c \in DOMAIN P, NEW k \in 1 .. Len(L[c]), NEW m \in 1 .. Len(L[c]), k <= m
      PROVE  Below(P, L[c][k], L[c][m])
  <2>1. m - k + 1 \in 1 .. Len(L[c]) - k + 1 /\ k + (m - k + 1) - 1 = m
    BY <1>9, <1>1
  <2>2. L[L[c][k]][m - k + 1] = L[c][m] /\ m - k + 1 \in 1 .. Len(L[L[c][k]])
    BY <2>1, <1>1
  <2>3. L[c][k] \in DOMAIN P
    BY <1>2
  <2>. QED
    BY <2>2, <2>3, <1>2
<1>10. ASSUME NEW c \in DOMAIN P, NEW p, NEW q, Below(P, c, p), Below(P, c, q)
       PROVE  Below(P, p, q) \/ Below(P, q, p)
  <2>1. PICK k \in 1 .. Len(L[c]) : L[c][k] = p
    BY <1>2, <1>10
  <2>2. PICK m \in 1 .. Len(L[c]) : L[c][m] = q
    BY <1>2, <1>10
  <2>3. k <= m \/ m <= k
    BY <1>1
  <2>. QED
    BY <2>1, <2>2, <2>3, <1>9
<1>. QED
  BY <1>2, <1>4, <1>5, <1>6, <1>7, <1>8, <1>10

\* The classes nearer to the class come first in its lineage.
LEMMA NearerFirst ==
  ASSUME NamesAssumption, NEW s, NEW P, Tree(s, P), NEW c \in DOMAIN P,
         NEW k \in 1 .. Len(Lineage(P)[c]), NEW m \in 1 .. Len(Lineage(P)[c]), k <= m
  PROVE  Below(P, Lineage(P)[c][k], Lineage(P)[c][m])
<1>. DEFINE L == Lineage(P)
<1>1. /\ L[c] \in Seq(DOMAIN P) /\ Len(L[c]) \in Nat \ {0}
      /\ Len(L[L[c][k]]) = Len(L[c]) - k + 1
      /\ \A x \in 1 .. Len(L[c]) - k + 1 : L[L[c][k]][x] = L[c][k + x - 1]
      /\ k \in 1 .. Len(L[c]) /\ m \in 1 .. Len(L[c])
  <2>1. Straight(P, L, c)
    BY LineageFacts
  <2>. QED
    BY <2>1 DEF Straight
<1>2. L[c][k] \in DOMAIN P
  BY <1>1
<1>3. Below(P, L[c][k], L[c][m]) <=> \E x \in 1 .. Len(L[L[c][k]]) : L[L[c][k]][x] = L[c][m]
  BY <1>2, BelowIs
<1>. HIDE DEF L
<1>4. m - k + 1 \in 1 .. Len(L[c]) - k + 1 /\ k + (m - k + 1) - 1 = m
  BY <1>1
<1>5. L[L[c][k]][m - k + 1] = L[c][m] /\ m - k + 1 \in 1 .. Len(L[L[c][k]])
  BY <1>1, <1>4
<1>6. Below(P, L[c][k], L[c][m])
  BY <1>3, <1>5
<1>. QED
  BY <1>6 DEF L

\* Classes of one family have the same class below $ROOT above them.
LEMMA FamilyFacts ==
  ASSUME NamesAssumption, NEW s, NEW P, Tree(s, P), NEW t, t.parent = P,
         NEW c \in DOMAIN P, NEW p, Below(P, c, p), p # Root
  PROVE  Family(t, c) = Family(t, p)
<1>. DEFINE L == Lineage(P)
<1>1. L = LineageIn(t)
  BY LineageIs
<1>2. PICK k \in 1 .. Len(L[c]) : L[c][k] = p
  BY BelowIs
<1>3. /\ L[c] \in Seq(DOMAIN P) /\ Len(L[c]) \in Nat \ {0} /\ L[c][Len(L[c])] = Root
      /\ Len(L[p]) = Len(L[c]) - k + 1
      /\ \A m \in 1 .. Len(L[c]) - k + 1 : L[p][m] = L[c][k + m - 1]
  <2>1. Straight(P, L, c)
    BY LineageFacts
  <2>. HIDE DEF L
  <2>. QED
    BY <1>2, <2>1 DEF Straight
<1>. HIDE DEF L
<1>4. k # Len(L[c])
  BY <1>2, <1>3
<1>5. Len(L[c]) - k \in 1 .. Len(L[c]) - k + 1 /\ k + (Len(L[c]) - k) - 1 = Len(L[c]) - 1
  BY <1>3, <1>4
<1>6. L[p][Len(L[p]) - 1] = L[c][Len(L[c]) - 1]
  BY <1>3, <1>5
<1>. QED
  BY <1>1, <1>6 DEF Family

\* More classes do not change the lineages that are there.
LEMMA LineageKept ==
  ASSUME NamesAssumption, NEW s, NEW P, Tree(s, P), NEW u, NEW Q, Tree(u, Q),
         \A c \in DOMAIN P : c \in DOMAIN Q /\ Q[c] = P[c]
  PROVE  \A c \in DOMAIN P : Lineage(Q)[c] = Lineage(P)[c]
<1>. DEFINE G == {c \in DOMAIN P : Lineage(Q)[c] = Lineage(P)[c]}
<1>1. /\ DOMAIN P = {Root} \cup ToSet(s) /\ \A c \in DOMAIN P : P[c] \in DOMAIN P
      /\ DOMAIN Q = {Root} \cup ToSet(u) /\ Root \notin ToSet(s)
  BY TreeIs DEF Tree
<1>2. /\ Lineage(P)[Root] = <<Root>> /\ Lineage(Q)[Root] = <<Root>>
      /\ \A c \in ToSet(s) : Lineage(P)[c] = <<c>> \o Lineage(P)[P[c]]
      /\ \A c \in ToSet(u) : Lineage(Q)[c] = <<c>> \o Lineage(Q)[Q[c]]
  <2>1. Lineage(P)[Root] = <<Root>> /\ \A c \in ToSet(s) : Lineage(P)[c] = <<c>> \o Lineage(P)[P[c]]
    BY LineageFacts
  <2>2. Lineage(Q)[Root] = <<Root>> /\ \A c \in ToSet(u) : Lineage(Q)[c] = <<c>> \o Lineage(Q)[Q[c]]
    BY LineageFacts
  <2>. QED
    BY <2>1, <2>2
<1>3. Root \in G
  BY <1>1, <1>2
<1>4. ASSUME NEW c \in ToSet(s), P[c] \in G PROVE c \in G
  <2>1. c \in ToSet(u) /\ Q[c] = P[c]
    BY <1>1
  <2>. QED
    BY <1>1, <1>2, <1>4, <2>1
<1>. HIDE DEF G
<1>5. \A c \in DOMAIN P : c \in G
  BY <1>3, <1>4, OverClasses
<1>. QED
  BY <1>5 DEF G

\* A class added below another one.
Grown(s, P, c, p, u, Q) ==
  /\ Tree(u, Q) /\ DOMAIN Q = DOMAIN P \cup {c} /\ Q[c] = p
  /\ \A x \in DOMAIN P : Q[x] = P[x] /\ Lineage(Q)[x] = Lineage(P)[x]
  /\ \A x \in DOMAIN P : \A y : Below(Q, x, y) <=> Below(P, x, y)
  /\ \A y : Below(Q, c, y) <=> y = c \/ Below(P, p, y)

\* A class that is declared leaves the tree above it as it was.
LEMMA TreeGrows ==
  ASSUME NamesAssumption, NEW s, NEW P, Tree(s, P),
         NEW c \in ClassName, c \notin DOMAIN P, NEW p \in DOMAIN P,
         NEW Q, Q = With(P, c, p)
  PROVE  Grown(s, P, c, p, Append(s, c), Q)
<1>. DEFINE u == Append(s, c)
            n == Len(s)
<1>1. /\ n \in Nat /\ s \in Seq(ClassName) /\ DOMAIN P = {Root} \cup ToSet(s)
      /\ Root \notin ToSet(s) /\ P[Root] = Root /\ DOMAIN s = 1 .. n
      /\ \A k, m \in 1 .. n : s[k] = s[m] => k = m
      /\ \A k \in 1 .. n : P[s[k]] = Root \/ \E m \in 1 .. k - 1 : P[s[k]] = s[m]
  BY TreeIs DEF Tree
<1>2. DOMAIN Q = DOMAIN P \cup {c} /\ Q[c] = p /\ \A x \in DOMAIN P : Q[x] = P[x]
  BY DEF With
<1>3. /\ u \in Seq(ClassName) /\ Len(u) = n + 1 /\ u[n + 1] = c
      /\ \A k \in 1 .. n : u[k] = s[k] /\ u[k] # c /\ s[k] \in ToSet(s)
  BY <1>1 DEF ToSet
<1>4. ToSet(u) = ToSet(s) \cup {c}
  <2>1. DOMAIN u = 1 .. n + 1 /\ 1 .. n + 1 = (1 .. n) \cup {n + 1}
    BY <1>1, <1>3
  <2>. QED
    BY <1>1, <1>3, <2>1 DEF ToSet
<1>5. c # Root
  BY <1>1
<1>6. Tree(u, Q)
  <2>1. \A k, m \in 1 .. n + 1 : u[k] = u[m] => k = m
    BY <1>1, <1>3
  <2>2. ASSUME NEW k \in 1 .. n + 1 PROVE Q[u[k]] = Root \/ \E m \in 1 .. k - 1 : Q[u[k]] = u[m]
    <3>1. CASE k = n + 1
      <4>1. Q[u[k]] = p
        BY <3>1, <1>2, <1>3
      <4>2. p = Root \/ \E m \in 1 .. n : p = s[m]
        BY <1>1 DEF ToSet
      <4>3. k - 1 = n
        BY <3>1, <1>1
      <4>. QED
        BY <4>1, <4>2, <4>3, <1>3
    <3>2. CASE k # n + 1
      <4>1. k \in 1 .. n /\ u[k] = s[k] /\ s[k] \in DOMAIN P
        BY <3>2, <1>1, <1>3
      <4>2. \A m \in 1 .. k - 1 : u[m] = s[m]
        BY <4>1, <1>1, <1>3
      <4>. QED
        BY <4>1, <4>2, <1>1, <1>2
    <3>. QED
      BY <3>1, <3>2
  <2>. QED
    BY <1>1, <1>2, <1>3, <1>4, <1>5, <2>1, <2>2 DEF Tree
<1>. HIDE DEF u
<1>7. \A x \in DOMAIN P : Lineage(Q)[x] = Lineage(P)[x]
  BY <1>2, <1>6, LineageKept
<1>8. \A x \in DOMAIN P : \A y : Below(Q, x, y) <=> Below(P, x, y)
  BY <1>7 DEF Below
<1>9. \A y : Below(Q, c, y) <=> y = c \/ Below(P, p, y)
  BY <1>2, <1>4, <1>6, <1>8, BelowFacts
<1>. QED
  BY <1>2, <1>6, <1>7, <1>8, <1>9 DEF u, Grown

-----------------------------------------------------------------------------
(* The loops of the module: over the attributes of a class c of the tables *)
(* r, over classes to be loaded from r, over methods, and over the classes *)
(* below c.                                                                *)

Op(kind, r, c, u, x) ==
  IF kind = "attr" THEN AddAttrIn(u, c, x, r.attr[c][x].default)
  ELSE IF kind = "class" THEN LoadFrom(r, u, x)
  ELSE IF kind = "method" THEN FinishMethod(u, x.class)
  ELSE AddBelow(u, c, x)

Loop(kind, r, c, b, s, f) ==
  f = [t \in SUBSET (DOMAIN s) |->
         IF t = {} THEN b ELSE Op(kind, r, c, f[t \ {Max(t)}], s[Max(t)])]
Fold(kind, r, c, b, s) == (CHOOSE f : Loop(kind, r, c, b, s, f))[DOMAIN s]

\* The loops of the module are such folds.
LEMMA FoldsAre ==
  ASSUME NEW r, NEW c, NEW b, NEW s
  PROVE  /\ FoldLeft(LAMBDA u, x : AddAttrIn(u, c, x, r.attr[c][x].default), b, s) =
              Fold("attr", r, c, b, s)
         /\ FoldLeft(LAMBDA u, x : LoadFrom(r, u, x), b, s) = Fold("class", r, c, b, s)
         /\ FoldLeft(LAMBDA u, x : FinishMethod(u, x.class), b, s) = Fold("method", r, c, b, s)
         /\ FoldLeft(LAMBDA u, x : AddBelow(u, c, x), b, s) = Fold("sub", r, c, b, s)
<1>1. \A t, m : /\ Op("attr", r, c, t, m) = AddAttrIn(t, c, m, r.attr[c][m].default)
                /\ Op("class", r, c, t, m) = LoadFrom(r, t, m)
                /\ Op("method", r, c, t, m) = FinishMethod(t, m.class)
                /\ Op("sub", r, c, t, m) = AddBelow(t, c, m)
  BY DEF Op
<1>2. FoldLeft(LAMBDA u, x : AddAttrIn(u, c, x, r.attr[c][x].default), b, s) =
        Fold("attr", r, c, b, s)
  <2>. DEFINE P(f) == f = [t \in SUBSET (DOMAIN s) |-> IF t = {} THEN b
               ELSE AddAttrIn(f[t \ {Max(t)}], c, s[Max(t)], r.attr[c][s[Max(t)]].default)]
  <2>1. FoldLeft(LAMBDA u, x : AddAttrIn(u, c, x, r.attr[c][x].default), b, s) =
          (CHOOSE f : P(f))[DOMAIN s]
    BY DEF FoldLeft, MapThenFoldSet
  <2>2. \A f : P(f) <=> Loop("attr", r, c, b, s, f)
    BY <1>1 DEF Loop
  <2>3. (CHOOSE f : P(f)) = (CHOOSE f : Loop("attr", r, c, b, s, f))
    <3>. HIDE DEF P
    <3>. QED
      BY <2>2
  <2>. QED
    BY <2>1, <2>3 DEF Fold
<1>3. FoldLeft(LAMBDA u, x : LoadFrom(r, u, x), b, s) = Fold("class", r, c, b, s)
  <2>. DEFINE P(f) == f = [t \in SUBSET (DOMAIN s) |-> IF t = {} THEN b
                             ELSE LoadFrom(r, f[t \ {Max(t)}], s[Max(t)])]
  <2>1. FoldLeft(LAMBDA u, x : LoadFrom(r, u, x), b, s) = (CHOOSE f : P(f))[DOMAIN s]
    BY DEF FoldLeft, MapThenFoldSet
  <2>2. \A f : P(f) <=> Loop("class", r, c, b, s, f)
    BY <1>1 DEF Loop
  <2>3. (CHOOSE f : P(f)) = (CHOOSE f : Loop("class", r, c, b, s, f))
    <3>. HIDE DEF P
    <3>. QED
      BY <2>2
  <2>. QED
    BY <2>1, <2>3 DEF Fold
<1>4. FoldLeft(LAMBDA u, x : FinishMethod(u, x.class), b, s) = Fold("method", r, c, b, s)
  <2>. DEFINE P(f) == f = [t \in SUBSET (DOMAIN s) |-> IF t = {} THEN b
                             ELSE FinishMethod(f[t \ {Max(t)}], s[Max(t)].class)]
  <2>1. FoldLeft(LAMBDA u, x : FinishMethod(u, x.class), b, s) = (CHOOSE f : P(f))[DOMAIN s]
    BY DEF FoldLeft, MapThenFoldSet
  <2>2. \A f : P(f) <=> Loop("method", r, c, b, s, f)
    BY <1>1 DEF Loop
  <2>3. (CHOOSE f : P(f)) = (CHOOSE f : Loop("method", r, c, b, s, f))
    <3>. HIDE DEF P
    <3>. QED
      BY <2>2
  <2>. QED
    BY <2>1, <2>3 DEF Fold
<1>5. FoldLeft(LAMBDA u, x : AddBelow(u, c, x), b, s) = Fold("sub", r, c, b, s)
  <2>. DEFINE P(f) == f = [t \in SUBSET (DOMAIN s) |-> IF t = {} THEN b
                             ELSE AddBelow(f[t \ {Max(t)}], c, s[Max(t)])]
  <2>1. FoldLeft(LAMBDA u, x : AddBelow(u, c, x), b, s) = (CHOOSE f : P(f))[DOMAIN s]
    BY DEF FoldLeft, MapThenFoldSet
  <2>2. \A f : P(f) <=> Loop("sub", r, c, b, s, f)
    BY <1>1 DEF Loop
  <2>3. (CHOOSE f : P(f)) = (CHOOSE f : Loop("sub", r, c, b, s, f))
    <3>. HIDE DEF P
    <3>. QED
      BY <2>2
  <2>. QED
    BY <2>1, <2>3 DEF Fold
<1>. QED
  BY <1>2, <1>3, <1>4, <1>5

\* What a loop goes through.
Walks(h, kind, r, c, b, s) ==
  /\ h[0] = b /\ h[Len(s)] = Fold(kind, r, c, b, s)
  /\ \A k \in 1 .. Len(s) : h[k] = Op(kind, r, c, h[k - 1], s[k])

\* A loop goes through its elements one by one.
LEMMA OneByOne ==
  ASSUME NEW kind, NEW r, NEW c, NEW b, NEW T, NEW s \in Seq(T)
  PROVE  \E h : Walks(h, kind, r, c, b, s)
<1>. DEFINE n == Len(s)
            Def(f, m) == f = [t \in SUBSET (1 .. m) |->
                  IF t = {} THEN b ELSE Op(kind, r, c, f[t \ {Max(t)}], s[Max(t)])]
            G == {m \in 0 .. n : \E f : Def(f, m)}
<1>1. n \in Nat /\ DOMAIN s = 1 .. n
  OBVIOUS
<1>. HIDE DEF n
<1>2. 0 \in G
  <2>. DEFINE f0 == [t \in SUBSET (1 .. 0) |-> b]
  <2>1. \A t \in SUBSET (1 .. 0) : t = {}
    OBVIOUS
  <2>2. Def(f0, 0)
    BY <2>1
  <2>3. \E f : Def(f, 0)
    BY <2>2
  <2>4. 0 \in 0 .. n
    BY <1>1
  <2>. HIDE DEF Def
  <2>. QED
    BY <2>3, <2>4
<1>3. ASSUME NEW m \in 1 .. n, m - 1 \in G PROVE m \in G
  <2>1. \E f : Def(f, m - 1)
    <3>. HIDE DEF Def
    <3>. QED
      BY <1>3
  <2>2. PICK f : Def(f, m - 1)
    BY <2>1
  <2>. DEFINE g == [t \in SUBSET (1 .. m) |->
                     IF m \in t THEN Op(kind, r, c, f[t \ {m}], s[m]) ELSE f[t]]
  <2>3. ASSUME NEW t \in SUBSET (1 .. m)
        PROVE  /\ m \in t => t # {} /\ t \ {m} \in SUBSET (1 .. m - 1) /\ Max(t) = m
               /\ m \notin t => t \in SUBSET (1 .. m - 1)
               /\ t # {} /\ m \notin t => t \ {Max(t)} \in SUBSET (1 .. m - 1)
    <3>1. m \in t => \A x \in t : m >= x
      OBVIOUS
    <3>2. m \in t => \A y \in t : (\A x \in t : y >= x) => y = m
      OBVIOUS
    <3>3. m \in t => Max(t) = m
      BY <3>1, <3>2 DEF Max
    <3>4. m \in t => t \ {m} \in SUBSET (1 .. m - 1)
      OBVIOUS
    <3>5. m \notin t => t \in SUBSET (1 .. m - 1)
      OBVIOUS
    <3>. QED
      BY <3>3, <3>4, <3>5
  <2>4. \A t \in SUBSET (1 .. m) : g[t] = IF m \in t THEN Op(kind, r, c, f[t \ {m}], s[m]) ELSE f[t]
    OBVIOUS
  <2>5. \A t \in SUBSET (1 .. m - 1) :
          /\ t \in SUBSET (1 .. m) /\ m \notin t
          /\ f[t] = IF t = {} THEN b ELSE Op(kind, r, c, f[t \ {Max(t)}], s[Max(t)])
    <3>1. \A t \in SUBSET (1 .. m - 1) :
            f[t] = IF t = {} THEN b ELSE Op(kind, r, c, f[t \ {Max(t)}], s[Max(t)])
      BY <2>2, Zenon
    <3>2. \A t \in SUBSET (1 .. m - 1) : t \in SUBSET (1 .. m) /\ m \notin t
      OBVIOUS
    <3>. QED
      BY <3>1, <3>2
  <2>. HIDE DEF g
  <2>6. ASSUME NEW t \in SUBSET (1 .. m)
        PROVE  g[t] = IF t = {} THEN b ELSE Op(kind, r, c, g[t \ {Max(t)}], s[Max(t)])
    <3>1. CASE m \in t
      <4>1. t # {} /\ t \ {m} \in SUBSET (1 .. m - 1) /\ Max(t) = m
        BY <3>1, <2>3
      <4>2. g[t] = Op(kind, r, c, f[t \ {m}], s[m]) /\ g[t \ {m}] = f[t \ {m}]
        BY <3>1, <4>1, <2>4, <2>5
      <4>. QED
        BY <4>1, <4>2
    <3>2. CASE m \notin t
      <4>1. t \in SUBSET (1 .. m - 1) /\ g[t] = f[t]
        BY <3>2, <2>3, <2>4
      <4>2. CASE t = {}
        BY <4>1, <4>2, <2>5
      <4>3. CASE t # {}
        <5>1. t \ {Max(t)} \in SUBSET (1 .. m - 1)
          BY <3>2, <4>3, <2>3
        <5>2. g[t \ {Max(t)}] = f[t \ {Max(t)}]
          BY <5>1, <2>4, <2>5
        <5>. QED
          BY <4>1, <4>3, <5>2, <2>5
      <4>. QED
        BY <4>2, <4>3
    <3>. QED
      BY <3>1, <3>2
  <2>7. Def(g, m)
    <3>1. g = [t \in SUBSET (1 .. m) |-> g[t]]
      BY DEF g
    <3>. QED
      BY <2>6, <3>1
  <2>8. \E f1 : Def(f1, m)
    BY <2>7
  <2>9. m \in 0 .. n
    BY <1>1
  <2>. HIDE DEF Def
  <2>. QED
    BY <2>8, <2>9
<1>4. \E f : Def(f, n)
  <2>. HIDE DEF G
  <2>1. \A k \in 0 .. n : k \in G
    BY <1>1, <1>2, <1>3, Induct
  <2>2. n \in G
    BY <1>1, <2>1
  <2>. HIDE DEF Def
  <2>. QED
    BY <2>2 DEF G
<1>. HIDE DEF G
<1>5. \E f : Loop(kind, r, c, b, s, f)
  <2>1. \A f : Def(f, n) <=> Loop(kind, r, c, b, s, f)
    BY <1>1 DEF Loop
  <2>. HIDE DEF Def
  <2>. QED
    BY <1>4, <2>1
<1>. DEFINE it == CHOOSE f : Loop(kind, r, c, b, s, f)
            h == [k \in 0 .. n |-> it[1 .. k]]
<1>6. Loop(kind, r, c, b, s, it)
  BY <1>5
<1>7. Fold(kind, r, c, b, s) = it[1 .. n]
  BY <1>1 DEF Fold
<1>. HIDE DEF it
<1>8. \A t \in SUBSET (1 .. n) :
        it[t] = IF t = {} THEN b ELSE Op(kind, r, c, it[t \ {Max(t)}], s[Max(t)])
  BY <1>1, <1>6 DEF Loop
<1>9. h[0] = b /\ h[n] = it[1 .. n]
  <2>1. 1 .. 0 = {} /\ {} \in SUBSET (1 .. n) /\ 0 \in 0 .. n /\ n \in 0 .. n
    BY <1>1
  <2>. QED
    BY <1>8, <2>1
<1>10. ASSUME NEW k \in 1 .. n PROVE h[k] = Op(kind, r, c, h[k - 1], s[k])
  <2>1. /\ Max(1 .. k) = k /\ (1 .. k) \ {k} = 1 .. (k - 1)
        /\ 1 .. k # {} /\ 1 .. k \in SUBSET (1 .. n)
    BY <1>1, LastOfInterval
  <2>2. k \in 0 .. n /\ k - 1 \in 0 .. n
    BY <1>1
  <2>3. it[1 .. k] = Op(kind, r, c, it[1 .. (k - 1)], s[k])
    BY <1>8, <2>1
  <2>. QED
    BY <2>2, <2>3
<1>. HIDE DEF h
<1>11. Walks(h, kind, r, c, b, s)
  BY <1>7, <1>9, <1>10 DEF Walks, n
<1>. QED
  BY <1>11

\* Two loops make the same steps.
Alike(kind, q, r, c, s) ==
  \A u : \A k \in 1 .. Len(s) : Op(kind, q, c, u, s[k]) = Op(kind, r, c, u, s[k])

\* They end the same.
LEMMA SameSteps ==
  ASSUME NEW kind, NEW r, NEW c, NEW b, NEW T, NEW s \in Seq(T), NEW q,
         Alike(kind, q, r, c, s)
  PROVE  Fold(kind, q, c, b, s) = Fold(kind, r, c, b, s)
<1>. DEFINE n == Len(s)
<1>1. n \in Nat
  OBVIOUS
<1>2. PICK h : Walks(h, kind, r, c, b, s)
  BY OneByOne
<1>3. PICK g : Walks(g, kind, q, c, b, s)
  BY OneByOne
<1>. DEFINE G == {k \in 0 .. n : g[k] = h[k]}
<1>4. 0 \in G
  BY <1>1, <1>2, <1>3 DEF Walks
<1>5. ASSUME NEW k \in 1 .. n, k - 1 \in G PROVE k \in G
  <2>1. g[k - 1] = h[k - 1] /\ k \in 0 .. n
    BY <1>1, <1>5
  <2>. QED
    BY <2>1, <1>2, <1>3 DEF Walks, Alike
<1>. HIDE DEF G, n
<1>6. \A k \in 0 .. n : k \in G
  BY <1>1, <1>4, <1>5, Induct
<1>7. g[n] = h[n]
  BY <1>1, <1>6 DEF G
<1>. QED
  BY <1>2, <1>3, <1>7 DEF Walks, n

\* A loop over one element more makes one step more.
LEMMA OneMore ==
  ASSUME NEW kind, NEW r, NEW c, NEW b, NEW T, NEW s \in Seq(T), NEW e \in T
  PROVE  Fold(kind, r, c, b, Append(s, e)) = Op(kind, r, c, Fold(kind, r, c, b, s), e)
<1>. DEFINE n == Len(s)
            l == Append(s, e)
<1>1. /\ n \in Nat /\ l \in Seq(T) /\ Len(l) = n + 1 /\ l[n + 1] = e
      /\ \A k \in 1 .. n : l[k] = s[k]
  OBVIOUS
<1>2. PICK h : Walks(h, kind, r, c, b, s)
  BY OneByOne
<1>. HIDE DEF l
<1>3. PICK g : Walks(g, kind, r, c, b, l)
  BY <1>1, OneByOne
<1>. DEFINE G == {k \in 0 .. n : g[k] = h[k]}
<1>4. 0 \in G
  BY <1>1, <1>2, <1>3 DEF Walks
<1>5. ASSUME NEW k \in 1 .. n, k - 1 \in G PROVE k \in G
  <2>1. g[k - 1] = h[k - 1] /\ k \in 0 .. n /\ k \in 1 .. n + 1
    BY <1>1, <1>5
  <2>. QED
    BY <2>1, <1>1, <1>2, <1>3 DEF Walks
<1>. HIDE DEF G, n
<1>6. \A k \in 0 .. n : k \in G
  BY <1>1, <1>4, <1>5, Induct
<1>7. g[n] = h[n]
  BY <1>1, <1>6 DEF G
<1>8. n + 1 \in 1 .. n + 1 /\ (n + 1) - 1 = n
  BY <1>1
<1>9. g[n + 1] = Op(kind, r, c, g[n], e)
  BY <1>1, <1>3, <1>8 DEF Walks
<1>. QED
  BY <1>1, <1>2, <1>3, <1>7, <1>9 DEF Walks, n, l

\* A loop over nothing does nothing.
LEMMA NoStep ==
  ASSUME NEW kind, NEW r, NEW c, NEW b
  PROVE  Fold(kind, r, c, b, << >>) = b
<1>. DEFINE z == << >>
<1>1. z \in Seq({}) /\ Len(z) = 0
  OBVIOUS
<1>. HIDE DEF z
<1>2. PICK h : Walks(h, kind, r, c, b, z)
  BY <1>1, OneByOne
<1>3. Fold(kind, r, c, b, z) = b
  BY <1>1, <1>2 DEF Walks
<1>. QED
  BY <1>3 DEF z

-----------------------------------------------------------------------------
(* Tables, and what the routines make of them.                             *)

Value == Default \cup {Nil}
Info == [offset : Nat, default : Value]
Layouts == UNION {[D -> Info] : D \in SUBSET Attr}

Shaped(t, N) ==
  t \in [classes : Seq(ClassName), parent : [N -> N], local : [N -> Seq(Attr)],
         attr : [N -> Layouts], next : [N -> Nat], table : [N -> N \cup {None}]]
Typed(t) == Shaped(t, DOMAIN t.parent) /\ Tree(t.classes, t.parent)

\* An attribute lies where it lies in the class above, and alone; and it is
\* declared in the class, or the class above has it.
Inherits(t, c) ==
  \A a \in DOMAIN t.attr[t.parent[c]] :
    a \in DOMAIN t.attr[c] /\ t.attr[c][a].offset = t.attr[t.parent[c]][a].offset
Apart(t, c) ==
  /\ \A a, b \in DOMAIN t.attr[c] : t.attr[c][a].offset = t.attr[c][b].offset => a = b
  /\ \A a \in DOMAIN t.attr[c] : t.attr[c][a].offset < t.next[c]
Accounted(t, c) ==
  /\ ToSet(t.local[c]) \subseteq DOMAIN t.attr[c]
  /\ \A a \in DOMAIN t.attr[c] :
       a \in ToSet(t.local[c]) \/ (c # Root /\ a \in DOMAIN t.attr[t.parent[c]])
LaidOut(t) == \A c \in DOMAIN t.parent : Inherits(t, c) /\ Apart(t, c) /\ Accounted(t, c)

\* What tables consist of.
LEMMA TypedIs ==
  ASSUME NamesAssumption, NEW t, Typed(t), NEW N, N = DOMAIN t.parent
  PROVE  /\ t.classes \in Seq(ClassName) /\ t.parent \in [N -> N] /\ t.local \in [N -> Seq(Attr)]
         /\ t.attr \in [N -> Layouts] /\ t.next \in [N -> Nat] /\ t.table \in [N -> N \cup {None}]
         /\ N = {Root} \cup ToSet(t.classes) /\ Root \in N /\ N \ {Root} \subseteq ClassName
         /\ None \notin N /\ Tree(t.classes, t.parent)
         /\ \A c \in N : /\ t.attr[c] \in [DOMAIN t.attr[c] -> Info]
                         /\ DOMAIN t.attr[c] \subseteq Attr
<1>1. Shaped(t, N) /\ Tree(t.classes, t.parent)
  BY DEF Typed
<1>2. N = {Root} \cup ToSet(t.classes) /\ ToSet(t.classes) \subseteq ClassName
  BY TreeIs DEF Typed, Tree
<1>3. \A l \in Layouts : l \in [DOMAIN l -> Info] /\ DOMAIN l \subseteq Attr
  BY DEF Layouts
<1>4. t.attr \in [N -> Layouts]
  BY <1>1 DEF Shaped
<1>5. \A c \in N : t.attr[c] \in [DOMAIN t.attr[c] -> Info] /\ DOMAIN t.attr[c] \subseteq Attr
  BY <1>3, <1>4
<1>6. None \notin N /\ Root \in N /\ N \ {Root} \subseteq ClassName
  BY <1>2 DEF NamesAssumption
<1>. QED
  BY <1>1, <1>2, <1>4, <1>5, <1>6 DEF Shaped

\* Tables with the same fields are the same.
LEMMA SameTables ==
  ASSUME NEW N, NEW M, NEW t, Shaped(t, N), NEW u, Shaped(u, M),
         t.classes = u.classes, t.parent = u.parent, t.local = u.local,
         t.attr = u.attr, t.next = u.next, t.table = u.table
  PROVE  t = u
<1>1. t = [classes |-> t.classes, parent |-> t.parent, local |-> t.local,
           attr |-> t.attr, next |-> t.next, table |-> t.table]
  BY DEF Shaped
<1>2. u = [classes |-> u.classes, parent |-> u.parent, local |-> u.local,
           attr |-> u.attr, next |-> u.next, table |-> u.table]
  BY DEF Shaped
<1>. QED
  BY <1>1, <1>2

\* The tables before the first declaration.
LEMMA RootTyped ==
  ASSUME NamesAssumption
  PROVE  /\ Typed(RootOnly) /\ LaidOut(RootOnly) /\ DOMAIN RootOnly.parent = {Root}
         /\ RootOnly.classes = << >> /\ RootOnly.table[Root] = None
         /\ RootOnly.parent[Root] = Root
<1>1. /\ RootOnly.parent = [x \in {Root} |-> Root] /\ RootOnly.local = [x \in {Root} |-> << >>]
      /\ RootOnly.attr = [x \in {Root} |-> << >>] /\ RootOnly.next = [x \in {Root} |-> 2]
      /\ RootOnly.table = [x \in {Root} |-> None] /\ RootOnly.classes = << >>
  BY DEF RootOnly, OfRoot, FirstUserOffset
<1>2. << >> \in Layouts /\ DOMAIN << >> = {}
  <2>1. << >> \in [{} -> Info]
    OBVIOUS
  <2>2. {} \in SUBSET Attr
    OBVIOUS
  <2>. QED
    BY <2>1, <2>2 DEF Layouts
<1>3. << >> \in Seq(ClassName) /\ << >> \in Seq(Attr) /\ Len(<< >>) = 0 /\ ToSet(<< >>) = {}
  BY <1>2 DEF ToSet
<1>4. Shaped(RootOnly, {Root})
  BY <1>2, <1>3 DEF RootOnly, OfRoot, FirstUserOffset, Shaped
<1>5. Tree(RootOnly.classes, RootOnly.parent)
  <2>1. 1 .. 0 = {}
    OBVIOUS
  <2>. QED
    BY <1>1, <1>3, <2>1 DEF Tree
<1>6. LaidOut(RootOnly)
  BY <1>1, <1>2, <1>3 DEF LaidOut, Inherits, Apart, Accounted
<1>. QED
  BY <1>1, <1>4, <1>5, <1>6 DEF Typed

\* A function with one argument more.
LEMMA WithIs ==
  ASSUME NEW N, NEW S, NEW f \in [N -> S], NEW c, c \notin N, NEW w \in S
  PROVE  /\ With(f, c, w) \in [N \cup {c} -> S] /\ With(f, c, w)[c] = w
         /\ \A x \in N : With(f, c, w)[x] = f[x]
BY DEF With

\* The tables v are t with the class c below p.
Created(t, v, c, p) ==
  /\ v.classes = Append(t.classes, c)
  /\ DOMAIN v.parent = DOMAIN t.parent \cup {c} /\ v.parent[c] = p
  /\ v.local[c] = << >> /\ v.attr[c] = t.attr[p] /\ v.next[c] = t.next[p]
  /\ v.table[c] = t.table[p]
  /\ \A x \in DOMAIN t.parent :
       /\ v.parent[x] = t.parent[x] /\ v.local[x] = t.local[x] /\ v.attr[x] = t.attr[x]
       /\ v.next[x] = t.next[x] /\ v.table[x] = t.table[x]

\* rul__decl_create_class makes such tables.
LEMMA CreatedIs ==
  ASSUME NamesAssumption, NEW t, Typed(t), NEW c \in ClassName, c \notin DOMAIN t.parent,
         NEW p \in DOMAIN t.parent, NEW v, v = CreateClassIn(t, c, p)
  PROVE  /\ Created(t, v, c, p) /\ Typed(v)
         /\ Grown(t.classes, t.parent, c, p, v.classes, v.parent)
<1>. DEFINE N == DOMAIN t.parent
<1>1. /\ t.classes \in Seq(ClassName) /\ t.parent \in [N -> N] /\ t.local \in [N -> Seq(Attr)]
      /\ t.attr \in [N -> Layouts] /\ t.next \in [N -> Nat] /\ t.table \in [N -> N \cup {None}]
      /\ Tree(t.classes, t.parent)
  BY TypedIs
<1>2. /\ v.classes = Append(t.classes, c) /\ v.parent = With(t.parent, c, p)
      /\ v.local = With(t.local, c, << >>) /\ v.attr = With(t.attr, c, t.attr[p])
      /\ v.next = With(t.next, c, t.next[p]) /\ v.table = With(t.table, c, t.table[p])
  BY DEF CreateClassIn
<1>3. Grown(t.classes, t.parent, c, p, v.classes, v.parent)
  <2>. DEFINE P == t.parent
              Q == v.parent
              s == t.classes
  <2>1. Tree(s, P) /\ p \in DOMAIN P /\ c \notin DOMAIN P /\ Q = With(P, c, p)
    BY <1>1, <1>2
  <2>2. v.classes = Append(s, c)
    BY <1>2
  <2>. HIDE DEF P, Q, s
  <2>3. Grown(s, P, c, p, Append(s, c), Q)
    BY <2>1, TreeGrows
  <2>. QED
    BY <2>2, <2>3 DEF P, Q, s
<1>5. Append(t.classes, c) \in Seq(ClassName)
  BY <1>1
<1>. DEFINE M == N \cup {c}
<1>6. /\ v.parent \in [M -> M] /\ v.parent[c] = p /\ \A x \in N : v.parent[x] = t.parent[x]
  BY <1>1, <1>2 DEF With
<1>7. /\ v.local \in [M -> Seq(Attr)] /\ v.local[c] = << >>
      /\ \A x \in N : v.local[x] = t.local[x]
  <2>1. << >> \in Seq(Attr)
    OBVIOUS
  <2>. QED
    BY <1>1, <1>2, <2>1 DEF With
<1>8. /\ v.attr \in [M -> Layouts] /\ v.attr[c] = t.attr[p]
      /\ \A x \in N : v.attr[x] = t.attr[x]
  <2>1. t.attr[p] \in Layouts
    BY <1>1
  <2>. QED
    BY <1>1, <1>2, <2>1 DEF With
<1>9. /\ v.next \in [M -> Nat] /\ v.next[c] = t.next[p] /\ \A x \in N : v.next[x] = t.next[x]
  <2>1. t.next[p] \in Nat
    BY <1>1
  <2>. QED
    BY <1>1, <1>2, <2>1 DEF With
<1>10. /\ v.table \in [M -> M \cup {None}] /\ v.table[c] = t.table[p]
       /\ \A x \in N : v.table[x] = t.table[x]
  <2>1. t.table[p] \in N \cup {None}
    BY <1>1
  <2>2. /\ v.table \in [N \cup {c} -> N \cup {None}] /\ v.table[c] = t.table[p]
        /\ \A x \in N : v.table[x] = t.table[x]
    <3>. QED
      BY <1>1, <1>2, <2>1 DEF With
  <2>. QED
    BY <2>2
<1>11. Shaped(v, M)
  <2>. HIDE DEF M, N
  <2>. QED
    BY <1>2, <1>5, <1>6, <1>7, <1>8, <1>9, <1>10 DEF CreateClassIn, Shaped
<1>12. DOMAIN v.parent = M
  BY <1>6
<1>. QED
  BY <1>2, <1>3, <1>6, <1>7, <1>8, <1>9, <1>10, <1>11, <1>12 DEF Created, Typed, Grown

\* A class begins with the layout of the class above it.
LEMMA CreatedLaidOut ==
  ASSUME NamesAssumption, NEW t, Typed(t), LaidOut(t), NEW c \in ClassName,
         c \notin DOMAIN t.parent, NEW p \in DOMAIN t.parent, NEW v, Created(t, v, c, p)
  PROVE  LaidOut(v)
<1>. DEFINE N == DOMAIN t.parent
<1>1. t.parent \in [N -> N] /\ Root \in N /\ c # Root /\ t.parent[Root] = Root
  BY TypedIs DEF Tree
<1>2. ToSet(<< >>) = {}
  BY DEF ToSet
<1>3. ASSUME NEW x \in N PROVE Inherits(v, x) /\ Apart(v, x) /\ Accounted(v, x)
  <2>1. /\ v.parent[x] = t.parent[x] /\ t.parent[x] \in N /\ v.local[x] = t.local[x]
        /\ v.attr[x] = t.attr[x] /\ v.next[x] = t.next[x]
        /\ v.attr[t.parent[x]] = t.attr[t.parent[x]]
    BY <1>1 DEF Created
  <2>2. Inherits(t, x) /\ Apart(t, x) /\ Accounted(t, x)
    BY DEF LaidOut
  <2>. QED
    BY <2>1, <2>2 DEF Inherits, Apart, Accounted
<1>4. Inherits(v, c) /\ Apart(v, c) /\ Accounted(v, c)
  <2>1. v.parent[c] = p /\ v.attr[c] = t.attr[p] /\ v.next[c] = t.next[p] /\ v.local[c] = << >>
        /\ v.attr[p] = t.attr[p]
    BY DEF Created
  <2>2. Apart(t, p)
    BY DEF LaidOut
  <2>. QED
    BY <1>1, <1>2, <2>1, <2>2 DEF Inherits, Apart, Accounted
<1>. QED
  BY <1>3, <1>4 DEF LaidOut, Created

\* The tables v are t with a declaration of a in the class c.
Added(t, v, c, a, default) ==
  /\ v.classes = t.classes /\ v.parent = t.parent /\ v.table = t.table
  /\ v.local[c] = Append(t.local[c], a)
  /\ DOMAIN v.attr[c] = DOMAIN t.attr[c] \cup {a}
  /\ \A b \in DOMAIN t.attr[c] \ {a} : v.attr[c][b] = t.attr[c][b]
  /\ \A x \in DOMAIN t.parent \ {c} :
       v.local[x] = t.local[x] /\ v.attr[x] = t.attr[x] /\ v.next[x] = t.next[x]
  /\ a \in DOMAIN t.attr[c] =>
       /\ v.next[c] = t.next[c] /\ v.attr[c][a].offset = t.attr[c][a].offset
       /\ v.attr[c][a].default = IF default = None THEN t.attr[c][a].default ELSE default
  /\ a \notin DOMAIN t.attr[c] =>
       /\ v.next[c] = t.next[c] + 1 /\ v.attr[c][a].offset = t.next[c]
       /\ v.attr[c][a].default = IF default = None THEN Nil ELSE default

\* rul__decl_add_attr_cur_class makes such tables.
LEMMA AddedIs ==
  ASSUME NamesAssumption, NEW t, Typed(t), NEW c \in DOMAIN t.parent, NEW a \in Attr,
         NEW default \in Value \cup {None}, NEW v, v = AddAttrIn(t, c, a, default)
  PROVE  Added(t, v, c, a, default) /\ Typed(v)
<1>. DEFINE N == DOMAIN t.parent
            l == t.attr[c]
<1>1. /\ t.classes \in Seq(ClassName) /\ t.parent \in [N -> N] /\ t.local \in [N -> Seq(Attr)]
      /\ t.attr \in [N -> Layouts] /\ t.next \in [N -> Nat] /\ t.table \in [N -> N \cup {None}]
      /\ Tree(t.classes, t.parent)
      /\ l \in [DOMAIN l -> Info] /\ DOMAIN l \subseteq Attr
  BY TypedIs
<1>2. t \in [classes : Seq(ClassName), parent : [N -> N], local : [N -> Seq(Attr)],
             attr : [N -> Layouts], next : [N -> Nat], table : [N -> N \cup {None}]]
  BY DEF Typed, Shaped
<1>. HIDE DEF N, l
<1>3. c \in N
  BY DEF N
<1>4. \A i1 \in Info : With(l, a, i1) \in Layouts
  <2>. SUFFICES ASSUME NEW i1 \in Info PROVE With(l, a, i1) \in Layouts
    OBVIOUS
  <2>1. With(l, a, i1) \in [DOMAIN l \cup {a} -> Info]
    BY <1>1 DEF With
  <2>2. DOMAIN l \cup {a} \in SUBSET Attr
    BY <1>1
  <2>. QED
    BY <2>1, <2>2 DEF Layouts
<1>5. ASSUME NEW m \in Layouts, NEW x \in Nat, NEW q \in Seq(Attr),
             v.classes = t.classes, v.parent = t.parent, v.table = t.table,
             v.local = [t.local EXCEPT ![c] = q], v.attr = [t.attr EXCEPT ![c] = m],
             v.next = [t.next EXCEPT ![c] = x],
             v = [t EXCEPT !.local = v.local, !.attr = v.attr, !.next = v.next]
      PROVE  /\ Typed(v) /\ v.local[c] = q /\ v.attr[c] = m /\ v.next[c] = x
             /\ \A y \in N \ {c} :
                  v.local[y] = t.local[y] /\ v.attr[y] = t.attr[y] /\ v.next[y] = t.next[y]
  <2>1. /\ v.local \in [N -> Seq(Attr)] /\ v.attr \in [N -> Layouts] /\ v.next \in [N -> Nat]
        /\ v.local[c] = q /\ v.attr[c] = m /\ v.next[c] = x
        /\ \A y \in N \ {c} :
             v.local[y] = t.local[y] /\ v.attr[y] = t.attr[y] /\ v.next[y] = t.next[y]
    BY <1>1, <1>3, <1>5
  <2>2. Shaped(v, N)
    BY <1>2, <1>5, <2>1 DEF Shaped
  <2>. QED
    BY <1>1, <1>5, <2>1, <2>2 DEF Typed, N
<1>6. Append(t.local[c], a) \in Seq(Attr)
  BY <1>1, <1>3
<1>7. CASE a \in DOMAIN l
  <2>. DEFINE entry == [offset |-> l[a].offset,
                        default |-> IF default = None THEN l[a].default ELSE default]
              m == With(l, a, entry)
  <2>1. v = [t EXCEPT !.local[c] = Append(@, a), !.attr[c] = m]
    BY <1>7 DEF AddAttrIn, InheritedAttr, l
  <2>2. l[a] \in Info
    BY <1>1, <1>7
  <2>3. m \in Layouts
    <3>0. entry \in Info
      BY <1>1, <1>7, <2>2 DEF Info, Value
    <3>. HIDE DEF entry
    <3>1. m \in [DOMAIN l -> Info]
      BY <1>1, <1>7, <3>0 DEF With
    <3>2. DOMAIN l \in SUBSET Attr
      BY <1>1
    <3>. QED
      BY <3>1, <3>2 DEF Layouts
  <2>4. /\ DOMAIN m = DOMAIN l \cup {a} /\ \A b \in DOMAIN l \ {a} : m[b] = l[b]
        /\ m[a].offset = l[a].offset
        /\ m[a].default = IF default = None THEN l[a].default ELSE default
    BY <1>7, <2>2 DEF Info, With
  <2>. HIDE DEF m
  <2>5. /\ v.classes = t.classes /\ v.parent = t.parent /\ v.table = t.table
        /\ v.local = [t.local EXCEPT ![c] = Append(t.local[c], a)]
        /\ v.attr = [t.attr EXCEPT ![c] = m] /\ v.next = t.next
        /\ v = [t EXCEPT !.local = v.local, !.attr = v.attr, !.next = v.next]
    BY <1>1, <1>2, <1>3, <2>1
  <2>6. v.next = [t.next EXCEPT ![c] = t.next[c]] /\ t.next[c] \in Nat
    BY <1>1, <1>3, <2>5
  <2>7. /\ Typed(v) /\ v.local[c] = Append(t.local[c], a) /\ v.attr[c] = m /\ v.next[c] = t.next[c]
        /\ \A y \in N \ {c} :
             v.local[y] = t.local[y] /\ v.attr[y] = t.attr[y] /\ v.next[y] = t.next[y]
    BY <1>5, <1>6, <2>3, <2>5, <2>6
  <2>. QED
    BY <1>7, <2>4, <2>5, <2>7 DEF Added, N, l
<1>8. CASE a \notin DOMAIN l
  <2>. DEFINE e == [offset |-> t.next[c], default |-> IF default = None THEN Nil ELSE default]
              m == With(l, a, e)
  <2>1. v = [t EXCEPT !.local[c] = Append(@, a), !.attr[c] = m, !.next[c] = @ + 1]
    BY <1>8 DEF AddAttrIn, NewAttr, l
  <2>2. t.next[c] \in Nat /\ e \in Info
    BY <1>1, <1>3 DEF Info, Value
  <2>3. m \in Layouts
    BY <1>4, <2>2
  <2>4. /\ DOMAIN m = DOMAIN l \cup {a} /\ \A b \in DOMAIN l \ {a} : m[b] = l[b]
        /\ m[a].offset = t.next[c]
        /\ m[a].default = IF default = None THEN Nil ELSE default
    BY DEF With
  <2>. HIDE DEF m
  <2>5. /\ v.classes = t.classes /\ v.parent = t.parent /\ v.table = t.table
        /\ v.local = [t.local EXCEPT ![c] = Append(t.local[c], a)]
        /\ v.attr = [t.attr EXCEPT ![c] = m] /\ v.next = [t.next EXCEPT ![c] = t.next[c] + 1]
        /\ v = [t EXCEPT !.local = v.local, !.attr = v.attr, !.next = v.next]
    BY <1>1, <1>2, <1>3, <2>1
  <2>6. t.next[c] + 1 \in Nat
    BY <2>2
  <2>7. /\ Typed(v) /\ v.local[c] = Append(t.local[c], a) /\ v.attr[c] = m /\ v.next[c] = t.next[c] + 1
        /\ \A y \in N \ {c} :
             v.local[y] = t.local[y] /\ v.attr[y] = t.attr[y] /\ v.next[y] = t.next[y]
    BY <1>5, <1>6, <2>3, <2>5, <2>6
  <2>. QED
    BY <1>8, <2>4, <2>5, <2>7 DEF Added, N, l
<1>. QED
  BY <1>7, <1>8

\* The first of a set of numbers.
LEMMA FirstOfSet ==
  ASSUME NEW t \in SUBSET Nat, t # {}
  PROVE  Min(t) \in t /\ \A x \in t : Min(t) <= x
<1>1. PICK k \in t : \A j1 \in t : ~(<<j1, k>> \in OpToRel(<, Nat))
  BY NatLessThanWellFounded, WFMin
<1>2. \A j1 \in t : ~(j1 < k)
  BY <1>1 DEF OpToRel
<1>3. \A j1 \in t : k <= j1
  BY <1>2
<1>. QED
  BY <1>3 DEF Min

\* A declaration in a class nothing is below yet.
LEMMA AddedLaidOut ==
  ASSUME NamesAssumption, NEW t, Typed(t), LaidOut(t), NEW c \in DOMAIN t.parent, c # Root,
         \A x \in DOMAIN t.parent : t.parent[x] # c, NEW a \in Attr, NEW default,
         NEW v, Added(t, v, c, a, default), Typed(v)
  PROVE  LaidOut(v)
<1>. DEFINE N == DOMAIN t.parent
<1>1. /\ t.parent \in [N -> N] /\ \A x \in N : t.parent[x] # c
      /\ v.parent = t.parent /\ t.next[c] \in Nat
      /\ \A x \in N : \A b \in DOMAIN t.attr[x] : t.attr[x][b].offset \in Nat
  <2>1. /\ t.parent \in [N -> N] /\ t.next \in [N -> Nat]
        /\ \A x \in N : t.attr[x] \in [DOMAIN t.attr[x] -> Info]
    BY TypedIs
  <2>. QED
    BY <2>1 DEF Added, Info
<1>2. ASSUME NEW x \in N, x # c PROVE Inherits(v, x) /\ Apart(v, x) /\ Accounted(v, x)
  <2>1. /\ v.local[x] = t.local[x] /\ v.attr[x] = t.attr[x] /\ v.next[x] = t.next[x]
        /\ t.parent[x] \in N \ {c} /\ v.attr[t.parent[x]] = t.attr[t.parent[x]]
    BY <1>1, <1>2 DEF Added
  <2>2. Inherits(t, x) /\ Apart(t, x) /\ Accounted(t, x)
    BY DEF LaidOut
  <2>. QED
    BY <1>1, <2>1, <2>2 DEF Inherits, Apart, Accounted
<1>. DEFINE p == t.parent[c]
            l == t.attr[c]
            m == v.attr[c]
<1>3. p \in N /\ v.attr[p] = t.attr[p] /\ v.parent[c] = p
  BY <1>1 DEF Added
<1>4. /\ \A b \in DOMAIN t.attr[p] : b \in DOMAIN l /\ l[b].offset = t.attr[p][b].offset
      /\ \A b, e \in DOMAIN l : l[b].offset = l[e].offset => b = e
      /\ \A b \in DOMAIN l : l[b].offset < t.next[c]
      /\ ToSet(t.local[c]) \subseteq DOMAIN l
      /\ \A b \in DOMAIN l : b \in ToSet(t.local[c]) \/ b \in DOMAIN t.attr[p]
  BY DEF LaidOut, Inherits, Apart, Accounted
<1>5. ToSet(v.local[c]) = ToSet(t.local[c]) \cup {a}
  <2>1. t.local[c] \in Seq(Attr) /\ v.local[c] = Append(t.local[c], a)
    BY TypedIs DEF Added
  <2>. DEFINE q == t.local[c]
  <2>. HIDE DEF q
  <2>2. q \in Seq(Attr) /\ v.local[c] = Append(q, a)
    BY <2>1 DEF q
  <2>3. /\ DOMAIN v.local[c] = 1 .. Len(q) + 1 /\ DOMAIN q = 1 .. Len(q)
        /\ v.local[c][Len(q) + 1] = a /\ \A k \in 1 .. Len(q) : v.local[c][k] = q[k]
        /\ 1 .. Len(q) + 1 = (1 .. Len(q)) \cup {Len(q) + 1}
    BY <2>2
  <2>4. ToSet(v.local[c]) = ToSet(q) \cup {a}
    BY <2>3 DEF ToSet
  <2>. QED
    BY <2>4 DEF q
<1>6. /\ DOMAIN m = DOMAIN l \cup {a} /\ \A b \in DOMAIN l : m[b].offset = l[b].offset
      /\ a \in DOMAIN l => v.next[c] = t.next[c]
      /\ a \notin DOMAIN l => v.next[c] = t.next[c] + 1 /\ m[a].offset = t.next[c]
  BY DEF Added
<1>7. \A b \in DOMAIN l : l[b].offset \in Nat
  BY <1>1
<1>. HIDE DEF p, l, m
<1>8. /\ \A b, e \in DOMAIN m : m[b].offset = m[e].offset => b = e
      /\ \A b \in DOMAIN m : m[b].offset < v.next[c]
  <2>1. CASE a \in DOMAIN l
    BY <1>4, <1>6, <2>1
  <2>2. CASE a \notin DOMAIN l
    <3>1. \A b \in DOMAIN l : m[b].offset # m[a].offset
      BY <1>4, <1>6, <1>7, <2>2, <1>1
    <3>2. \A b, e \in DOMAIN l : m[b].offset = m[e].offset => b = e
      BY <1>4, <1>6
    <3>3. \A b \in DOMAIN l : m[b].offset < v.next[c]
      BY <1>4, <1>6, <1>7, <2>2, <1>1
    <3>. QED
      BY <1>1, <1>6, <2>2, <3>1, <3>2, <3>3
  <2>. QED
    BY <2>1, <2>2
<1>9. /\ \A b \in DOMAIN t.attr[p] : b \in DOMAIN m /\ m[b].offset = t.attr[p][b].offset
      /\ ToSet(v.local[c]) \subseteq DOMAIN m
      /\ \A b \in DOMAIN m : b \in ToSet(v.local[c]) \/ b \in DOMAIN t.attr[p]
  BY <1>4, <1>5, <1>6
<1>10. Inherits(v, c) /\ Apart(v, c) /\ Accounted(v, c)
  BY <1>3, <1>8, <1>9 DEF Inherits, Apart, Accounted, m
<1>. QED
  BY <1>1, <1>2, <1>10 DEF LaidOut

\* A class has what every class above it has, where that has it.
LEMMA LaidOutBelow ==
  ASSUME NamesAssumption, NEW t, Typed(t), LaidOut(t), NEW c \in DOMAIN t.parent,
         NEW p, Below(t.parent, c, p), NEW a \in DOMAIN t.attr[p]
  PROVE  a \in DOMAIN t.attr[c] /\ t.attr[c][a].offset = t.attr[p][a].offset
<1>. DEFINE P == t.parent
            Has(x) == a \in DOMAIN t.attr[x] /\ t.attr[x][a].offset = t.attr[p][a].offset
            G == {x \in DOMAIN P : Below(P, x, p) => Has(x)}
<1>1. /\ Tree(t.classes, P) /\ DOMAIN P = {Root} \cup ToSet(t.classes)
      /\ \A x \in DOMAIN P : P[x] \in DOMAIN P
      /\ \A x \in DOMAIN P : \A b \in DOMAIN t.attr[P[x]] :
           b \in DOMAIN t.attr[x] /\ t.attr[x][b].offset = t.attr[P[x]][b].offset
  BY TreeIs DEF Typed, Tree, LaidOut, Inherits
<1>2. /\ \A x : Below(P, Root, x) <=> x = Root
      /\ \A x \in ToSet(t.classes) : \A y : Below(P, x, y) <=> y = x \/ Below(P, P[x], y)
  BY <1>1, BelowFacts
<1>3. Below(P, c, p) /\ c \in DOMAIN P /\ a \in DOMAIN t.attr[p]
  OBVIOUS
<1>. HIDE DEF P
<1>4. Root \in G
  BY <1>1, <1>2, <1>3
<1>5. ASSUME NEW x \in ToSet(t.classes), P[x] \in G PROVE x \in G
  BY <1>1, <1>2, <1>3, <1>5
<1>. HIDE DEF G
<1>6. \A x \in DOMAIN P : x \in G
  BY <1>1, <1>4, <1>5, OverClasses
<1>. QED
  BY <1>3, <1>6 DEF G

\* An attribute of a class is in the local list of the class or of one above it.
LEMMA DeclaredAbove ==
  ASSUME NamesAssumption, NEW t, Typed(t), LaidOut(t), NEW c \in DOMAIN t.parent,
         NEW a \in DOMAIN t.attr[c]
  PROVE  \E p \in DOMAIN t.parent : Below(t.parent, c, p) /\ a \in ToSet(t.local[p])
<1>. DEFINE P == t.parent
            G == {x \in DOMAIN P : a \in DOMAIN t.attr[x] =>
                    \E p \in DOMAIN P : Below(P, x, p) /\ a \in ToSet(t.local[p])}
<1>1. /\ Tree(t.classes, P) /\ DOMAIN P = {Root} \cup ToSet(t.classes) /\ Root \notin ToSet(t.classes)
      /\ \A x \in DOMAIN P : P[x] \in DOMAIN P
      /\ \A b \in DOMAIN t.attr[Root] : b \in ToSet(t.local[Root])
      /\ \A x \in ToSet(t.classes) : \A b \in DOMAIN t.attr[x] :
           b \in ToSet(t.local[x]) \/ b \in DOMAIN t.attr[P[x]]
  BY TreeIs DEF Typed, Tree, LaidOut, Accounted
<1>2. /\ \A x \in ToSet(t.classes) : \A y : Below(P, x, y) <=> y = x \/ Below(P, P[x], y)
      /\ \A x \in DOMAIN P : Below(P, x, x)
  BY <1>1, BelowFacts
<1>3. c \in DOMAIN P /\ a \in DOMAIN t.attr[c]
  OBVIOUS
<1>. HIDE DEF P
<1>4. Root \in G
  BY <1>1, <1>2
<1>5. ASSUME NEW x \in ToSet(t.classes), P[x] \in G PROVE x \in G
  BY <1>1, <1>2, <1>5
<1>. HIDE DEF G
<1>6. \A x \in DOMAIN P : x \in G
  BY <1>1, <1>4, <1>5, OverClasses
<1>. QED
  BY <1>3, <1>6 DEF G, P

\* The name found for the offset of an attribute is the attribute.
LEMMA NameFound ==
  ASSUME NamesAssumption, NEW t, Typed(t), LaidOut(t), NEW c \in DOMAIN t.parent,
         NEW a \in DOMAIN t.attr[c]
  PROVE  AttrName(t, c, t.attr[c][a].offset) = a
<1>. DEFINE P == t.parent
            o == t.attr[c][a].offset
            l == Lineage(P)[c]
            Has(p) == \E b \in ToSet(t.local[p]) : t.attr[p][b].offset = o
            I == {k \in 1 .. Len(l) : Has(l[k])}
            q == l[Min(I)]
            J == {k \in 1 .. Len(t.local[q]) : t.attr[q][t.local[q][k]].offset = o}
<1>1. /\ Tree(t.classes, P) /\ c \in DOMAIN P
      /\ \A x \in DOMAIN P : t.local[x] \in Seq(Attr) /\ ToSet(t.local[x]) \subseteq DOMAIN t.attr[x]
  <2>1. t.local \in [DOMAIN t.parent -> Seq(Attr)] /\ Tree(t.classes, P)
    BY TypedIs
  <2>. QED
    BY <2>1 DEF LaidOut, Accounted
<1>2. l \in Seq(DOMAIN P) /\ Len(l) \in Nat
  <2>1. Straight(P, Lineage(P), c)
    BY <1>1, LineageFacts
  <2>. QED
    BY <2>1 DEF Straight
<1>3. /\ \A p : Below(P, c, p) <=> \E k \in 1 .. Len(l) : l[k] = p
      /\ \A p : Below(P, c, p) => p \in DOMAIN P
  BY <1>1, BelowIs
<1>4. \A p \in DOMAIN P : Below(P, c, p) =>
        \A b \in ToSet(t.local[p]) : b \in DOMAIN t.attr[c] /\ t.attr[c][b].offset = t.attr[p][b].offset
  BY <1>1, LaidOutBelow
<1>5. PICK p \in DOMAIN P : Below(P, c, p) /\ a \in ToSet(t.local[p])
  BY DeclaredAbove
<1>6. \A b \in DOMAIN t.attr[c] : t.attr[c][b].offset = o => b = a
  BY DEF LaidOut, Apart
<1>7. a \in DOMAIN t.attr[c] /\ t.attr[c][a].offset = o
  OBVIOUS
<1>8. AttrName(t, c, o) =
        LET found == SelectInSeq(l, Has) IN IF found = 0 THEN None ELSE AttrNameHere(t, l[found], o)
  BY LineageIs DEF AttrName
<1>9. SelectInSeq(l, Has) = IF I # {} THEN Min(I) ELSE 0
  BY DEF SelectInSeq
<1>. HIDE DEF P, o, l
<1>10. I # {}
  <2>1. Has(p)
    BY <1>4, <1>5, <1>7
  <2>2. \E k \in 1 .. Len(l) : l[k] = p
    BY <1>3, <1>5
  <2>. QED
    BY <2>1, <2>2
<1>11. Min(I) \in I
  <2>1. I \in SUBSET Nat
    OBVIOUS
  <2>. HIDE DEF I
  <2>. QED
    BY <1>10, <2>1, FirstOfSet
<1>12. Min(I) \in 1 .. Len(l) /\ Has(q)
  BY <1>11
<1>13. q \in DOMAIN P /\ Below(P, c, q)
  BY <1>3, <1>12
<1>14. AttrName(t, c, o) = AttrNameHere(t, q, o)
  <2>. HIDE DEF I, Has
  <2>1. Min(I) # 0
    BY <1>2, <1>12
  <2>. QED
    BY <1>8, <1>9, <1>10, <2>1
<1>15. AttrNameHere(t, q, o) =
         LET here == IF J # {} THEN Min(J) ELSE 0 IN IF here = 0 THEN None ELSE t.local[q][here]
  BY DEF AttrNameHere, SelectInSeq
<1>. HIDE DEF q
<1>16. t.local[q] \in Seq(Attr)
  BY <1>1, <1>13
<1>17. J # {}
  <2>1. PICK b \in ToSet(t.local[q]) : t.attr[q][b].offset = o
    BY <1>12
  <2>2. PICK k \in DOMAIN t.local[q] : b = t.local[q][k]
    BY <2>1 DEF ToSet
  <2>3. DOMAIN t.local[q] = 1 .. Len(t.local[q])
    BY <1>16
  <2>. QED
    BY <2>1, <2>2, <2>3
<1>18. Min(J) \in J
  <2>1. J \in SUBSET Nat
    OBVIOUS
  <2>. HIDE DEF J
  <2>. QED
    BY <1>17, <2>1, FirstOfSet
<1>. DEFINE b == t.local[q][Min(J)]
<1>19. /\ Min(J) # 0 /\ t.attr[q][b].offset = o /\ b \in ToSet(t.local[q])
  <2>1. Min(J) \in 1 .. Len(t.local[q]) /\ t.attr[q][b].offset = o
    BY <1>18
  <2>2. DOMAIN t.local[q] = 1 .. Len(t.local[q])
    BY <1>16
  <2>. HIDE DEF J
  <2>. QED
    BY <2>1, <2>2 DEF ToSet
<1>20. b = a
  BY <1>4, <1>6, <1>13, <1>19
<1>21. AttrNameHere(t, q, o) = b
  <2>. HIDE DEF J
  <2>. QED
    BY <1>15, <1>17, <1>19
<1>. QED
  BY <1>14, <1>20, <1>21 DEF o

-----------------------------------------------------------------------------
(* The methods.                                                            *)

\* The tables t with the table f.
Tabled(t, f) == [t EXCEPT !.table = f]

\* Tables with another method table are tables.
LEMMA TabledIs ==
  ASSUME NamesAssumption, NEW t, Typed(t), NEW f \in [DOMAIN t.parent -> DOMAIN t.parent \cup {None}]
  PROVE  /\ Typed(Tabled(t, f)) /\ Tabled(t, f).table = f
         /\ Tabled(t, f).classes = t.classes /\ Tabled(t, f).parent = t.parent
         /\ Tabled(t, f).local = t.local /\ Tabled(t, f).attr = t.attr /\ Tabled(t, f).next = t.next
         /\ \A g : Tabled(Tabled(t, f), g) = Tabled(t, g)
<1>. DEFINE N == DOMAIN t.parent
            u == Tabled(t, f)
<1>1. t \in [classes : Seq(ClassName), parent : [N -> N], local : [N -> Seq(Attr)],
             attr : [N -> Layouts], next : [N -> Nat], table : [N -> N \cup {None}]]
  BY DEF Typed, Shaped
<1>2. f \in [N -> N \cup {None}]
  OBVIOUS
<1>. HIDE DEF N
<1>3. /\ u.table = f /\ u.classes = t.classes /\ u.parent = t.parent
      /\ u.local = t.local /\ u.attr = t.attr /\ u.next = t.next
  BY <1>1 DEF Tabled
<1>4. u \in [classes : Seq(ClassName), parent : [N -> N], local : [N -> Seq(Attr)],
             attr : [N -> Layouts], next : [N -> Nat], table : [N -> N \cup {None}]]
  BY <1>1, <1>2 DEF Tabled
<1>5. \A g : Tabled(u, g) = Tabled(t, g)
  BY <1>1 DEF Tabled
<1>. HIDE DEF u
<1>6. DOMAIN u.parent = N /\ Tree(u.classes, u.parent)
  BY <1>3 DEF Typed, N
<1>7. Typed(u)
  BY <1>4, <1>6 DEF Typed, Shaped
<1>. QED
  BY <1>3, <1>5, <1>7 DEF u

\* The table after a method of the class c.
Taken(t, c) == [x \in DOMAIN t.parent |-> IF Below(t.parent, x, c) THEN c ELSE t.table[x]]

\* The subclass test of the module is "is below".
LEMMA SubclassIs ==
  ASSUME NEW t, NEW c, NEW p
  PROVE  IsSubclassIn(t, c, p) <=> Below(t.parent, c, p)
BY LineageIs DEF IsSubclassIn, Below

\* An assignment to the method table of one class.
LEMMA TableSet ==
  ASSUME NamesAssumption, NEW t, Typed(t), NEW x \in DOMAIN t.parent, NEW c
  PROVE  [t EXCEPT !.table[x] = c] = Tabled(t, [t.table EXCEPT ![x] = c])
<1>. DEFINE N == DOMAIN t.parent
<1>1. t \in [classes : Seq(ClassName), parent : [N -> N], local : [N -> Seq(Attr)],
             attr : [N -> Layouts], next : [N -> Nat], table : [N -> N \cup {None}]]
  BY DEF Typed, Shaped
<1>. QED
  BY <1>1 DEF Tabled

\* A method replaces what its class and the classes below have, unless the
\* class has one already.
LEMMA FinishIs ==
  ASSUME NamesAssumption, NEW t, Typed(t), NEW c \in DOMAIN t.parent, c # Root,
         t.table[c] # None => Below(t.parent, c, t.table[c]) /\ t.table[c] # c
  PROVE  FinishMethod(t, c) = Tabled(t, Taken(t, c))
<1>. DEFINE P == t.parent
            N == DOMAIN P
            s == t.classes
            n == Len(s)
            At(k) == [x \in N |-> IF x = c \/ \E m \in 1 .. k : s[m] = x /\ Below(P, x, c)
                                  THEN c ELSE t.table[x]]
            b == AddClassMethod(t, c, c)
<1>1. /\ s \in Seq(ClassName) /\ n \in Nat /\ Tree(s, P) /\ N = {Root} \cup ToSet(s)
      /\ t.table \in [N -> N \cup {None}] /\ None \notin N /\ c \in N
      /\ \A k \in 1 .. n : s[k] \in N
      /\ \A x \in ToSet(s) : \E k \in 1 .. n : x = s[k]
  <2>1. /\ s \in Seq(ClassName) /\ Tree(s, P) /\ N = {Root} \cup ToSet(s)
        /\ t.table \in [N -> N \cup {None}] /\ None \notin N
    BY TypedIs
  <2>2. /\ n \in Nat /\ DOMAIN s = 1 .. n /\ \A x \in ToSet(s) : \E k \in 1 .. n : x = s[k]
    BY <2>1, TreeIs
  <2>3. \A k \in 1 .. n : s[k] \in ToSet(s)
    BY <2>2 DEF ToSet
  <2>. QED
    BY <2>1, <2>2, <2>3
<1>2. /\ \A p : Below(P, Root, p) <=> p = Root
      /\ Below(P, c, c)
      /\ \A x \in N : \A p : Below(P, x, p) /\ Below(P, p, x) => x = p
  BY <1>1, BelowFacts
<1>3. \A k : At(k) \in [N -> N \cup {None}]
  BY <1>1
<1>4. \A k : /\ Typed(Tabled(t, At(k))) /\ Tabled(t, At(k)).table = At(k)
             /\ Tabled(t, At(k)).parent = P
             /\ \A g : Tabled(Tabled(t, At(k)), g) = Tabled(t, g)
  <2>. HIDE DEF At
  <2>. QED
    BY <1>3, TabledIs
<1>5. b = Tabled(t, At(0))
  <2>1. b = [t EXCEPT !.table[c] = c]
    <3>1. ~(t.table[c] # None /\ IsSubclassIn(t, t.table[c], c))
      BY <1>2, SubclassIs
    <3>. QED
      BY <3>1 DEF AddClassMethod
  <2>2. b = Tabled(t, [t.table EXCEPT ![c] = c])
    BY <2>1, TableSet
  <2>3. [t.table EXCEPT ![c] = c] = At(0)
    BY <1>1
  <2>. QED
    BY <2>2, <2>3
<1>6. FinishMethod(t, c) = Fold("sub", t, c, b, s)
  BY FoldsAre DEF FinishMethod
<1>7. PICK h : Walks(h, "sub", t, c, b, s)
  BY <1>1, OneByOne
<1>8. h[0] = b /\ h[n] = FinishMethod(t, c) /\ \A k \in 1 .. n : h[k] = AddBelow(h[k - 1], c, s[k])
  BY <1>6, <1>7 DEF Walks, Op
<1>. DEFINE G == {k \in 0 .. n : h[k] = Tabled(t, At(k))}
<1>. HIDE DEF n, P, N, s, b
<1>9. 0 \in G
  <2>1. 0 \in 0 .. n
    BY <1>1
  <2>2. h[0] = Tabled(t, At(0))
    BY <1>5, <1>8
  <2>. HIDE DEF At
  <2>. QED
    BY <2>1, <2>2
<1>10. ASSUME NEW k \in 1 .. n, k - 1 \in G PROVE k \in G
  <2>. DEFINE u == Tabled(t, At(k - 1))
              x == s[k]
  <2>1. h[k - 1] = u /\ h[k] = AddBelow(u, c, x) /\ k \in 0 .. n
    BY <1>1, <1>8, <1>10
  <2>2. /\ Typed(u) /\ u.table = At(k - 1) /\ u.parent = P /\ \A g : Tabled(u, g) = Tabled(t, g)
    BY <1>4
  <2>3. x \in N /\ u.table[c] = c /\ c # None
    BY <1>1, <2>2
  <2>4. 1 .. k = (1 .. k - 1) \cup {k}
    OBVIOUS
  <2>. HIDE DEF u
  <2>5. CASE x # c /\ Below(P, x, c)
    <3>1. h[k] = AddClassMethod(u, c, x)
      BY <2>1, <2>2, <2>5, SubclassIs DEF AddBelow
    <3>2. ~Below(P, c, x)
      BY <1>2, <2>3, <2>5
    <3>3. h[k] = [u EXCEPT !.table[x] = c]
      BY <2>2, <2>3, <3>1, <3>2, SubclassIs DEF AddClassMethod
    <3>4. h[k] = Tabled(u, [u.table EXCEPT ![x] = c])
      <4>1. x \in DOMAIN u.parent
        BY <2>2, <2>3 DEF N
      <4>2. [u EXCEPT !.table[x] = c] = Tabled(u, [u.table EXCEPT ![x] = c])
        <5>. DEFINE M == DOMAIN u.parent
        <5>1. u \in [classes : Seq(ClassName), parent : [M -> M], local : [M -> Seq(Attr)],
                     attr : [M -> Layouts], next : [M -> Nat], table : [M -> M \cup {None}]]
          BY <2>2 DEF Typed, Shaped
        <5>. HIDE DEF x, At, M
        <5>. QED
          BY <5>1 DEF Tabled
      <4>. QED
        BY <3>3, <4>2
    <3>5. [u.table EXCEPT ![x] = c] = At(k)
      BY <2>2, <2>3, <2>4, <2>5
    <3>6. h[k] = Tabled(t, At(k))
      BY <2>2, <3>4, <3>5
    <3>. QED
      BY <2>1, <3>6
  <2>6. CASE ~(x # c /\ Below(P, x, c))
    <3>1. h[k] = u
      BY <2>1, <2>2, <2>6, SubclassIs DEF AddBelow
    <3>2. At(k - 1) = At(k)
      BY <2>4, <2>6
    <3>3. h[k] = Tabled(t, At(k))
      BY <3>1, <3>2 DEF u
    <3>. QED
      BY <2>1, <3>3
  <2>. QED
    BY <2>5, <2>6
<1>. HIDE DEF G
<1>11. \A k \in 0 .. n : k \in G
  BY <1>1, <1>9, <1>10, Induct
<1>12. h[n] = Tabled(t, At(n))
  <2>1. n \in G
    BY <1>1, <1>11
  <2>. QED
    BY <2>1 DEF G
<1>13. At(n) = Taken(t, c)
  <2>1. \A x \in N : Below(P, x, c) <=> x = c \/ \E m \in 1 .. n : s[m] = x /\ Below(P, x, c)
    <3>. SUFFICES ASSUME NEW x \in N, Below(P, x, c), x # c PROVE \E m \in 1 .. n : s[m] = x
      BY <1>2
    <3>1. x # Root
      BY <1>2
    <3>. QED
      BY <1>1, <3>1
  <2>. QED
    BY <2>1 DEF Taken, N, P
<1>. QED
  BY <1>8, <1>12, <1>13

\* Methods of different classes of the tree P.
MethodsOf(P, ms) ==
  /\ ms \in Seq([class : ClassName, generic : ClassName \cup {Root}])
  /\ \A k \in 1 .. Len(ms) : ms[k].class \in DOMAIN P
  /\ \A k, m \in 1 .. Len(ms) : ms[k].class = ms[m].class => k = m

\* What methods consist of.
LEMMA MethodsAre ==
  ASSUME NEW P, NEW ms, MethodsOf(P, ms)
  PROVE  /\ Len(ms) \in Nat /\ DOMAIN ms = 1 .. Len(ms)
         /\ \A k \in 1 .. Len(ms) : ms[k].class \in ClassName /\ ms[k].generic \in ClassName \cup {Root}
<1>. DEFINE R == [class : ClassName, generic : ClassName \cup {Root}]
<1>1. ms \in Seq(R)
  BY DEF MethodsOf
<1>2. Len(ms) \in Nat /\ DOMAIN ms = 1 .. Len(ms) /\ \A k \in 1 .. Len(ms) : ms[k] \in R
  <2>. HIDE DEF R
  <2>. QED
    BY <1>1
<1>3. \A e \in R : e.class \in ClassName /\ e.generic \in ClassName \cup {Root}
  OBVIOUS
<1>. QED
  BY <1>2, <1>3

\* Of the first k methods, y is the class of the last that is above x.
Found(P, ms, k, x, y) ==
  \/ y = None /\ \A m \in 1 .. k : ~Below(P, x, ms[m].class)
  \/ \E m \in 1 .. k : /\ y = ms[m].class /\ Below(P, x, y)
                       /\ \A q \in m + 1 .. k : ~Below(P, x, ms[q].class)
FoundIn(P, ms, k, f) == \A x \in DOMAIN P : Found(P, ms, k, x, f[x])

\* There is one last method above a class.
LEMMA FoundOnce ==
  ASSUME NamesAssumption, NEW s, NEW P, Tree(s, P), NEW ms, MethodsOf(P, ms),
         NEW x \in DOMAIN P, NEW y, NEW z,
         Found(P, ms, Len(ms), x, y), Found(P, ms, Len(ms), x, z)
  PROVE  y = z
<1>. DEFINE n == Len(ms)
<1>1. n \in Nat /\ \A k \in 1 .. n : ms[k].class # None
  BY MethodsAre DEF NamesAssumption
<1>2. /\ \/ y = None /\ \A m \in 1 .. n : ~Below(P, x, ms[m].class)
         \/ \E m \in 1 .. n : /\ y = ms[m].class /\ Below(P, x, y)
                              /\ \A q \in m + 1 .. n : ~Below(P, x, ms[q].class)
      /\ \/ z = None /\ \A m \in 1 .. n : ~Below(P, x, ms[m].class)
         \/ \E m \in 1 .. n : /\ z = ms[m].class /\ Below(P, x, z)
                              /\ \A q \in m + 1 .. n : ~Below(P, x, ms[q].class)
  BY DEF Found
<1>. HIDE DEF n
<1>3. CASE y = None /\ \A m \in 1 .. n : ~Below(P, x, ms[m].class)
  BY <1>2, <1>3
<1>4. CASE \E m \in 1 .. n : /\ y = ms[m].class /\ Below(P, x, y)
                             /\ \A q \in m + 1 .. n : ~Below(P, x, ms[q].class)
  <2>1. PICK m \in 1 .. n : /\ y = ms[m].class /\ Below(P, x, y)
                            /\ \A q \in m + 1 .. n : ~Below(P, x, ms[q].class)
    BY <1>4
  <2>2. PICK k \in 1 .. n : /\ z = ms[k].class /\ Below(P, x, z)
                            /\ \A q \in k + 1 .. n : ~Below(P, x, ms[q].class)
    BY <1>2, <2>1
  <2>3. ~(k \in m + 1 .. n) /\ ~(m \in k + 1 .. n)
    BY <2>1, <2>2
  <2>4. k = m
    BY <1>1, <2>3
  <2>. QED
    BY <2>1, <2>2, <2>4
<1>. QED
  BY <1>2, <1>3, <1>4

\* The next method takes its class and what is below it.
LEMMA FoundNext ==
  ASSUME NamesAssumption, NEW s, NEW P, Tree(s, P), NEW ms, MethodsOf(P, ms),
         NEW k \in 1 .. Len(ms), NEW f, FoundIn(P, ms, k - 1, f),
         NEW g, \A x \in DOMAIN P : g[x] = IF Below(P, x, ms[k].class) THEN ms[k].class ELSE f[x]
  PROVE  /\ FoundIn(P, ms, k, g)
         /\ f[ms[k].class] # None =>
              Below(P, ms[k].class, f[ms[k].class]) /\ f[ms[k].class] # ms[k].class
<1>. DEFINE c == ms[k].class
<1>1. /\ Len(ms) \in Nat /\ k \in Nat /\ c \in DOMAIN P
      /\ \A m \in 1 .. k - 1 : ms[m].class # c
  <2>1. ms \in Seq([class : ClassName, generic : ClassName \cup {Root}])
    BY DEF MethodsOf
  <2>2. Len(ms) \in Nat
    BY <2>1
  <2>3. \A m \in 1 .. k - 1 : m \in 1 .. Len(ms) /\ m # k
    BY <2>2
  <2>. QED
    BY <2>2, <2>3 DEF MethodsOf
<1>2. c \in DOMAIN P /\ (f[c] # None => Below(P, c, f[c]) /\ f[c] # c)
  BY <1>1 DEF FoundIn, Found
<1>3. ASSUME NEW x \in DOMAIN P PROVE Found(P, ms, k, x, g[x])
  <2>1. g[x] = IF Below(P, x, c) THEN c ELSE f[x]
    OBVIOUS
  <2>2. Found(P, ms, k - 1, x, f[x])
    BY DEF FoundIn
  <2>3. CASE Below(P, x, c)
    <3>1. k \in 1 .. k /\ k + 1 .. k = {}
      BY <1>1
    <3>. QED
      BY <2>1, <2>3, <3>1 DEF Found
  <2>4. CASE ~Below(P, x, c)
    <3>1. g[x] = f[x] /\ \A m \in 1 .. k : m \in 1 .. k - 1 \/ m = k
      BY <2>1, <2>4, <1>1
    <3>2. CASE f[x] = None /\ \A m \in 1 .. k - 1 : ~Below(P, x, ms[m].class)
      BY <2>4, <3>1, <3>2 DEF Found
    <3>3. ASSUME NEW m \in 1 .. k - 1, f[x] = ms[m].class, Below(P, x, f[x]),
                 \A q \in m + 1 .. k - 1 : ~Below(P, x, ms[q].class)
          PROVE  Found(P, ms, k, x, g[x])
      <4>1. m \in 1 .. k
        BY <1>1
      <4>2. \A q \in m + 1 .. k : ~Below(P, x, ms[q].class)
        <5>1. \A q \in m + 1 .. k : q \in m + 1 .. k - 1 \/ q = k
          BY <1>1
        <5>. QED
          BY <2>4, <3>3, <5>1
      <4>. QED
        BY <3>1, <3>3, <4>1, <4>2 DEF Found
    <3>. QED
      BY <2>2, <3>2, <3>3 DEF Found
  <2>. QED
    BY <2>3, <2>4
<1>. QED
  BY <1>2, <1>3 DEF FoundIn

\* What the methods make of tables without methods.
LEMMA MethodsReplayed ==
  ASSUME NamesAssumption, NEW t, Typed(t), \A x \in DOMAIN t.parent : t.table[x] = None,
         NEW ms, MethodsOf(t.parent, ms), NEW r, NEW c
  PROVE  \E f \in [DOMAIN t.parent -> DOMAIN t.parent \cup {None}] :
           /\ Fold("method", r, c, t, ms) = Tabled(t, f)
           /\ FoundIn(t.parent, ms, Len(ms), f)
<1>. DEFINE P == t.parent
            N == DOMAIN P
            n == Len(ms)
            F == [N -> N \cup {None}]
<1>1. /\ Tree(t.classes, P) /\ t.table \in F /\ Root \notin ClassName
      /\ ms \in Seq([class : ClassName, generic : ClassName \cup {Root}])
      /\ n \in Nat
      /\ \A k \in 1 .. n : ms[k].class \in N /\ ms[k].class \in ClassName
  <2>1. Tree(t.classes, P) /\ t.table \in F
    BY TypedIs
  <2>2. ms \in Seq([class : ClassName, generic : ClassName \cup {Root}])
    BY DEF MethodsOf
  <2>3. n \in Nat /\ \A k \in 1 .. n : ms[k].class \in ClassName
    BY MethodsAre
  <2>. QED
    BY <2>1, <2>2, <2>3 DEF MethodsOf, NamesAssumption
<1>2. PICK h : Walks(h, "method", r, c, t, ms)
  BY <1>1, OneByOne
<1>3. /\ h[0] = t /\ h[n] = Fold("method", r, c, t, ms)
      /\ \A k \in 1 .. n : h[k] = FinishMethod(h[k - 1], ms[k].class)
  BY <1>2 DEF Walks, Op
<1>. DEFINE G == {k \in 0 .. n : \E f \in F : h[k] = Tabled(t, f) /\ FoundIn(P, ms, k, f)}
<1>4. 0 \in G
  <2>1. t = Tabled(t, t.table)
    <3>1. t \in [classes : Seq(ClassName), parent : [N -> N], local : [N -> Seq(Attr)],
                 attr : [N -> Layouts], next : [N -> Nat], table : [N -> N \cup {None}]]
      BY DEF Typed, Shaped
    <3>. HIDE DEF N
    <3>. QED
      BY <3>1 DEF Tabled
  <2>2. FoundIn(P, ms, 0, t.table)
    BY DEF FoundIn, Found
  <2>3. 0 \in 0 .. n
    BY <1>1
  <2>. HIDE DEF F, n, P, N
  <2>. QED
    BY <1>1, <1>3, <2>1, <2>2, <2>3
<1>5. ASSUME NEW k \in 1 .. n, k - 1 \in G PROVE k \in G
  <2>1. PICK f \in F : h[k - 1] = Tabled(t, f) /\ FoundIn(P, ms, k - 1, f)
    BY <1>5
  <2>. DEFINE u == Tabled(t, f)
              e == ms[k].class
              g == Taken(u, e)
  <2>2. /\ Typed(u) /\ u.table = f /\ u.parent = P /\ \A w : Tabled(u, w) = Tabled(t, w)
    BY TabledIs
  <2>3. e \in N /\ e # Root /\ k \in 1 .. Len(ms)
    BY <1>1
  <2>4. g = [x \in N |-> IF Below(P, x, e) THEN e ELSE f[x]]
    BY <2>2 DEF Taken
  <2>. HIDE DEF u
  <2>5. /\ FoundIn(P, ms, k, g) /\ (f[e] # None => Below(P, e, f[e]) /\ f[e] # e)
    <3>1. \A x \in DOMAIN P : g[x] = IF Below(P, x, e) THEN e ELSE f[x]
      BY <2>4
    <3>2. Tree(t.classes, P) /\ MethodsOf(P, ms) /\ FoundIn(P, ms, k - 1, f)
      BY <1>1, <2>1
    <3>. HIDE DEF g, P, N, n
    <3>. QED
      BY <2>3, <3>1, <3>2, FoundNext
  <2>6. g \in F
    BY <2>3, <2>4
  <2>7. h[k] = Tabled(t, g)
    <3>1. h[k] = FinishMethod(u, e)
      BY <1>3, <2>1 DEF u
    <3>. HIDE DEF e
    <3>2. FinishMethod(u, e) = Tabled(u, g)
      BY <2>2, <2>3, <2>5, FinishIs
    <3>. QED
      BY <2>2, <3>1, <3>2
  <2>8. k \in 0 .. n
    BY <1>1
  <2>. HIDE DEF g, F, n
  <2>. QED
    BY <2>5, <2>6, <2>7, <2>8
<1>. HIDE DEF G
<1>6. \A k \in 0 .. n : k \in G
  BY <1>1, <1>4, <1>5, Induct
<1>7. n \in G
  BY <1>1, <1>6
<1>. QED
  BY <1>3, <1>7 DEF G

-----------------------------------------------------------------------------
(* What the generated program makes of the classes it loads.               *)

NoMethods(t) == [x \in DOMAIN t.parent |-> None]
Bare(t) == Tabled(t, NoMethods(t))

\* The classes of t, loaded again, are t without its methods.
Reloads(t) == Fold("class", t, Root, RootOnly, t.classes) = Bare(t)

\* Tables without their methods are tables.
LEMMA BareIs ==
  ASSUME NamesAssumption, NEW t, Typed(t)
  PROVE  /\ Typed(Bare(t)) /\ Bare(t).table = NoMethods(t)
         /\ Bare(t).classes = t.classes /\ Bare(t).parent = t.parent
         /\ Bare(t).local = t.local /\ Bare(t).attr = t.attr /\ Bare(t).next = t.next
         /\ \A g : Tabled(Bare(t), g) = Tabled(t, g)
<1>1. NoMethods(t) \in [DOMAIN t.parent -> DOMAIN t.parent \cup {None}]
  BY DEF NoMethods
<1>. QED
  BY <1>1, TabledIs DEF Bare

\* Functions with one domain and the same values are the same.
LEMMA SameValues ==
  ASSUME NEW N, NEW S, NEW f \in [N -> S], NEW R, NEW g \in [N -> R], \A x \in N : f[x] = g[x]
  PROVE  f = g
OBVIOUS

\* Two attributes with the same offset and default are the same.
LEMMA SameInfo ==
  ASSUME NEW e \in Info, NEW f \in Info, e.offset = f.offset, e.default = f.default
  PROVE  e = f
<1>1. e = [offset |-> e.offset, default |-> e.default] /\ f = [offset |-> f.offset, default |-> f.default]
  BY DEF Info
<1>. QED
  BY <1>1

\* A class is loaded by a loop over its local list.
LEMMA LoadIs ==
  ASSUME NEW r, NEW u, NEW c
  PROVE  LoadFrom(r, u, c) = Fold("attr", r, c, CreateClassIn(u, c, r.parent[c]), r.local[c])
BY FoldsAre DEF LoadFrom

\* Loading a class reads what is declared of that class.
LEMMA LoadSame ==
  ASSUME NEW r, NEW q, NEW c, q.parent[c] = r.parent[c], q.local[c] = r.local[c],
         q.attr[c] = r.attr[c], r.local[c] \in Seq(Attr), NEW u
  PROVE  LoadFrom(q, u, c) = LoadFrom(r, u, c)
<1>. DEFINE s == r.local[c]
            b == CreateClassIn(u, c, r.parent[c])
<1>1. Alike("attr", q, r, c, s)
  BY DEF Op, Alike
<1>2. s \in Seq(Attr)
  OBVIOUS
<1>. HIDE DEF s, b
<1>3. Fold("attr", q, c, b, s) = Fold("attr", r, c, b, s)
  BY <1>1, <1>2, SameSteps
<1>. QED
  BY <1>3, LoadIs DEF s, b

\* So does loading classes.
LEMMA LoadsSame ==
  ASSUME NEW r, NEW q, NEW s \in Seq(ClassName),
         \A k \in 1 .. Len(s) :
           /\ q.parent[s[k]] = r.parent[s[k]] /\ q.local[s[k]] = r.local[s[k]]
           /\ q.attr[s[k]] = r.attr[s[k]] /\ r.local[s[k]] \in Seq(Attr)
  PROVE  Fold("class", q, Root, RootOnly, s) = Fold("class", r, Root, RootOnly, s)
<1>1. ASSUME NEW w, NEW k \in 1 .. Len(s) PROVE LoadFrom(q, w, s[k]) = LoadFrom(r, w, s[k])
  <2>. DEFINE e == s[k]
  <2>1. q.parent[e] = r.parent[e] /\ q.local[e] = r.local[e] /\ q.attr[e] = r.attr[e]
        /\ r.local[e] \in Seq(Attr)
    OBVIOUS
  <2>. HIDE DEF e
  <2>2. LoadFrom(q, w, e) = LoadFrom(r, w, e)
    BY <2>1, LoadSame
  <2>. QED
    BY <2>2 DEF e
<1>2. Alike("class", q, r, Root, s)
  BY <1>1 DEF Op, Alike
<1>. HIDE DEF RootOnly
<1>. QED
  BY <1>2, SameSteps

\* The chain of the classes.
LEMMA ClassesAre ==
  ASSUME NamesAssumption, NEW t, Typed(t)
  PROVE  /\ t.classes \in Seq(ClassName) /\ Len(t.classes) \in Nat
         /\ \A k \in 1 .. Len(t.classes) :
              t.classes[k] \in DOMAIN t.parent /\ t.local[t.classes[k]] \in Seq(Attr)
         /\ \A k, m \in 1 .. Len(t.classes) : t.classes[k] = t.classes[m] => k = m
<1>1. /\ t.classes \in Seq(ClassName) /\ t.local \in [DOMAIN t.parent -> Seq(Attr)]
      /\ DOMAIN t.parent = {Root} \cup ToSet(t.classes) /\ Tree(t.classes, t.parent)
  BY TypedIs
<1>2. DOMAIN t.classes = 1 .. Len(t.classes) /\ Len(t.classes) \in Nat
  BY <1>1
<1>3. \A k \in 1 .. Len(t.classes) : t.classes[k] \in ToSet(t.classes)
  BY <1>2 DEF ToSet
<1>. QED
  BY <1>1, <1>2, <1>3 DEF Tree

\* Nothing declared is nothing loaded.
LEMMA RootReloads ==
  ASSUME NamesAssumption PROVE Reloads(RootOnly)
<1>1. Fold("class", RootOnly, Root, RootOnly, RootOnly.classes) = RootOnly
  BY RootTyped, NoStep
<1>2. /\ Typed(RootOnly) /\ Typed(Bare(RootOnly)) /\ Bare(RootOnly).table = NoMethods(RootOnly)
      /\ Bare(RootOnly).classes = RootOnly.classes /\ Bare(RootOnly).parent = RootOnly.parent
      /\ Bare(RootOnly).local = RootOnly.local /\ Bare(RootOnly).attr = RootOnly.attr
      /\ Bare(RootOnly).next = RootOnly.next
  BY RootTyped, BareIs
<1>3. RootOnly.table = NoMethods(RootOnly)
  BY RootTyped DEF RootOnly, OfRoot, NoMethods
<1>4. RootOnly = Bare(RootOnly)
  BY <1>2, <1>3, SameTables DEF Typed
<1>. QED
  BY <1>1, <1>4 DEF Reloads

\* The method table is not loaded with the classes.
LEMMA TabledReloads ==
  ASSUME NamesAssumption, NEW t, Typed(t), Reloads(t),
         NEW f \in [DOMAIN t.parent -> DOMAIN t.parent \cup {None}]
  PROVE  Reloads(Tabled(t, f))
<1>. DEFINE v == Tabled(t, f)
<1>1. /\ v.classes = t.classes /\ v.parent = t.parent /\ v.local = t.local /\ v.attr = t.attr
      /\ \A g : Tabled(v, g) = Tabled(t, g)
  BY TabledIs
<1>2. t.classes \in Seq(ClassName) /\ \A k \in 1 .. Len(t.classes) : t.local[t.classes[k]] \in Seq(Attr)
  BY ClassesAre
<1>. HIDE DEF v
<1>3. Fold("class", v, Root, RootOnly, t.classes) = Fold("class", t, Root, RootOnly, t.classes)
  BY <1>1, <1>2, LoadsSame
<1>4. Bare(v) = Bare(t)
  BY <1>1 DEF Bare, NoMethods
<1>. QED
  BY <1>1, <1>3, <1>4 DEF Reloads, v

\* A class that is declared is one class more to load.
LEMMA CreatedReloads ==
  ASSUME NamesAssumption, NEW t, Typed(t), Reloads(t), NEW c \in ClassName, c \notin DOMAIN t.parent,
         NEW p \in DOMAIN t.parent, NEW v, v = CreateClassIn(t, c, p)
  PROVE  Reloads(v)
<1>. DEFINE s == t.classes
            N == DOMAIN t.parent
            y == CreateClassIn(Bare(t), c, p)
<1>1. /\ s \in Seq(ClassName)
      /\ \A k \in 1 .. Len(s) : s[k] \in N /\ t.local[s[k]] \in Seq(Attr)
  BY ClassesAre
<1>2. Created(t, v, c, p) /\ Typed(v)
  BY CreatedIs
<1>3. /\ Typed(Bare(t)) /\ Bare(t).table = NoMethods(t)
      /\ Bare(t).classes = t.classes /\ Bare(t).parent = t.parent
      /\ Bare(t).local = t.local /\ Bare(t).attr = t.attr /\ Bare(t).next = t.next
  BY BareIs
<1>4. Created(Bare(t), y, c, p) /\ Typed(y)
  <2>1. Typed(Bare(t)) /\ c \notin DOMAIN Bare(t).parent /\ p \in DOMAIN Bare(t).parent
    BY <1>3
  <2>. HIDE DEF y
  <2>. QED
    BY <2>1, CreatedIs DEF y
<1>5. Fold("class", v, Root, RootOnly, s) = Bare(t)
  <2>1. \A k \in 1 .. Len(s) :
          /\ v.parent[s[k]] = t.parent[s[k]] /\ v.local[s[k]] = t.local[s[k]]
          /\ v.attr[s[k]] = t.attr[s[k]] /\ t.local[s[k]] \in Seq(Attr)
    BY <1>1, <1>2 DEF Created
  <2>. HIDE DEF s
  <2>2. Fold("class", v, Root, RootOnly, s) = Fold("class", t, Root, RootOnly, s)
    BY <1>1, <2>1, LoadsSame
  <2>. QED
    BY <2>2 DEF Reloads, s
<1>6. Fold("class", v, Root, RootOnly, Append(s, c)) = LoadFrom(v, Bare(t), c)
  <2>. HIDE DEF s
  <2>1. Fold("class", v, Root, RootOnly, Append(s, c)) = Op("class", v, Root, Bare(t), c)
    BY <1>1, <1>5, OneMore
  <2>. QED
    BY <2>1 DEF Op
<1>7. LoadFrom(v, Bare(t), c) = y
  <2>1. v.local[c] = << >> /\ v.parent[c] = p
    BY <1>2 DEF Created
  <2>. QED
    BY <2>1, LoadIs, NoStep
<1>8. y = Bare(v)
  <2>1. /\ Typed(Bare(v)) /\ Bare(v).table = NoMethods(v)
        /\ Bare(v).classes = v.classes /\ Bare(v).parent = v.parent
        /\ Bare(v).local = v.local /\ Bare(v).attr = v.attr /\ Bare(v).next = v.next
    BY <1>2, BareIs
  <2>2. y.classes = v.classes /\ y.parent = v.parent /\ y.local = v.local /\ y.attr = v.attr /\ y.next = v.next
    BY <1>3 DEF CreateClassIn
  <2>3. y.table = NoMethods(v)
    <3>1. DOMAIN y.parent = N \cup {c} /\ DOMAIN v.parent = N \cup {c}
      BY <1>2, <1>3, <1>4 DEF Created
    <3>2. y.table \in [N \cup {c} -> N \cup {c} \cup {None}]
      BY <1>4, <3>1, TypedIs
    <3>3. \A x \in N \cup {c} : y.table[x] = None
      BY <1>3, <1>4 DEF Created, NoMethods
    <3>. QED
      BY <3>1, <3>2, <3>3 DEF NoMethods
  <2>. HIDE DEF y
  <2>. QED
    BY <1>4, <2>1, <2>2, <2>3, SameTables DEF Typed
<1>. QED
  BY <1>2, <1>6, <1>7, <1>8 DEF Reloads, Created

\* A declaration in the class made last.
LEMMA AddedReloads ==
  ASSUME NamesAssumption, NEW t, Typed(t), LaidOut(t), Reloads(t),
         NEW s \in Seq(ClassName), NEW c \in ClassName, t.classes = Append(s, c),
         NEW a \in Attr, a \notin ToSet(t.local[c]), NEW default \in Default \cup {None},
         NEW v, v = AddAttrIn(t, c, a, default)
  PROVE  Reloads(v)
<1>. DEFINE N == DOMAIN t.parent
            n == Len(s)
            l == t.local[c]
            w == v.attr[c][a].default
            X == Fold("class", t, Root, RootOnly, s)
            b == CreateClassIn(X, c, t.parent[c])
            y == AddAttrIn(Bare(t), c, a, w)
<1>1. /\ n \in Nat /\ c \in N /\ l \in Seq(Attr)
      /\ \A k \in 1 .. n : s[k] \in N \ {c} /\ t.local[s[k]] \in Seq(Attr)
  <2>1. /\ \A k \in 1 .. Len(t.classes) :
              t.classes[k] \in N /\ t.local[t.classes[k]] \in Seq(Attr)
        /\ \A k, m \in 1 .. Len(t.classes) : t.classes[k] = t.classes[m] => k = m
    BY ClassesAre
  <2>2. /\ n \in Nat /\ Len(t.classes) = n + 1 /\ t.classes[n + 1] = c
        /\ \A k \in 1 .. n : t.classes[k] = s[k]
    OBVIOUS
  <2>3. n + 1 \in 1 .. n + 1 /\ \A k \in 1 .. n : k \in 1 .. n + 1 /\ k # n + 1
    BY <2>2
  <2>. HIDE DEF N, n
  <2>. QED
    BY <2>1, <2>2, <2>3
<1>2. default \in Value \cup {None} /\ None \notin Value
  BY DEF Value, NamesAssumption
<1>3. Added(t, v, c, a, default) /\ Typed(v)
  BY <1>1, <1>2, AddedIs
<1>4. /\ Typed(Bare(t)) /\ Bare(t).table = NoMethods(t)
      /\ Bare(t).classes = t.classes /\ Bare(t).parent = t.parent
      /\ Bare(t).local = t.local /\ Bare(t).attr = t.attr /\ Bare(t).next = t.next
  BY BareIs
<1>5. /\ v.parent = t.parent /\ v.classes = t.classes /\ v.local[c] = Append(l, a)
      /\ \A x \in N \ {c} : v.local[x] = t.local[x] /\ v.attr[x] = t.attr[x]
      /\ \A e \in DOMAIN t.attr[c] \ {a} : v.attr[c][e] = t.attr[c][e]
      /\ DOMAIN v.attr[c] = DOMAIN t.attr[c] \cup {a}
  BY <1>3 DEF Added
<1>6. Fold("class", v, Root, RootOnly, s) = X
  <2>1. \A k \in 1 .. Len(s) :
          /\ v.parent[s[k]] = t.parent[s[k]] /\ v.local[s[k]] = t.local[s[k]]
          /\ v.attr[s[k]] = t.attr[s[k]] /\ t.local[s[k]] \in Seq(Attr)
    BY <1>1, <1>5
  <2>. QED
    BY <2>1, LoadsSame
<1>7. /\ Fold("class", v, Root, RootOnly, v.classes) = LoadFrom(v, X, c)
      /\ LoadFrom(t, X, c) = Bare(t)
  <2>1. /\ Fold("class", v, Root, RootOnly, Append(s, c)) =
             Op("class", v, Root, Fold("class", v, Root, RootOnly, s), c)
        /\ Fold("class", t, Root, RootOnly, Append(s, c)) =
             Op("class", t, Root, Fold("class", t, Root, RootOnly, s), c)
    BY OneMore
  <2>2. Fold("class", t, Root, RootOnly, Append(s, c)) = Bare(t)
    BY DEF Reloads
  <2>3. v.classes = Append(s, c)
    BY <1>5
  <2>. HIDE DEF X
  <2>. QED
    BY <1>6, <2>1, <2>2, <2>3 DEF Op, X
<1>8. LoadFrom(v, X, c) = y
  <2>1. LoadFrom(v, X, c) = Fold("attr", v, c, b, Append(l, a))
    BY <1>5, LoadIs
  <2>2. LoadFrom(t, X, c) = Fold("attr", t, c, b, l)
    BY LoadIs
  <2>3. Alike("attr", v, t, c, l)
    <3>1. \A k \in 1 .. Len(l) : l[k] \in ToSet(l)
      BY <1>1 DEF ToSet
    <3>2. ToSet(l) \subseteq DOMAIN t.attr[c]
      BY <1>1 DEF LaidOut, Accounted
    <3>3. \A k \in 1 .. Len(l) : v.attr[c][l[k]].default = t.attr[c][l[k]].default
      BY <3>1, <3>2, <1>5
    <3>. QED
      BY <3>3 DEF Op, Alike
  <2>. HIDE DEF X, b, l
  <2>4. Fold("attr", v, c, b, l) = Fold("attr", t, c, b, l)
    BY <1>1, <2>3, SameSteps
  <2>5. Fold("attr", v, c, b, Append(l, a)) = Op("attr", v, c, Fold("attr", v, c, b, l), a)
    BY <1>1, OneMore
  <2>. QED
    BY <1>7, <2>1, <2>2, <2>4, <2>5 DEF Op
<1>9. y = Bare(v)
  <2>. DEFINE z == Bare(v)
              m == t.attr[c]
  <2>1. /\ Typed(z) /\ z.table = NoMethods(v) /\ z.classes = v.classes /\ z.parent = v.parent
        /\ z.local = v.local /\ z.attr = v.attr /\ z.next = v.next
    BY <1>3, BareIs
  <2>2. m \in [DOMAIN m -> Info]
    BY <1>1, TypedIs
  <2>3. w \in Value /\ w # None
    <3>1. a \in DOMAIN m => m[a].default \in Value
      BY <2>2 DEF Info
    <3>2. Nil \in Value
      BY DEF Value
    <3>. QED
      BY <1>2, <1>3, <3>1, <3>2 DEF Added
  <2>4. Added(Bare(t), y, c, a, w) /\ Typed(y)
    <3>1. c \in DOMAIN Bare(t).parent /\ w \in Value \cup {None}
      BY <1>1, <1>4, <2>3
    <3>. HIDE DEF w, y
    <3>. QED
      BY <1>4, <3>1, AddedIs DEF y
  <2>. HIDE DEF y, z, w
  <2>5. /\ y.classes = t.classes /\ y.parent = t.parent /\ y.table = NoMethods(t)
        /\ z.classes = t.classes /\ z.parent = t.parent /\ z.table = NoMethods(t)
    BY <1>4, <1>5, <2>1, <2>4 DEF Added, NoMethods
  <2>6. /\ y.local \in [N -> Seq(Attr)] /\ y.attr \in [N -> Layouts] /\ y.next \in [N -> Nat]
        /\ y.attr[c] \in [DOMAIN y.attr[c] -> Info]
    <3>1. DOMAIN y.parent = N
      BY <2>5
    <3>. HIDE DEF N
    <3>. QED
      BY <1>1, <2>4, <3>1, TypedIs
  <2>7. /\ z.local \in [N -> Seq(Attr)] /\ z.attr \in [N -> Layouts] /\ z.next \in [N -> Nat]
        /\ z.attr[c] \in [DOMAIN z.attr[c] -> Info]
    <3>1. DOMAIN z.parent = N
      BY <2>5
    <3>. HIDE DEF N
    <3>. QED
      BY <1>1, <2>1, <3>1, TypedIs
  <2>8. \A x \in N : y.local[x] = z.local[x] /\ y.next[x] = z.next[x]
    <3>1. \A x \in N \ {c} : y.local[x] = z.local[x] /\ y.next[x] = z.next[x]
      BY <1>3, <1>4, <2>1, <2>4 DEF Added
    <3>2. y.local[c] = z.local[c]
      BY <1>3, <1>4, <2>1, <2>4 DEF Added
    <3>3. y.next[c] = z.next[c]
      BY <1>3, <1>4, <2>1, <2>4 DEF Added
    <3>. QED
      BY <3>1, <3>2, <3>3
  <2>9. \A x \in N \ {c} : y.attr[x] = z.attr[x]
    BY <1>3, <1>4, <2>1, <2>4 DEF Added
  <2>10. y.attr[c] = z.attr[c]
    <3>1. /\ DOMAIN y.attr[c] = DOMAIN m \cup {a} /\ DOMAIN z.attr[c] = DOMAIN m \cup {a}
          /\ \A e \in DOMAIN m \ {a} : y.attr[c][e] = m[e] /\ z.attr[c][e] = m[e]
      BY <1>3, <1>4, <2>1, <2>4 DEF Added
    <3>2. /\ y.attr[c][a].offset = z.attr[c][a].offset
          /\ y.attr[c][a].default = w /\ z.attr[c][a].default = w
      BY <1>3, <1>4, <2>1, <2>3, <2>4 DEF Added, w
    <3>3. y.attr[c][a] \in Info /\ z.attr[c][a] \in Info
      BY <2>6, <2>7, <3>1
    <3>4. y.attr[c][a] = z.attr[c][a]
      BY <3>2, <3>3, SameInfo
    <3>. DEFINE M == DOMAIN m \cup {a}
    <3>5. y.attr[c] \in [M -> Info] /\ z.attr[c] \in [M -> Info]
      BY <2>6, <2>7, <3>1
    <3>6. \A e \in M : y.attr[c][e] = z.attr[c][e]
      BY <3>1, <3>4
    <3>. HIDE DEF M
    <3>. QED
      BY <3>5, <3>6, SameValues
  <2>11. y.local = z.local /\ y.next = z.next /\ y.attr = z.attr
    <3>1. \A x \in N : y.attr[x] = z.attr[x]
      BY <2>9, <2>10
    <3>. HIDE DEF N
    <3>2. y.local = z.local
      BY <2>6, <2>7, <2>8, SameValues
    <3>3. y.next = z.next
      BY <2>6, <2>7, <2>8, SameValues
    <3>4. y.attr = z.attr
      BY <2>6, <2>7, <3>1, SameValues
    <3>. QED
      BY <3>2, <3>3, <3>4
  <2>12. Shaped(y, DOMAIN y.parent) /\ Shaped(z, DOMAIN z.parent)
    BY <2>1, <2>4 DEF Typed
  <2>13. y = z
    BY <2>5, <2>11, <2>12, SameTables
  <2>. QED
    BY <2>13 DEF z
<1>. QED
  BY <1>7, <1>8, <1>9 DEF Reloads

-----------------------------------------------------------------------------
(* Generic methods, and the method of the nearest class.                   *)

\* No two of the generics conflict.
Conflict(t, g, c) == g = c \/ Root \in {g, c} \/ Family(t, g) = Family(t, c)
Separate(t, list) ==
  /\ list \in Seq(ClassName \cup {Root}) /\ \A k \in 1 .. Len(list) : list[k] \in DOMAIN t.parent
  /\ \A k, m \in 1 .. Len(list) : k # m => ~Conflict(t, list[k], list[m])

\* g is a generic above c, or there is none and g is None.
GenericOf(t, list, c, g) ==
  \/ g = None /\ \A k \in 1 .. Len(list) : ~Below(t.parent, c, list[k])
  \/ \E k \in 1 .. Len(list) : g = list[k] /\ Below(t.parent, c, list[k])

\* rul__decl_get_generic_method finds such a generic.
LEMMA GenericFound ==
  ASSUME NEW t, NEW list, Separate(t, list), NEW c
  PROVE  GenericOf(t, list, c, FindGeneric(t, list, c))
<1>. DEFINE I == {k \in 1 .. Len(list) : Below(t.parent, c, list[k])}
<1>1. FindGeneric(t, list, c) =
        LET found == IF I # {} THEN Min(I) ELSE 0 IN IF found = 0 THEN None ELSE list[found]
  BY SubclassIs DEF FindGeneric, SelectInSeq
<1>2. CASE I = {}
  BY <1>1, <1>2 DEF GenericOf
<1>3. CASE I # {}
  <2>1. Min(I) \in I
    <3>1. I \in SUBSET Nat
      OBVIOUS
    <3>. HIDE DEF I
    <3>. QED
      BY <1>3, <3>1, FirstOfSet
  <2>2. Min(I) \in 1 .. Len(list) /\ Below(t.parent, c, list[Min(I)])
    BY <2>1
  <2>3. Min(I) # 0
    <3>1. Len(list) \in Nat
      BY DEF Separate
    <3>. HIDE DEF I
    <3>. QED
      BY <2>2, <3>1
  <2>. HIDE DEF I
  <2>. QED
    BY <1>1, <1>3, <2>2, <2>3 DEF GenericOf
<1>. QED
  BY <1>2, <1>3

\* There is at most one generic above a class.
LEMMA OneGeneric ==
  ASSUME NamesAssumption, NEW t, Typed(t), NEW list, Separate(t, list), NEW c \in DOMAIN t.parent,
         NEW k \in 1 .. Len(list), Below(t.parent, c, list[k]),
         NEW m \in 1 .. Len(list), Below(t.parent, c, list[m])
  PROVE  k = m
<1>. SUFFICES ASSUME k # m PROVE FALSE
  OBVIOUS
<1>1. list[k] # Root /\ list[m] # Root /\ Family(t, list[k]) # Family(t, list[m])
  BY DEF Separate, Conflict
<1>. DEFINE P == t.parent
            s == t.classes
<1>2. Tree(s, P) /\ c \in DOMAIN P /\ t.parent = P /\ Below(P, c, list[k]) /\ Below(P, c, list[m])
  BY DEF Typed
<1>. HIDE DEF P, s
<1>3. Family(t, c) = Family(t, list[k])
  BY <1>1, <1>2, FamilyFacts
<1>4. Family(t, c) = Family(t, list[m])
  BY <1>1, <1>2, FamilyFacts
<1>. QED
  BY <1>1, <1>3, <1>4

\* A generic that is checked is separate from the others.
LEMMA CheckedGeneric ==
  ASSUME NEW t, NEW list, Separate(t, list), NEW c \in ClassName \cup {Root}, c \in DOMAIN t.parent,
         CheckAncestry(t, list, c)
  PROVE  Separate(t, Append(list, c))
<1>. DEFINE n == Len(list)
            l == Append(list, c)
<1>1. /\ list \in Seq(ClassName \cup {Root}) /\ n \in Nat /\ DOMAIN list = 1 .. n
      /\ l \in Seq(ClassName \cup {Root}) /\ Len(l) = n + 1 /\ l[n + 1] = c
      /\ \A k \in 1 .. n : l[k] = list[k]
  BY DEF Separate
<1>2. \A k \in 1 .. n : ~Conflict(t, list[k], c)
  BY <1>1 DEF CheckAncestry, ToSet, Conflict
<1>3. \A k, m \in 1 .. n : k # m => ~Conflict(t, list[k], list[m])
  BY DEF Separate
<1>4. \A g : Conflict(t, c, g) <=> Conflict(t, g, c)
  BY DEF Conflict
<1>5. \A k \in 1 .. n : list[k] \in DOMAIN t.parent
  BY DEF Separate
<1>. HIDE DEF n, l
<1>6. \A k \in 1 .. n + 1 : k \in 1 .. n \/ k = n + 1
  BY <1>1
<1>7. \A k, m \in 1 .. n + 1 : k # m => ~Conflict(t, l[k], l[m])
  BY <1>1, <1>2, <1>3, <1>4, <1>6
<1>8. \A k \in 1 .. n + 1 : l[k] \in DOMAIN t.parent
  BY <1>1, <1>5, <1>6
<1>. QED
  BY <1>1, <1>7, <1>8 DEF Separate, l

\* Each of the methods was checked against a generic above it.
Against(t, list, ms) ==
  \A k \in 1 .. Len(ms) : \E m \in 1 .. Len(list) :
    ms[k].generic = list[m] /\ Below(t.parent, ms[k].class, list[m])

\* What holds of methods and of generics when a class is added.
LEMMA FoundGrows ==
  ASSUME NEW s, NEW P, NEW c, NEW p, NEW u, NEW Q, Grown(s, P, c, p, u, Q),
         c \notin DOMAIN P, p \in DOMAIN P, NEW ms, MethodsOf(P, ms),
         NEW f, FoundIn(P, ms, Len(ms), f), NEW g, g[c] = f[p], \A x \in DOMAIN P : g[x] = f[x]
  PROVE  MethodsOf(Q, ms) /\ FoundIn(Q, ms, Len(ms), g)
<1>. DEFINE n == Len(ms)
<1>1. /\ DOMAIN Q = DOMAIN P \cup {c}
      /\ \A x \in DOMAIN P : \A y : Below(Q, x, y) <=> Below(P, x, y)
      /\ \A y : Below(Q, c, y) <=> y = c \/ Below(P, p, y)
  BY DEF Grown
<1>2. \A m \in 1 .. n : ms[m].class \in DOMAIN P /\ ms[m].class # c
  BY DEF MethodsOf
<1>3. MethodsOf(Q, ms)
  BY <1>1 DEF MethodsOf
<1>4. \A x \in DOMAIN P : Found(P, ms, n, x, f[x])
  BY DEF FoundIn
<1>5. n \in Nat
  BY MethodsAre
<1>. HIDE DEF n
<1>6. ASSUME NEW x \in DOMAIN P PROVE Found(Q, ms, n, x, g[x])
  <2>1. Found(P, ms, n, x, f[x]) /\ g[x] = f[x]
    BY <1>4
  <2>. QED
    BY <1>1, <2>1 DEF Found
<1>7. Found(Q, ms, n, c, g[c])
  <2>1. Found(P, ms, n, p, f[p]) /\ g[c] = f[p]
    BY <1>4
  <2>2. \A m \in 1 .. n : Below(Q, c, ms[m].class) <=> Below(P, p, ms[m].class)
    BY <1>1, <1>2
  <2>3. CASE f[p] = None /\ \A m \in 1 .. n : ~Below(P, p, ms[m].class)
    BY <2>1, <2>2, <2>3 DEF Found
  <2>4. ASSUME NEW m \in 1 .. n, f[p] = ms[m].class, Below(P, p, f[p]),
               \A q \in m + 1 .. n : ~Below(P, p, ms[q].class)
        PROVE  Found(Q, ms, n, c, g[c])
    <3>1. \A q \in m + 1 .. n : q \in 1 .. n
      BY <1>5
    <3>. QED
      BY <2>1, <2>2, <2>4, <3>1 DEF Found
  <2>. QED
    BY <2>1, <2>3, <2>4 DEF Found
<1>. QED
  BY <1>1, <1>3, <1>6, <1>7 DEF FoundIn, n

\* Generics stay separate when a class is added.
LEMMA GenericsGrow ==
  ASSUME NEW t, NEW v, NEW s, NEW c, NEW p, NEW u, Grown(s, t.parent, c, p, u, v.parent),
         NEW list, Separate(t, list), NEW ms, MethodsOf(t.parent, ms), Against(t, list, ms)
  PROVE  Separate(v, list) /\ Against(v, list, ms)
<1>. DEFINE P == t.parent
            Q == v.parent
<1>1. /\ DOMAIN Q = DOMAIN P \cup {c}
      /\ \A x \in DOMAIN P : Lineage(Q)[x] = Lineage(P)[x]
      /\ \A x \in DOMAIN P : \A y : Below(Q, x, y) <=> Below(P, x, y)
  BY DEF Grown
<1>2. \A x \in DOMAIN P : Family(v, x) = Family(t, x)
  BY <1>1, LineageIs DEF Family
<1>3. \A k \in 1 .. Len(list) : list[k] \in DOMAIN P
  BY DEF Separate
<1>4. \A k, m \in 1 .. Len(list) : Conflict(v, list[k], list[m]) <=> Conflict(t, list[k], list[m])
  BY <1>2, <1>3 DEF Conflict
<1>5. Separate(v, list)
  BY <1>1, <1>3, <1>4 DEF Separate
<1>6. \A k \in 1 .. Len(ms) : ms[k].class \in DOMAIN P
  BY DEF MethodsOf
<1>7. Against(v, list, ms)
  BY <1>1, <1>6 DEF Against
<1>. QED
  BY <1>5, <1>7

\* What is found among the methods does not depend on later ones.
LEMMA FoundBefore ==
  ASSUME NEW P, NEW ms, NEW q, NEW k \in Nat, \A m \in 1 .. k : q[m].class = ms[m].class,
         NEW f, FoundIn(P, ms, k, f)
  PROVE  FoundIn(P, q, k, f)
<1>. SUFFICES ASSUME NEW x \in DOMAIN P PROVE Found(P, q, k, x, f[x])
  BY DEF FoundIn
<1>1. Found(P, ms, k, x, f[x])
  BY DEF FoundIn
<1>2. CASE f[x] = None /\ \A m \in 1 .. k : ~Below(P, x, ms[m].class)
  BY <1>2 DEF Found
<1>3. ASSUME NEW m \in 1 .. k, f[x] = ms[m].class, Below(P, x, f[x]),
             \A e \in m + 1 .. k : ~Below(P, x, ms[e].class)
      PROVE  Found(P, q, k, x, f[x])
  <2>1. \A e \in m + 1 .. k : e \in 1 .. k
    OBVIOUS
  <2>. QED
    BY <1>3, <2>1 DEF Found
<1>. QED
  BY <1>1, <1>2, <1>3 DEF Found

-----------------------------------------------------------------------------
\* The class whose declaration is open is the last one, and nothing is below it.
OpenLast ==
  current # None =>
    /\ rt = None /\ current \in ClassName
    /\ \A x \in DOMAIN d.parent : d.parent[x] # current
    /\ \E s \in Seq(ClassName) : d.classes = Append(s, current)

DeclaredInv ==
  /\ Typed(d) /\ LaidOut(d) /\ Reloads(d)
  /\ OpenLast
  /\ MethodsOf(d.parent, methods) /\ FoundIn(d.parent, methods, Len(methods), d.table)
  /\ Separate(d, generics) /\ Against(d, generics, methods)
  /\ rt = None \/ rt = d

\* The empty block satisfies the invariant.
LEMMA DeclaredInit == ASSUME NamesAssumption, Init PROVE DeclaredInv
<1>1. /\ d = RootOnly /\ current = None /\ generics = << >> /\ methods = << >> /\ rt = None
  BY DEF Init
<1>2. /\ Typed(d) /\ LaidOut(d) /\ Reloads(d) /\ DOMAIN d.parent = {Root} /\ d.table[Root] = None
  BY <1>1, RootTyped, RootReloads
<1>3. MethodsOf(d.parent, methods)
  BY <1>1 DEF MethodsOf
<1>4. FoundIn(d.parent, methods, Len(methods), d.table)
  BY <1>1, <1>2 DEF FoundIn, Found
<1>5. Separate(d, generics) /\ Against(d, generics, methods)
  BY <1>1 DEF Separate, Against
<1>. QED
  BY <1>1, <1>2, <1>3, <1>4, <1>5 DEF DeclaredInv, OpenLast

\* OBJECT-CLASS keeps the invariant.
LEMMA ObjectClassInv ==
  ASSUME NamesAssumption, DeclaredInv, NEW c \in ClassName, NEW p \in DOMAIN d.parent, ObjectClass(c, p)
  PROVE  DeclaredInv'
<1>. DEFINE v == CreateClassIn(d, c, p)
            P == d.parent
<1>1. /\ d' = v /\ current' = c /\ rt' = None /\ generics' = generics /\ methods' = methods
      /\ c \notin DOMAIN P /\ Typed(d) /\ LaidOut(d) /\ Reloads(d)
  BY DEF ObjectClass, DeclaredInv
<1>. HIDE DEF v
<1>2. Created(d, v, c, p) /\ Typed(v) /\ Grown(d.classes, P, c, p, v.classes, v.parent)
  BY <1>1, CreatedIs DEF v
<1>3. LaidOut(v)
  BY <1>1, <1>2, CreatedLaidOut
<1>4. Reloads(v)
  BY <1>1, CreatedReloads DEF v
<1>5. MethodsOf(v.parent, methods) /\ FoundIn(v.parent, methods, Len(methods), v.table)
  <2>1. v.table[c] = d.table[p] /\ \A x \in DOMAIN P : v.table[x] = d.table[x]
    BY <1>2 DEF Created
  <2>2. MethodsOf(P, methods) /\ FoundIn(P, methods, Len(methods), d.table)
    BY DEF DeclaredInv
  <2>. QED
    BY <1>1, <1>2, <2>1, <2>2, FoundGrows
<1>6. Separate(v, generics) /\ Against(v, generics, methods)
  <2>1. Separate(d, generics) /\ Against(d, generics, methods) /\ MethodsOf(d.parent, methods)
    BY DEF DeclaredInv
  <2>. QED
    BY <1>2, <2>1, GenericsGrow
<1>7. /\ \A x \in DOMAIN v.parent : v.parent[x] # c
      /\ d.classes \in Seq(ClassName) /\ v.classes = Append(d.classes, c)
  <2>1. P \in [DOMAIN P -> DOMAIN P] /\ d.classes \in Seq(ClassName)
    BY <1>1, TypedIs
  <2>. QED
    BY <1>1, <1>2, <2>1 DEF Created
<1>8. OpenLast'
  BY <1>1, <1>7 DEF OpenLast
<1>. QED
  BY <1>1, <1>2, <1>3, <1>4, <1>5, <1>6, <1>8 DEF DeclaredInv

\* So does the declaration of an attribute,
LEMMA DeclareAttrInv ==
  ASSUME NamesAssumption, DeclaredInv, NEW a \in Attr, NEW default \in Default \cup {None},
         DeclareAttr(a, default)
  PROVE  DeclaredInv'
<1>. DEFINE c == current
            v == AddAttrIn(d, c, a, default)
<1>1. /\ d' = v /\ current' = c /\ rt' = None /\ rt = None /\ generics' = generics /\ methods' = methods
      /\ c \in ClassName /\ a \notin ToSet(d.local[c]) /\ current # None
      /\ Typed(d) /\ LaidOut(d) /\ Reloads(d)
  BY DEF DeclareAttr, DeclaredInv, OpenLast
<1>2. PICK s \in Seq(ClassName) : d.classes = Append(s, c)
  BY <1>1 DEF DeclaredInv, OpenLast
<1>3. (\A x \in DOMAIN d.parent : d.parent[x] # c) /\ c \in DOMAIN d.parent /\ c # Root
  <2>1. Len(d.classes) \in 1 .. Len(d.classes) /\ d.classes[Len(d.classes)] = c
    BY <1>1, <1>2
  <2>2. c \in DOMAIN d.parent
    BY <1>1, <2>1, ClassesAre
  <2>3. c # Root
    BY <1>1 DEF NamesAssumption
  <2>. QED
    BY <1>1, <2>2, <2>3 DEF DeclaredInv, OpenLast
<1>4. default \in Value \cup {None}
  BY DEF Value
<1>. HIDE DEF v, c
<1>5. Added(d, v, c, a, default) /\ Typed(v)
  BY <1>1, <1>3, <1>4, AddedIs DEF v
<1>6. LaidOut(v)
  BY <1>1, <1>3, <1>5, AddedLaidOut
<1>7. Reloads(v)
  BY <1>1, <1>2, AddedReloads DEF v
<1>8. v.parent = d.parent /\ v.classes = d.classes /\ v.table = d.table
  BY <1>5 DEF Added
<1>9. MethodsOf(v.parent, methods) /\ FoundIn(v.parent, methods, Len(methods), v.table)
  BY <1>8 DEF DeclaredInv
<1>10. Separate(v, generics) /\ Against(v, generics, methods)
  <2>1. \A x, y : Conflict(v, x, y) <=> Conflict(d, x, y)
    BY <1>8, LineageIs DEF Conflict, Family
  <2>. QED
    BY <1>8, <2>1 DEF DeclaredInv, Separate, Against
<1>11. OpenLast'
  BY <1>1, <1>2, <1>3, <1>8 DEF OpenLast
<1>. QED
  BY <1>1, <1>5, <1>6, <1>7, <1>9, <1>10, <1>11 DEF DeclaredInv

\* the end of a class,
LEMMA FinishClassInv ==
  ASSUME DeclaredInv, FinishClass PROVE DeclaredInv'
BY DEF DeclaredInv, FinishClass, OpenLast

\* a generic method,
LEMMA GenericMethodInv ==
  ASSUME NamesAssumption, DeclaredInv, NEW c \in DOMAIN d.parent, GenericMethod(c)
  PROVE  DeclaredInv'
<1>1. /\ d' = d /\ current' = current /\ rt' = rt /\ methods' = methods /\ rt = None /\ current = None
      /\ generics' = Append(generics, c) /\ CheckAncestry(d, generics, c)
      /\ Typed(d) /\ Separate(d, generics)
  BY DEF GenericMethod, DeclaredInv
<1>2. c \in ClassName \cup {Root}
  BY <1>1, TypedIs
<1>3. Separate(d, generics')
  BY <1>1, <1>2, CheckedGeneric
<1>4. Against(d, generics', methods)
  <2>1. generics \in Seq(ClassName \cup {Root})
    BY <1>1 DEF Separate
  <2>2. \A m \in 1 .. Len(generics) : m \in 1 .. Len(generics') /\ generics'[m] = generics[m]
    BY <1>1, <1>2, <2>1
  <2>. QED
    BY <2>2 DEF DeclaredInv, Against
<1>. QED
  BY <1>1, <1>3, <1>4 DEF DeclaredInv, OpenLast

\* A method and its generic; the method may be its own generic.
LEMMA GenericChosen ==
  ASSUME NamesAssumption, NEW t, Typed(t), NEW list, Separate(t, list),
         NEW c \in ClassName, c \in DOMAIN t.parent,
         FindGeneric(t, list, c) = None => CheckAncestry(t, list, c),
         NEW l, l = IF FindGeneric(t, list, c) = None THEN Append(list, c) ELSE list,
         NEW ms, Against(t, list, ms)
  PROVE  /\ Separate(t, l) /\ Against(t, l, ms)
         /\ \E k \in 1 .. Len(l) : FindGeneric(t, l, c) = l[k] /\ Below(t.parent, c, l[k])
<1>. DEFINE g == FindGeneric(t, list, c)
<1>1. list \in Seq(ClassName \cup {Root}) /\ GenericOf(t, list, c, g)
  BY GenericFound DEF Separate
<1>2. Below(t.parent, c, c)
  <2>. DEFINE P == t.parent
              s == t.classes
  <2>1. Tree(s, P) /\ c \in DOMAIN P
    BY DEF Typed
  <2>. HIDE DEF P, s
  <2>2. Below(P, c, c)
    BY <2>1, BelowFacts
  <2>. QED
    BY <2>2 DEF P
<1>. HIDE DEF g
<1>3. Separate(t, l)
  <2>1. g = None => Separate(t, Append(list, c))
    BY CheckedGeneric DEF g
  <2>. QED
    BY <2>1 DEF g
<1>4. Against(t, l, ms)
  <2>1. \A m \in 1 .. Len(list) : m \in 1 .. Len(l) /\ l[m] = list[m]
    <3>1. CASE g = None
      <4>1. l = Append(list, c)
        BY <3>1 DEF g
      <4>. QED
        BY <1>1, <4>1
    <3>2. CASE g # None
      BY <3>2 DEF g
    <3>. QED
      BY <3>1, <3>2
  <2>. QED
    BY <2>1 DEF Against
<1>5. GenericOf(t, l, c, FindGeneric(t, l, c))
  BY <1>3, GenericFound
<1>6. \E k \in 1 .. Len(l) : Below(t.parent, c, l[k])
  <2>1. CASE g = None
    <3>1. l = Append(list, c)
      BY <2>1 DEF g
    <3>2. Len(l) \in 1 .. Len(l) /\ l[Len(l)] = c
      BY <1>1, <3>1
    <3>. QED
      BY <1>2, <3>2
  <2>2. CASE g # None
    BY <1>1, <2>2 DEF g, GenericOf
  <2>. QED
    BY <2>1, <2>2
<1>. QED
  BY <1>3, <1>4, <1>5, <1>6 DEF GenericOf

\* A method, which may make its own generic, keeps the invariant.
LEMMA CheckMethodInv ==
  ASSUME NamesAssumption, DeclaredInv, NEW c \in DOMAIN d.parent, CheckMethod(c)
  PROVE  DeclaredInv'
<1>. DEFINE P == d.parent
            n == Len(methods)
            R == [class : ClassName, generic : ClassName \cup {Root}]
            e == methods'[n + 1]
<1>1. /\ current' = current /\ rt' = rt /\ rt = None /\ current = None
      /\ d' = FinishMethod(d, c) /\ c # Root
      /\ \A m \in DOMAIN methods : methods[m].class # c
      /\ FindGeneric(d, generics, c) = None => CheckAncestry(d, generics, c)
      /\ generics' = IF FindGeneric(d, generics, c) = None THEN Append(generics, c) ELSE generics
      /\ methods' = Append(methods, [class |-> c, generic |-> FindGeneric(d, generics', c)])
      /\ Typed(d) /\ LaidOut(d) /\ Reloads(d)
      /\ MethodsOf(P, methods) /\ FoundIn(P, methods, n, d.table)
      /\ Separate(d, generics) /\ Against(d, generics, methods)
  BY DEF CheckMethod, DeclaredInv
<1>2. c \in ClassName /\ Tree(d.classes, P) /\ d.table \in [DOMAIN P -> DOMAIN P \cup {None}]
  BY <1>1, TypedIs
<1>3. /\ Separate(d, generics') /\ Against(d, generics', methods)
      /\ \E k \in 1 .. Len(generics') :
           FindGeneric(d, generics', c) = generics'[k] /\ Below(P, c, generics'[k])
  BY <1>1, <1>2, GenericChosen
<1>4. FindGeneric(d, generics', c) \in ClassName \cup {Root}
  <2>1. generics' \in Seq(ClassName \cup {Root})
    BY <1>3 DEF Separate
  <2>. QED
    BY <1>3, <2>1
<1>5. methods \in Seq(R) /\ n \in Nat /\ DOMAIN methods = 1 .. n
  BY <1>1, MethodsAre DEF MethodsOf
<1>6. [class |-> c, generic |-> FindGeneric(d, generics', c)] \in R
  BY <1>2, <1>4
<1>7. /\ methods' \in Seq(R) /\ Len(methods') = n + 1 /\ \A m \in 1 .. n : methods'[m] = methods[m]
      /\ e.class = c /\ e.generic = FindGeneric(d, generics', c)
  <2>. HIDE DEF R
  <2>. QED
    BY <1>1, <1>5, <1>6
<1>. HIDE DEF P, n, R, e
<1>8. \A k \in 1 .. n + 1 : k \in 1 .. n \/ k = n + 1
  BY <1>5
<1>9. MethodsOf(P, methods')
  <2>1. \A k \in 1 .. n + 1 : methods'[k].class \in DOMAIN P
    BY <1>1, <1>7, <1>8 DEF MethodsOf, P, e, n
  <2>2. \A k, m \in 1 .. n + 1 : methods'[k].class = methods'[m].class => k = m
    <3>1. \A k, m \in 1 .. n : methods[k].class = methods[m].class => k = m
      BY <1>1 DEF MethodsOf, n
    <3>. QED
      BY <1>1, <1>5, <1>7, <1>8, <3>1 DEF e
  <2>. QED
    BY <1>7, <2>1, <2>2 DEF MethodsOf, R
<1>10. FoundIn(P, methods', n, d.table)
  <2>. DEFINE q == methods'
              ms == methods
              f == d.table
  <2>1. n \in Nat /\ FoundIn(P, ms, n, f) /\ \A m \in 1 .. n : q[m].class = ms[m].class
    BY <1>1, <1>5, <1>7
  <2>. HIDE DEF q, ms, f
  <2>2. FoundIn(P, q, n, f)
    BY <2>1, FoundBefore
  <2>. QED
    BY <2>2 DEF q, f
<1>. DEFINE f == Taken(d, c)
<1>11. /\ \A x \in DOMAIN P : f[x] = IF Below(P, x, c) THEN c ELSE d.table[x]
       /\ f \in [DOMAIN P -> DOMAIN P \cup {None}]
  BY <1>2 DEF Taken, P
<1>. HIDE DEF f
<1>12. /\ FoundIn(P, methods', n + 1, f)
       /\ d.table[c] # None => Below(P, c, d.table[c]) /\ d.table[c] # c
  <2>1. n + 1 \in 1 .. Len(methods') /\ (n + 1) - 1 = n /\ methods'[n + 1].class = c
    BY <1>5, <1>7 DEF e
  <2>. DEFINE k == n + 1
              ms == methods'
              g == d.table
              s == d.classes
  <2>2. FoundIn(P, ms, k - 1, g)
    BY <1>10, <2>1
  <2>3. \A x \in DOMAIN P : f[x] = IF Below(P, x, ms[k].class) THEN ms[k].class ELSE g[x]
    BY <1>11, <2>1
  <2>4. Tree(s, P) /\ MethodsOf(P, ms) /\ k \in 1 .. Len(ms)
    BY <1>2, <1>9, <2>1 DEF P
  <2>. HIDE DEF k, ms, g, s
  <2>5. /\ FoundIn(P, ms, k, f)
        /\ g[ms[k].class] # None => Below(P, ms[k].class, g[ms[k].class]) /\ g[ms[k].class] # ms[k].class
    BY <2>2, <2>3, <2>4, FoundNext
  <2>. QED
    BY <2>1, <2>5 DEF k, ms, g
<1>13. d' = Tabled(d, f)
  BY <1>1, <1>12, FinishIs DEF f, P
<1>14. /\ Typed(d') /\ d'.table = f /\ d'.classes = d.classes /\ d'.parent = P
       /\ d'.local = d.local /\ d'.attr = d.attr /\ d'.next = d.next /\ Reloads(d')
  BY <1>1, <1>11, <1>13, TabledIs, TabledReloads DEF P
<1>15. LaidOut(d')
  BY <1>1, <1>14 DEF LaidOut, Inherits, Apart, Accounted, P
<1>16. Separate(d', generics') /\ Against(d', generics', methods')
  <2>1. \A x, y : Conflict(d', x, y) <=> Conflict(d, x, y)
    BY <1>14, LineageIs DEF Conflict, Family, P
  <2>2. Separate(d', generics')
    BY <1>3, <1>14, <2>1 DEF Separate, P
  <2>3. \A k \in 1 .. n + 1 : \E m \in 1 .. Len(generics') :
          methods'[k].generic = generics'[m] /\ Below(P, methods'[k].class, generics'[m])
    BY <1>3, <1>7, <1>8 DEF Against, P, n, e
  <2>. QED
    BY <1>7, <1>14, <2>2, <2>3 DEF Against
<1>17. OpenLast'
  BY <1>1 DEF OpenLast
<1>. QED
  BY <1>1, <1>7, <1>9, <1>12, <1>14, <1>15, <1>16, <1>17 DEF DeclaredInv

\* The generated program makes the tables of the compiler again.
LEMMA EndBlockInv ==
  ASSUME NamesAssumption, DeclaredInv, EndBlock
  PROVE  DeclaredInv' /\ rt' = d
<1>1. /\ UNCHANGED <<d, current, generics, methods>> /\ rt = None /\ current = None
      /\ rt' = FoldLeft(LAMBDA u, x : FinishMethod(u, x.class),
                        FoldLeft(LAMBDA u, x : LoadFrom(d, u, x), RootOnly, d.classes), methods)
      /\ Typed(d) /\ Reloads(d) /\ MethodsOf(d.parent, methods)
      /\ FoundIn(d.parent, methods, Len(methods), d.table)
  BY DEF EndBlock, DeclaredInv, LoadClass
<1>. DEFINE X == FoldLeft(LAMBDA u, x : LoadFrom(d, u, x), RootOnly, d.classes)
<1>2. X = Bare(d)
  BY <1>1, FoldsAre DEF Reloads
<1>3. rt' = Fold("method", d, Root, Bare(d), methods)
  <2>1. rt' = FoldLeft(LAMBDA u, x : FinishMethod(u, x.class), X, methods)
    BY <1>1
  <2>. HIDE DEF X
  <2>2. FoldLeft(LAMBDA u, x : FinishMethod(u, x.class), X, methods) =
          Fold("method", d, Root, X, methods)
    BY FoldsAre
  <2>. QED
    BY <1>2, <2>1, <2>2
<1>4. /\ Typed(Bare(d)) /\ Bare(d).table = NoMethods(d) /\ Bare(d).parent = d.parent
      /\ \A g : Tabled(Bare(d), g) = Tabled(d, g)
  BY <1>1, BareIs
<1>. DEFINE P == d.parent
            b == Bare(d)
<1>5. /\ Typed(b) /\ b.parent = P /\ MethodsOf(b.parent, methods)
      /\ \A x \in DOMAIN b.parent : b.table[x] = None
  BY <1>1, <1>4 DEF NoMethods
<1>. HIDE DEF b
<1>6. PICK f \in [DOMAIN b.parent -> DOMAIN b.parent \cup {None}] :
        /\ Fold("method", d, Root, b, methods) = Tabled(b, f)
        /\ FoundIn(b.parent, methods, Len(methods), f)
  BY <1>5, MethodsReplayed
<1>7. f = d.table
  <2>1. d.table \in [DOMAIN P -> DOMAIN P \cup {None}] /\ Tree(d.classes, P)
    BY <1>1, TypedIs
  <2>2. f \in [DOMAIN P -> DOMAIN P \cup {None}]
    BY <1>5, <1>6
  <2>3. \A x \in DOMAIN P :
          Found(P, methods, Len(methods), x, f[x]) /\ Found(P, methods, Len(methods), x, d.table[x])
    BY <1>1, <1>5, <1>6 DEF FoundIn
  <2>. HIDE DEF P
  <2>4. MethodsOf(P, methods)
    BY <1>5
  <2>5. \A x \in DOMAIN P : f[x] = d.table[x]
    BY <2>1, <2>3, <2>4, FoundOnce
  <2>. QED
    BY <2>1, <2>2, <2>5, SameValues
<1>8. Tabled(d, d.table) = d
  <2>. DEFINE N == DOMAIN d.parent
  <2>1. d \in [classes : Seq(ClassName), parent : [N -> N], local : [N -> Seq(Attr)],
               attr : [N -> Layouts], next : [N -> Nat], table : [N -> N \cup {None}]]
    BY <1>1 DEF Typed, Shaped
  <2>. HIDE DEF N
  <2>. QED
    BY <2>1 DEF Tabled
<1>9. rt' = d
  BY <1>3, <1>4, <1>6, <1>7, <1>8 DEF b
<1>. QED
  BY <1>1, <1>9 DEF DeclaredInv, OpenLast

\* A step of another part leaves the tables alone.
LEMMA DeclaredStutter ==
  ASSUME DeclaredInv, UNCHANGED vars PROVE DeclaredInv'
BY DEF DeclaredInv, vars, OpenLast

\* No step of the compiler loses the invariant.
LEMMA DeclaredStep ==
  ASSUME NamesAssumption, DeclaredInv, [Next]_vars PROVE DeclaredInv'
BY ObjectClassInv, DeclareAttrInv, FinishClassInv, GenericMethodInv, CheckMethodInv,
   EndBlockInv, DeclaredStutter DEF Next

\* What the invariant says of layouts,
LEMMA LayoutFromInv == ASSUME DeclaredInv PROVE LayoutInherited
BY DEF DeclaredInv, LaidOut, Inherits, Apart, LayoutInherited, Classes

\* of the names of offsets,
LEMMA NamesFromInv == ASSUME NamesAssumption, DeclaredInv PROVE NameOfOffset
BY NameFound DEF DeclaredInv, NameOfOffset, Classes

\* of the generated program,
LEMMA AgreesFromInv == ASSUME DeclaredInv PROVE GeneratedAgrees
BY DEF DeclaredInv, GeneratedAgrees

\* The class in the table of a class is that of the last method above it.
LEMMA TableIs ==
  ASSUME NamesAssumption, DeclaredInv, NEW c \in DOMAIN d.parent
  PROVE  \/ /\ d.table[c] = None
            /\ \A m \in DOMAIN methods : ~Below(d.parent, c, methods[m].class)
         \/ \E m \in DOMAIN methods :
              /\ d.table[c] = methods[m].class /\ Below(d.parent, c, methods[m].class)
              /\ \A q \in DOMAIN methods : q > m => ~Below(d.parent, c, methods[q].class)
<1>. DEFINE n == Len(methods)
            P == d.parent
            y == d.table[c]
<1>1. Found(P, methods, n, c, y) /\ MethodsOf(P, methods)
  BY DEF DeclaredInv, FoundIn
<1>2. n \in Nat /\ DOMAIN methods = 1 .. n
  BY <1>1, MethodsAre
<1>. HIDE DEF n, P, y
<1>3. ASSUME NEW m \in 1 .. n, y = methods[m].class, Below(P, c, y),
             \A q \in m + 1 .. n : ~Below(P, c, methods[q].class)
      PROVE  \E k \in DOMAIN methods :
              /\ y = methods[k].class /\ Below(P, c, methods[k].class)
              /\ \A q \in DOMAIN methods : q > k => ~Below(P, c, methods[q].class)
  <2>1. \A q \in 1 .. n : q > m => q \in m + 1 .. n
    BY <1>2
  <2>. QED
    BY <1>2, <1>3, <2>1
<1>4. \/ y = None /\ \A m \in 1 .. n : ~Below(P, c, methods[m].class)
      \/ \E m \in 1 .. n : /\ y = methods[m].class /\ Below(P, c, y)
                           /\ \A q \in m + 1 .. n : ~Below(P, c, methods[q].class)
  BY <1>1 DEF Found
<1>5. \/ y = None /\ \A m \in DOMAIN methods : ~Below(P, c, methods[m].class)
      \/ \E m \in DOMAIN methods :
              /\ y = methods[m].class /\ Below(P, c, methods[m].class)
              /\ \A q \in DOMAIN methods : q > m => ~Below(P, c, methods[q].class)
  BY <1>2, <1>3, <1>4
<1>. QED
  BY <1>5 DEF P, y

\* of the generic a call is checked against,
LEMMA GenericFromInv == ASSUME NamesAssumption, DeclaredInv PROVE GenericFits
<1>. SUFFICES ASSUME NEW c \in DOMAIN d.parent, d.table[c] # None,
                     NEW m \in DOMAIN methods, methods[m].class = d.table[c]
              PROVE  FindGeneric(d, generics, c) = methods[m].generic
  BY DEF GenericFits, Classes
<1>. DEFINE P == d.parent
            e == methods[m].class
<1>1. /\ Typed(d) /\ Tree(d.classes, P) /\ Separate(d, generics) /\ Against(d, generics, methods)
      /\ DOMAIN methods = 1 .. Len(methods) /\ e \in DOMAIN P
  <2>1. MethodsOf(P, methods)
    BY DEF DeclaredInv
  <2>2. DOMAIN methods = 1 .. Len(methods)
    BY <2>1, MethodsAre
  <2>. QED
    BY <2>1, <2>2 DEF DeclaredInv, Typed, MethodsOf
<1>2. Below(P, c, e)
  BY TableIs
<1>3. PICK k \in 1 .. Len(generics) : methods[m].generic = generics[k] /\ Below(P, e, generics[k])
  BY <1>1 DEF Against
<1>4. Below(P, c, generics[k])
  <2>. DEFINE g == generics[k]
              s == d.classes
  <2>1. Tree(s, P) /\ c \in DOMAIN P /\ Below(P, c, e) /\ Below(P, e, g)
    BY <1>1, <1>2, <1>3
  <2>. HIDE DEF P, e, g, s
  <2>2. Below(P, c, g)
    BY <2>1, BelowFacts
  <2>. QED
    BY <2>2 DEF g
<1>5. GenericOf(d, generics, c, FindGeneric(d, generics, c))
  BY <1>1, GenericFound
<1>6. PICK q \in 1 .. Len(generics) :
        FindGeneric(d, generics, c) = generics[q] /\ Below(P, c, generics[q])
  BY <1>4, <1>5 DEF GenericOf
<1>7. q = k
  BY <1>1, <1>4, <1>6, OneGeneric
<1>. QED
  BY <1>3, <1>6, <1>7

\* and of the method a call finds.
LEMMA NearestFromInv == ASSUME NamesAssumption, DeclaredInv PROVE NearestUnlessLate
<1>. SUFFICES ASSUME ~DefinedLate, NEW c \in DOMAIN d.parent PROVE d.table[c] = MostSpecific(c)
  BY DEF NearestUnlessLate, Classes
<1>. DEFINE P == d.parent
            s == d.classes
            l == Lineage(P)[c]
            Has(p) == p \in {methods[m].class : m \in DOMAIN methods}
            I == {k \in 1 .. Len(l) : Has(l[k])}
<1>1. /\ Tree(s, P) /\ c \in DOMAIN P /\ MethodsOf(P, methods)
      /\ DOMAIN methods \subseteq Nat
      /\ \A m \in DOMAIN methods : methods[m].class \in DOMAIN P
  <2>1. Tree(s, P) /\ MethodsOf(P, methods)
    BY DEF DeclaredInv, Typed
  <2>2. DOMAIN methods = 1 .. Len(methods)
    BY <2>1, MethodsAre
  <2>. QED
    BY <2>1, <2>2 DEF MethodsOf
<1>2. l \in Seq(DOMAIN P) /\ Len(l) \in Nat
  <2>1. Straight(P, Lineage(P), c)
    BY <1>1, LineageFacts
  <2>. QED
    BY <2>1 DEF Straight
<1>3. \A p : Below(P, c, p) <=> \E k \in 1 .. Len(l) : l[k] = p
  BY <1>1, BelowIs
<1>4. MostSpecific(c) =
        LET found == IF I # {} THEN Min(I) ELSE 0 IN IF found = 0 THEN None ELSE l[found]
  BY LineageIs DEF MostSpecific, SelectInSeq
<1>5. ~DefinedLate <=> \A m, q \in DOMAIN methods :
        m < q => ~Below(P, methods[m].class, methods[q].class)
  BY SubclassIs DEF DefinedLate
<1>6. \/ d.table[c] = None /\ \A m \in DOMAIN methods : ~Below(P, c, methods[m].class)
      \/ \E m \in DOMAIN methods :
           /\ d.table[c] = methods[m].class /\ Below(P, c, methods[m].class)
           /\ \A q \in DOMAIN methods : q > m => ~Below(P, c, methods[q].class)
  BY TableIs
<1>7. CASE I = {}
  <2>1. \A m \in DOMAIN methods : ~Below(P, c, methods[m].class)
    BY <1>3, <1>7
  <2>. QED
    BY <1>4, <1>6, <1>7, <2>1
<1>8. CASE I # {}
  <2>. DEFINE f == Min(I)
  <2>1. f \in I /\ \A k \in I : f <= k
    <3>1. I \in SUBSET Nat
      OBVIOUS
    <3>. HIDE DEF I
    <3>. QED
      BY <1>8, <3>1, FirstOfSet
  <2>2. PICK a \in DOMAIN methods : f \in 1 .. Len(l) /\ l[f] = methods[a].class
    BY <2>1
  <2>3. MostSpecific(c) = l[f]
    <3>1. f # 0
      <4>. HIDE DEF f
      <4>. QED
        BY <1>2, <2>2
    <3>. HIDE DEF I
    <3>. QED
      BY <1>4, <1>8, <3>1
  <2>4. Below(P, c, methods[a].class)
    BY <1>3, <2>2
  <2>5. PICK m \in DOMAIN methods :
          /\ d.table[c] = methods[m].class /\ Below(P, c, methods[m].class)
          /\ \A q \in DOMAIN methods : q > m => ~Below(P, c, methods[q].class)
    BY <1>6, <2>4
  <2>6. PICK k \in 1 .. Len(l) : l[k] = methods[m].class
    BY <1>3, <2>5
  <2>7. f <= k
    <3>1. k \in I
      BY <2>6
    <3>. QED
      BY <2>1, <3>1
  <2>8. Below(P, methods[a].class, methods[m].class)
    <3>1. Below(P, Lineage(P)[c][f], Lineage(P)[c][k])
      <4>. HIDE DEF f, P, s
      <4>. QED
        BY <1>1, <2>2, <2>7, NearerFirst
    <3>. QED
      BY <2>2, <2>6, <3>1
  <2>9. a = m
    BY <1>1, <1>5, <2>4, <2>5, <2>8
  <2>. QED
    BY <2>2, <2>3, <2>5, <2>9
<1>. QED
  BY <1>7, <1>8

-----------------------------------------------------------------------------
\* What the tables of a block are at any time.
THEOREM DeclaredHolds == ASSUME NamesAssumption PROVE Spec => []DeclaredInv
BY DeclaredInit, DeclaredStep, PTL DEF Spec

\* A class has the layout and the names of the class above it, whatever is
\* declared and in which order, and the generated program makes the tables of
\* the compiler again (decl_cls.c, c_g_clas.c), for any classes and attributes.
THEOREM TablesKept ==
  ASSUME NamesAssumption
  PROVE  Spec => [](LayoutInherited /\ NameOfOffset /\ GeneratedAgrees)
<1>1. DeclaredInv => LayoutInherited /\ NameOfOffset /\ GeneratedAgrees
  BY LayoutFromInv, NamesFromInv, AgreesFromInv
<1>. QED
  BY <1>1, DeclaredHolds, PTL

\* A call finds the method of the nearest class that has one, unless a method
\* came after one of a subclass, and always a method that was checked against the
\* generic the call is checked against (rul__decl_finish_method,
\* sem_method_check_ancestry).
THEOREM MethodFound ==
  ASSUME NamesAssumption
  PROVE  Spec => [](NearestUnlessLate /\ GenericFits)
<1>1. DeclaredInv => NearestUnlessLate /\ GenericFits
  BY NearestFromInv, GenericFromInv
<1>. QED
  BY <1>1, DeclaredHolds, PTL

\* In the run of the three parts, the tables are what they are alone.
LEMMA RunDeclared == MCSpec => [](part = "tables" => DeclaredInv)
<1>. DEFINE J == part = "tables" => DeclaredInv
<1>1. MCInit => J
  BY DeclaredInit, DeclaredAssumption DEF MCInit
<1>2. J /\ [Encodes \/ Declares \/ CallsMethod]_mcVars => J'
  <2>. SUFFICES ASSUME J, [Encodes \/ Declares \/ CallsMethod]_mcVars, part' = "tables"
                PROVE  DeclaredInv'
    OBVIOUS
  <2>1. part = "tables" /\ [Next]_vars
    BY DEF Encodes, Declares, CallsMethod, mcVars, vars
  <2>. QED
    BY <2>1, DeclaredStep, DeclaredAssumption
<1>. QED
  BY <1>1, <1>2, PTL DEF MCSpec

\* Of the run: the layouts and names are inherited and the generated program
\* agrees with the compiler.
THEOREM RunTablesAgree == MCSpec => []TablesAgree
<1>1. (part = "tables" => DeclaredInv) => TablesAgree
  BY LayoutFromInv, NamesFromInv, AgreesFromInv, DeclaredAssumption DEF TablesAgree
<1>. QED
  BY <1>1, RunDeclared, PTL

\* Of the run: a call finds the nearest method, unless one came late, and the
\* generic it was checked against.
THEOREM RunMethodFound == MCSpec => []MostSpecificUnlessLate
<1>1. (part = "tables" => DeclaredInv) => MostSpecificUnlessLate
  BY NearestFromInv, GenericFromInv, DeclaredAssumption DEF MostSpecificUnlessLate
<1>. QED
  BY <1>1, RunDeclared, PTL

-----------------------------------------------------------------------------
(* The digits of a number                                                  *)

\* f is r of zero, and G of a number and of its value for the half.
HalvesBy(f, r, G) == f[0] = r /\ \A n \in Nat \ {0} : f[n] = G[<<n, f[n \div 2]>>]

\* A recursive function of the natural numbers that goes from a number to its half.
LEMMA HalvingRecursion ==
  ASSUME NEW V, NEW r \in V, NEW G \in [Nat \X V -> V]
  PROVE  \E f \in [Nat -> V] : HalvesBy(f, r, G)
<1>. DEFINE Def(g, k) == /\ g \in [0 .. k -> V] /\ g[0] = r
                         /\ \A n \in 1 .. k : g[n] = G[<<n, g[n \div 2]>>]
<1>1. ASSUME NEW k \in Nat PROVE \E g : Def(g, k)
  <2>. DEFINE H == {m \in 0 .. k : \E g : Def(g, m)}
  <2>1. 0 \in H
    <3>1. Def([x \in 0 .. 0 |-> r], 0)
      OBVIOUS
    <3>. HIDE DEF Def
    <3>. QED
      BY <3>1
  <2>2. ASSUME NEW m \in 1 .. k, m - 1 \in H PROVE m \in H
    <3>1. PICK g : Def(g, m - 1)
      BY <2>2
    <3>. DEFINE h == [x \in 0 .. m |-> IF x = m THEN G[<<m, g[m \div 2]>>] ELSE g[x]]
    <3>2. m \div 2 \in 0 .. m - 1
      OBVIOUS
    <3>3. g \in [0 .. m - 1 -> V] /\ G[<<m, g[m \div 2]>>] \in V
      BY <3>1, <3>2
    <3>4. h \in [0 .. m -> V] /\ h[0] = r /\ h[m] = G[<<m, g[m \div 2]>>]
          /\ \A x \in 0 .. m - 1 : h[x] = g[x]
      BY <3>1, <3>3
    <3>. HIDE DEF h
    <3>5. ASSUME NEW n \in 1 .. m PROVE h[n] = G[<<n, h[n \div 2]>>]
      <4>1. n \div 2 \in 0 .. n - 1
        OBVIOUS
      <4>2. h[n \div 2] = g[n \div 2]
        BY <3>4, <4>1
      <4>3. CASE n = m
        BY <3>4, <4>2, <4>3
      <4>4. CASE n # m
        BY <3>1, <3>4, <4>2, <4>4
      <4>. QED
        BY <4>3, <4>4
    <3>6. Def(h, m)
      BY <3>4, <3>5
    <3>. HIDE DEF Def
    <3>. QED
      BY <3>6
  <2>. HIDE DEF H
  <2>3. k \in H
    BY <2>1, <2>2, Induct
  <2>. QED
    BY <2>3 DEF H
<1>2. ASSUME NEW k \in Nat, NEW m \in Nat, NEW g, NEW h, Def(g, k), Def(h, m), k <= m
      PROVE  \A x \in 0 .. k : g[x] = h[x]
  <2>. DEFINE H == {x \in 0 .. k : \A y \in 0 .. x : g[y] = h[y]}
  <2>1. 0 \in H
    BY <1>2
  <2>2. ASSUME NEW x \in 1 .. k, x - 1 \in H PROVE x \in H
    <3>1. x \div 2 \in 0 .. x - 1 /\ x \in 1 .. m
      BY <1>2
    <3>2. g[x \div 2] = h[x \div 2]
      BY <2>2, <3>1
    <3>3. g[x] = h[x]
      BY <1>2, <3>1, <3>2
    <3>. QED
      BY <2>2, <3>3
  <2>. HIDE DEF H
  <2>3. \A x \in 0 .. k : x \in H
    BY <2>1, <2>2, Induct
  <2>. QED
    BY <2>3 DEF H
<1>. DEFINE g(k) == CHOOSE h : Def(h, k)
            f == [n \in Nat |-> g(n)[n]]
<1>. HIDE DEF Def
<1>3. \A k \in Nat : Def(g(k), k)
  BY <1>1
<1>. HIDE DEF g
<1>4. f \in [Nat -> V] /\ f[0] = r
  BY <1>3 DEF Def
<1>5. ASSUME NEW n \in Nat \ {0} PROVE f[n] = G[<<n, f[n \div 2]>>]
  <2>. DEFINE m == n \div 2
  <2>1. m \in Nat /\ m <= n
    OBVIOUS
  <2>. HIDE DEF m
  <2>2. \A x \in 0 .. m : g(m)[x] = g(n)[x]
    BY <1>2, <1>3, <2>1
  <2>3. g(m)[m] = g(n)[m]
    BY <2>1, <2>2
  <2>4. g(n)[n] = G[<<n, g(n)[m]>>]
    BY <1>3 DEF Def, m
  <2>. QED
    BY <2>1, <2>3, <2>4 DEF m
<1>6. HalvesBy(f, r, G)
  BY <1>4, <1>5 DEF HalvesBy
<1>. QED
  BY <1>4, <1>6

\* The digits of a number are those of its half, moved, and the last one.
LEMMA DigitsAre ==
  /\ Hierarchy!Digits \in [Nat -> SUBSET Nat]
  /\ Hierarchy!Digits[0] = {}
  /\ \A n \in Nat \ {0} : Hierarchy!Digits[n] =
       (IF n % 2 = 1 THEN {0} ELSE {}) \cup {b + 1 : b \in Hierarchy!Digits[n \div 2]}
<1>. DEFINE Step(n, s) == (IF n % 2 = 1 THEN {0} ELSE {}) \cup {b + 1 : b \in s}
            G == [x \in Nat \X SUBSET Nat |-> Step(x[1], x[2])]
            Def(f) == f = [n \in Nat |-> IF n = 0 THEN {} ELSE Step(n, f[n \div 2])]
<1>1. G \in [Nat \X SUBSET Nat -> SUBSET Nat]
  OBVIOUS
<1>2. \A n \in Nat, s \in SUBSET Nat : G[<<n, s>>] = Step(n, s)
  OBVIOUS
<1>. HIDE DEF G, Step
<1>3. PICK f \in [Nat -> SUBSET Nat] :
        f[0] = {} /\ \A n \in Nat \ {0} : f[n] = G[<<n, f[n \div 2]>>]
  <2>. DEFINE V == SUBSET Nat
              r == {}
  <2>1. r \in V /\ G \in [Nat \X V -> V]
    BY <1>1
  <2>. HIDE DEF V, r, Def
  <2>2. \E f \in [Nat -> V] : HalvesBy(f, r, G)
    BY <2>1, HalvingRecursion
  <2>. QED
    BY <2>2 DEF V, r, HalvesBy
<1>4. \A n \in Nat \ {0} : f[n] = Step(n, f[n \div 2])
  <2>1. \A n \in Nat \ {0} : n \div 2 \in Nat
    OBVIOUS
  <2>. QED
    BY <1>2, <1>3, <2>1
<1>5. Def(f)
  BY <1>3, <1>4
<1>6. Hierarchy!Digits = CHOOSE g : Def(g)
  BY DEF Hierarchy!Digits, Step
<1>7. Def(Hierarchy!Digits)
  <2>. HIDE DEF Def
  <2>. QED
    BY <1>5, <1>6
<1>. DEFINE D == Hierarchy!Digits
<1>8. D = [n \in Nat |-> IF n = 0 THEN {} ELSE Step(n, D[n \div 2])]
  BY <1>7
<1>. HIDE DEF D
<1>9. D[0] = {} /\ \A n \in Nat \ {0} : D[n] = Step(n, D[n \div 2])
  BY <1>8
<1>10. \A n \in Nat : D[n] \in SUBSET Nat
  <2>. SUFFICES ASSUME NEW k \in Nat PROVE D[k] \in SUBSET Nat
    OBVIOUS
  <2>. DEFINE H == {x \in 0 .. k : \A y \in 0 .. x : D[y] \in SUBSET Nat}
  <2>1. 0 \in H
    BY <1>9
  <2>2. ASSUME NEW x \in 1 .. k, x - 1 \in H PROVE x \in H
    <3>1. x \div 2 \in 0 .. x - 1
      OBVIOUS
    <3>2. D[x \div 2] \in SUBSET Nat
      BY <2>2, <3>1
    <3>3. D[x] \in SUBSET Nat
      BY <1>9, <3>2 DEF Step
    <3>. QED
      BY <2>2, <3>3
  <2>. HIDE DEF H
  <2>3. \A x \in 0 .. k : x \in H
    BY <2>1, <2>2, Induct
  <2>. QED
    BY <2>3 DEF H
<1>11. D \in [Nat -> SUBSET Nat]
  BY <1>8, <1>10
<1>. QED
  BY <1>9, <1>11 DEF D, Step

\* A number without a digit is zero,
LEMMA DigitsNone ==
  ASSUME NEW n \in Nat \ {0} PROVE Hierarchy!Digits[n] # {}
<1>. DEFINE D == Hierarchy!Digits
            H == {x \in 0 .. n : \A y \in 1 .. x : D[y] # {}}
<1>1. \A m \in Nat \ {0} :
        D[m] = (IF m % 2 = 1 THEN {0} ELSE {}) \cup {b + 1 : b \in D[m \div 2]}
  BY DigitsAre
<1>. HIDE DEF D
<1>2. 0 \in H
  OBVIOUS
<1>3. ASSUME NEW x \in 1 .. n, x - 1 \in H PROVE x \in H
  <2>1. CASE x % 2 = 1
    <3>1. 0 \in D[x]
      BY <1>1, <2>1
    <3>. QED
      BY <1>3, <3>1
  <2>2. CASE x % 2 # 1
    <3>1. x \div 2 \in 1 .. x - 1
      BY <2>2
    <3>2. PICK b \in D[x \div 2] : TRUE
      BY <1>3, <3>1
    <3>3. b + 1 \in D[x]
      BY <1>1, <3>2
    <3>. QED
      BY <1>3, <3>3
  <2>. QED
    BY <2>1, <2>2
<1>. HIDE DEF H
<1>4. n \in H
  BY <1>2, <1>3, Induct
<1>. QED
  BY <1>4 DEF H, D

\* and numbers with the same digits are the same.
LEMMA DigitsTell ==
  ASSUME NEW n \in Nat, NEW m \in Nat, Hierarchy!Digits[n] = Hierarchy!Digits[m]
  PROVE  n = m
<1>. DEFINE D == Hierarchy!Digits
            H == {x \in 0 .. n : \A y \in 0 .. x, z \in Nat : D[y] = D[z] => y = z}
<1>1. /\ D[0] = {} /\ \A x \in Nat : D[x] \in SUBSET Nat
      /\ \A x \in Nat \ {0} :
           D[x] = (IF x % 2 = 1 THEN {0} ELSE {}) \cup {b + 1 : b \in D[x \div 2]}
  BY DigitsAre
<1>2. \A x \in Nat \ {0} : D[x] # {}
  BY DigitsNone
<1>. HIDE DEF D
<1>3. \A x \in Nat \ {0} : x \div 2 \in Nat /\ x \div 2 < x /\ x = 2 * (x \div 2) + (x % 2) /\ x % 2 \in {0, 1}
  OBVIOUS
<1>4. ASSUME NEW x \in Nat \ {0} PROVE (0 \in D[x] <=> x % 2 = 1) /\ D[x \div 2] = {b \in Nat : b + 1 \in D[x]}
  <2>1. D[x \div 2] \in SUBSET Nat
    BY <1>1, <1>3
  <2>2. D[x] = (IF x % 2 = 1 THEN {0} ELSE {}) \cup {b + 1 : b \in D[x \div 2]}
    BY <1>1
  <2>3. \A b \in Nat : b + 1 \in D[x] <=> b \in D[x \div 2]
    BY <2>1, <2>2
  <2>. QED
    BY <2>1, <2>2, <2>3
<1>5. 0 \in H
  BY <1>1, <1>2
<1>6. ASSUME NEW x \in 1 .. n, x - 1 \in H PROVE x \in H
  <2>. SUFFICES ASSUME NEW z \in Nat, D[x] = D[z] PROVE x = z
    BY <1>6
  <2>1. z # 0
    BY <1>1, <1>2
  <2>2. x % 2 = z % 2
    BY <1>3, <1>4, <2>1
  <2>3. D[x \div 2] = D[z \div 2]
    <3>. DEFINE M(s) == {b \in Nat : b + 1 \in s}
    <3>1. D[x \div 2] = M(D[x]) /\ D[z \div 2] = M(D[z])
      BY <1>4, <2>1
    <3>. HIDE DEF M
    <3>. QED
      BY <3>1
  <2>4. x \div 2 \in 0 .. x - 1 /\ z \div 2 \in Nat
    BY <1>3, <2>1
  <2>5. x \div 2 = z \div 2
    BY <1>6, <2>3, <2>4
  <2>. QED
    BY <1>3, <2>1, <2>2, <2>5
<1>. HIDE DEF H
<1>7. n \in H
  BY <1>5, <1>6, Induct
<1>. QED
  BY <1>7 DEF H, D

\* How often a number is halved,
LEMMA ShiftsAre ==
  /\ Hierarchy!Shifts \in [Nat -> Nat]
  /\ Hierarchy!Shifts[0] = 0
  /\ \A n \in Nat \ {0} : Hierarchy!Shifts[n] = 1 + Hierarchy!Shifts[n \div 2]
<1>. DEFINE G == [x \in Nat \X Nat |-> 1 + x[2]]
            Def(f) == f = [n \in Nat |-> IF n = 0 THEN 0 ELSE 1 + f[n \div 2]]
            S == Hierarchy!Shifts
<1>1. G \in [Nat \X Nat -> Nat] /\ \A n \in Nat, s \in Nat : G[<<n, s>>] = 1 + s
  OBVIOUS
<1>. HIDE DEF G
<1>2. PICK f \in [Nat -> Nat] : HalvesBy(f, 0, G)
  BY <1>1, HalvingRecursion
<1>3. \A n \in Nat \ {0} : n \div 2 \in Nat /\ n \div 2 < n
  OBVIOUS
<1>4. f[0] = 0 /\ \A n \in Nat \ {0} : f[n] = 1 + f[n \div 2]
  BY <1>1, <1>2, <1>3 DEF HalvesBy
<1>5. Def(f)
  BY <1>4
<1>6. S = CHOOSE g : Def(g)
  BY DEF Hierarchy!Shifts
<1>7. Def(S)
  <2>. HIDE DEF Def
  <2>. QED
    BY <1>5, <1>6
<1>. HIDE DEF S
<1>8. S[0] = 0 /\ \A n \in Nat \ {0} : S[n] = 1 + S[n \div 2]
  BY <1>7
<1>9. \A n \in Nat : S[n] \in Nat
  <2>. SUFFICES ASSUME NEW k \in Nat PROVE S[k] \in Nat
    OBVIOUS
  <2>. DEFINE H == {x \in 0 .. k : \A y \in 0 .. x : S[y] \in Nat}
  <2>1. 0 \in H
    BY <1>8
  <2>2. ASSUME NEW x \in 1 .. k, x - 1 \in H PROVE x \in H
    <3>1. x \div 2 \in 0 .. x - 1
      OBVIOUS
    <3>2. S[x] \in Nat
      BY <1>8, <2>2, <3>1
    <3>. QED
      BY <2>2, <3>2
  <2>. HIDE DEF H
  <2>3. \A x \in 0 .. k : x \in H
    BY <2>1, <2>2, Induct
  <2>. QED
    BY <2>3 DEF H
<1>10. S \in [Nat -> Nat]
  BY <1>7, <1>9
<1>. QED
  BY <1>8, <1>10 DEF S

\* which is not less for a larger number,
LEMMA ShiftsGrow ==
  ASSUME NEW n \in Nat, NEW m \in 0 .. n PROVE Hierarchy!Shifts[m] <= Hierarchy!Shifts[n]
<1>. DEFINE S == Hierarchy!Shifts
            H == {x \in 0 .. n : \A y \in 0 .. x : \A z \in 0 .. y : S[z] <= S[y]}
<1>1. S[0] = 0 /\ \A x \in Nat : S[x] \in Nat /\ (x # 0 => S[x] = 1 + S[x \div 2])
  BY ShiftsAre
<1>. HIDE DEF S
<1>2. 0 \in H
  BY <1>1
<1>3. ASSUME NEW x \in 1 .. n, x - 1 \in H PROVE x \in H
  <2>. SUFFICES ASSUME NEW z \in 0 .. x PROVE S[z] <= S[x]
    BY <1>3
  <2>1. x \div 2 \in 0 .. x - 1 /\ z \div 2 \in 0 .. x \div 2
    OBVIOUS
  <2>2. S[z \div 2] <= S[x \div 2]
    BY <1>3, <2>1
  <2>3. /\ S[x] = 1 + S[x \div 2] /\ S[x \div 2] \in Nat
        /\ z # 0 => S[z] = 1 + S[z \div 2] /\ S[z \div 2] \in Nat
    BY <1>1, <2>1
  <2>. QED
    BY <1>1, <2>2, <2>3
<1>. HIDE DEF H
<1>4. n \in H
  BY <1>2, <1>3, Induct
<1>. QED
  BY <1>4 DEF H, S

\* is the number of digits.
LEMMA DigitsBelow ==
  ASSUME NEW n \in Nat
  PROVE  \A b \in Hierarchy!Digits[n] : b \in Nat /\ b < Hierarchy!Shifts[n]
<1>. DEFINE S == Hierarchy!Shifts
            D == Hierarchy!Digits
            H == {x \in 0 .. n : \A y \in 0 .. x : \A b \in D[y] : b < S[y]}
<1>1. S[0] = 0 /\ \A x \in Nat : S[x] \in Nat /\ (x # 0 => S[x] = 1 + S[x \div 2])
  BY ShiftsAre
<1>2. /\ D[0] = {} /\ \A x \in Nat : D[x] \in SUBSET Nat
      /\ \A x \in Nat \ {0} :
           D[x] = (IF x % 2 = 1 THEN {0} ELSE {}) \cup {b + 1 : b \in D[x \div 2]}
  BY DigitsAre
<1>. HIDE DEF S, D
<1>3. 0 \in H
  BY <1>2
<1>4. ASSUME NEW x \in 1 .. n, x - 1 \in H PROVE x \in H
  <2>. SUFFICES ASSUME NEW b \in D[x] PROVE b < S[x]
    BY <1>4
  <2>1. x \div 2 \in 0 .. x - 1
    OBVIOUS
  <2>2. S[x] = 1 + S[x \div 2] /\ S[x \div 2] \in Nat /\ D[x \div 2] \in SUBSET Nat
    BY <1>1, <1>2, <2>1
  <2>3. b = 0 \/ \E c \in D[x \div 2] : b = c + 1
    BY <1>2
  <2>4. \A c \in D[x \div 2] : c < S[x \div 2]
    BY <1>4, <2>1
  <2>. QED
    BY <2>2, <2>3, <2>4
<1>. HIDE DEF H
<1>5. n \in H
  BY <1>3, <1>4, Induct
<1>. QED
  BY <1>2, <1>5 DEF H, S, D

\* P gives the class above each, h how far below $ROOT it is, and K how far at most.
Levelled(P, h, K) ==
  /\ Root \in DOMAIN P /\ P \in [DOMAIN P -> DOMAIN P] /\ P[Root] = Root
  /\ K \in Nat /\ h \in [DOMAIN P -> 0 .. K] /\ h[Root] = 0
  /\ \A c \in DOMAIN P \ {Root} : h[c] = h[P[c]] + 1

\* What holds of $ROOT, and of a class when it holds of the one above, holds of all.
LEMMA OverLevels ==
  ASSUME NEW P, NEW h, NEW K, Levelled(P, h, K), NEW G,
         Root \in G, \A c \in DOMAIN P \ {Root} : P[c] \in G => c \in G
  PROVE  \A c \in DOMAIN P : c \in G
<1>. DEFINE N == DOMAIN P
            H == {k \in 0 .. K : \A c \in N : h[c] <= k => c \in G}
<1>1. /\ Root \in N /\ P \in [N -> N] /\ K \in Nat /\ h \in [N -> 0 .. K]
      /\ \A c \in N \ {Root} : h[c] = h[P[c]] + 1
  BY DEF Levelled
<1>. HIDE DEF N
<1>2. 0 \in H
  BY <1>1
<1>3. ASSUME NEW k \in 1 .. K, k - 1 \in H PROVE k \in H
  <2>. SUFFICES ASSUME NEW c \in N, h[c] <= k, c # Root PROVE c \in G
    BY <1>3
  <2>1. P[c] \in N /\ h[P[c]] <= k - 1
    BY <1>1
  <2>2. P[c] \in G
    BY <1>3, <2>1
  <2>. QED
    BY <2>2 DEF N
<1>. HIDE DEF H
<1>4. K \in H
  BY <1>1, <1>2, <1>3, Induct
<1>. QED
  BY <1>1, <1>4 DEF H, N

\* f is r of $ROOT, and G of a class and of the value for the class above.
DownBy(f, P, r, G) == f[Root] = r /\ \A c \in DOMAIN P \ {Root} : f[c] = G[<<c, f[P[c]]>>]

\* A function that goes from a class to the one above exists.
LEMMA DownRecursion ==
  ASSUME NEW P, NEW h, NEW K, Levelled(P, h, K), NEW V, NEW r \in V,
         NEW G \in [(DOMAIN P) \X V -> V]
  PROVE  \E f \in [DOMAIN P -> V] : DownBy(f, P, r, G)
<1>. DEFINE N == DOMAIN P
            Known(k) == {c \in N : h[c] <= k}
            Def(f, k) == /\ f \in [Known(k) -> V] /\ f[Root] = r
                         /\ \A c \in Known(k) \ {Root} : f[c] = G[<<c, f[P[c]]>>]
            H == {k \in 0 .. K : \E f : Def(f, k)}
<1>1. /\ Root \in N /\ P \in [N -> N] /\ K \in Nat /\ h \in [N -> 0 .. K] /\ h[Root] = 0
      /\ \A c \in N \ {Root} : h[c] = h[P[c]] + 1
      /\ G \in [N \X V -> V]
  BY DEF Levelled
<1>. HIDE DEF N
<1>2. 0 \in H
  <2>1. Known(0) \subseteq {Root} /\ Root \in Known(0)
    BY <1>1
  <2>2. Def([c \in Known(0) |-> r], 0)
    BY <2>1
  <2>. HIDE DEF Def
  <2>3. \E f : Def(f, 0)
    BY <2>2
  <2>. QED
    BY <1>1, <2>3
<1>3. ASSUME NEW k \in 1 .. K, k - 1 \in H PROVE k \in H
  <2>1. PICK f : Def(f, k - 1)
    BY <1>3
  <2>. DEFINE g == [c \in Known(k) |-> IF h[c] <= k - 1 THEN f[c] ELSE G[<<c, f[P[c]]>>]]
  <2>2. /\ Known(k - 1) \subseteq Known(k) /\ Root \in Known(k - 1)
        /\ \A c \in Known(k) : h[c] <= k - 1 <=> c \in Known(k - 1)
        /\ \A c \in Known(k) \ {Root} : P[c] \in Known(k - 1)
    BY <1>1
  <2>3. \A c \in Known(k - 1) : f[c] \in V
    BY <2>1
  <2>4. /\ \A c \in Known(k - 1) : g[c] = f[c]
        /\ \A c \in Known(k) \ Known(k - 1) : g[c] = G[<<c, f[P[c]]>>]
    BY <2>2
  <2>5. g \in [Known(k) -> V]
    <3>1. \A c \in Known(k) \ Known(k - 1) : c \in N /\ f[P[c]] \in V
      BY <2>2, <2>3
    <3>. QED
      BY <1>1, <2>2, <2>3, <3>1
  <2>. HIDE DEF g
  <2>6. ASSUME NEW c \in Known(k) \ {Root} PROVE g[c] = G[<<c, g[P[c]]>>]
    <3>1. g[P[c]] = f[P[c]]
      BY <2>2, <2>4
    <3>2. CASE c \in Known(k - 1)
      BY <2>1, <2>4, <3>1, <3>2
    <3>3. CASE c \notin Known(k - 1)
      BY <2>4, <3>1, <3>3
    <3>. QED
      BY <3>2, <3>3
  <2>7. Def(g, k)
    BY <2>1, <2>2, <2>4, <2>5, <2>6
  <2>. HIDE DEF Def
  <2>8. \E q : Def(q, k)
    BY <2>7
  <2>. QED
    BY <2>8
<1>. HIDE DEF H
<1>4. K \in H
  <2>1. K \in Nat
    BY <1>1
  <2>2. \A k \in 0 .. K : k \in H
    BY <1>2, <1>3, <2>1, Induct
  <2>. QED
    BY <2>1, <2>2
<1>5. PICK f : Def(f, K)
  BY <1>4 DEF H
<1>6. Known(K) = N
  BY <1>1
<1>7. f \in [N -> V] /\ DownBy(f, P, r, G)
  BY <1>5, <1>6 DEF DownBy, N
<1>. QED
  BY <1>7 DEF N

-----------------------------------------------------------------------------
(* The lineages                                                            *)

\* The lineages of the classes of parent.
LEMMA LineagesAre ==
  ASSUME NEW h, NEW K, Levelled(parent, h, K)
  PROVE  LET L == Hierarchy!LineageOf N == DOMAIN parent
         IN  /\ L \in [N -> Seq(N)] /\ L[Root] = <<Root>>
             /\ \A c \in N \ {Root} : L[c] = Append(L[parent[c]], c)
<1>. DEFINE N == DOMAIN parent
            V == Seq(N)
            G == [x \in N \X V |-> Append(x[2], x[1])]
            Def(f) == f = [c \in N |-> IF c = Root THEN <<Root>> ELSE Append(f[parent[c]], c)]
            L == Hierarchy!LineageOf
            r == <<Root>>
<1>1. Root \in N /\ parent \in [N -> N]
  BY DEF Levelled
<1>2. /\ r \in V /\ G \in [N \X V -> V]
      /\ \A c \in N, s \in V : G[<<c, s>>] = Append(s, c)
  BY <1>1
<1>3. PICK f \in [N -> V] : DownBy(f, parent, r, G)
  <2>. HIDE DEF V, G, r
  <2>. QED
    BY <1>2, DownRecursion
<1>. HIDE DEF G
<1>4. f[Root] = r /\ \A c \in N \ {Root} : f[c] = Append(f[parent[c]], c)
  <2>1. \A c \in N \ {Root} : f[c] = G[<<c, f[parent[c]]>>] /\ f[parent[c]] \in V
    BY <1>1, <1>3 DEF DownBy
  <2>. HIDE DEF V
  <2>. QED
    BY <1>2, <1>3, <2>1 DEF DownBy
<1>. HIDE DEF V
<1>5. Def(f)
  <2>1. f = [c \in N |-> f[c]]
    BY <1>3
  <2>. QED
    BY <1>4, <2>1
<1>6. L = CHOOSE g : Def(g)
  BY DEF Hierarchy!LineageOf, Hierarchy!Declared
<1>7. Def(L)
  <2>. HIDE DEF Def
  <2>. QED
    BY <1>5, <1>6
<1>. HIDE DEF L
<1>8. L[Root] = <<Root>> /\ \A c \in N \ {Root} : L[c] = Append(L[parent[c]], c)
  BY <1>1, <1>7
<1>9. \A c \in N : L[c] \in Seq(N)
  <2>. DEFINE G1 == {c \in N : L[c] \in Seq(N)}
  <2>1. Root \in G1
    <3>1. <<Root>> \in Seq(N)
      BY <1>1
    <3>. QED
      BY <1>1, <1>8, <3>1
  <2>2. ASSUME NEW c \in N \ {Root}, parent[c] \in G1 PROVE c \in G1
    <3>1. L[parent[c]] \in Seq(N) /\ L[c] = Append(L[parent[c]], c)
      BY <1>8, <2>2
    <3>2. \A s \in Seq(N) : Append(s, c) \in Seq(N)
      OBVIOUS
    <3>. QED
      BY <3>1, <3>2
  <2>. HIDE DEF G1
  <2>3. \A c \in N : c \in G1
    BY <2>1, <2>2, OverLevels
  <2>. QED
    BY <2>3 DEF G1
<1>10. L \in [N -> Seq(N)]
  BY <1>7, <1>9
<1>. QED
  BY <1>8, <1>10 DEF L

\* The lineage of c goes from $ROOT to c, and that of a class on it is its beginning.
StraightLineage(P, L, h, c) ==
  /\ L[c] \in Seq(DOMAIN P) /\ Len(L[c]) = h[c] + 1
  /\ L[c][1] = Root /\ L[c][h[c] + 1] = c
  /\ \A m \in 1 .. h[c] + 1 :
       /\ h[L[c][m]] = m - 1
       /\ \A k \in 1 .. m : L[L[c][m]][k] = L[c][k]
  /\ \A m \in 2 .. h[c] + 1 : P[L[c][m]] = L[c][m - 1]
  /\ c # Root => \A m \in 1 .. h[c] : L[c][m] = L[P[c]][m]

\* Every lineage does.
LEMMA LineageStraight ==
  ASSUME NEW h, NEW K, Levelled(parent, h, K)
  PROVE  \A c \in DOMAIN parent : StraightLineage(parent, Hierarchy!LineageOf, h, c)
<1>. DEFINE N == DOMAIN parent
            L == Hierarchy!LineageOf
            G == {c \in N : StraightLineage(parent, L, h, c)}
<1>1. /\ Root \in N /\ parent \in [N -> N] /\ h \in [N -> Nat] /\ h[Root] = 0
      /\ \A c \in N \ {Root} : h[c] = h[parent[c]] + 1
  BY DEF Levelled
<1>2. /\ L \in [N -> Seq(N)] /\ L[Root] = <<Root>>
      /\ \A c \in N \ {Root} : L[c] = Append(L[parent[c]], c)
  BY LineagesAre
<1>. HIDE DEF N, L
<1>3. Root \in G
  <2>1. L[Root] \in Seq(N) /\ Len(L[Root]) = 1 /\ L[Root][1] = Root
    BY <1>1, <1>2
  <2>. QED
    BY <1>1, <2>1 DEF StraightLineage, N
<1>4. ASSUME NEW c \in N \ {Root}, parent[c] \in G PROVE c \in G
  <2>. DEFINE q == parent[c]
  <2>1. q \in N /\ h[c] = h[q] + 1 /\ h[q] \in Nat /\ StraightLineage(parent, L, h, q)
    BY <1>1, <1>4
  <2>2. /\ L[q] \in Seq(N) /\ Len(L[q]) = h[q] + 1
        /\ L[q][1] = Root /\ L[q][h[q] + 1] = q
        /\ \A m \in 1 .. h[q] + 1 :
             /\ h[L[q][m]] = m - 1
             /\ \A k \in 1 .. m : L[L[q][m]][k] = L[q][k]
        /\ \A m \in 2 .. h[q] + 1 : parent[L[q][m]] = L[q][m - 1]
    BY <2>1 DEF StraightLineage, N
  <2>3. L[c] = Append(L[q], c)
    BY <1>2
  <2>4. parent[c] = q
    OBVIOUS
  <2>. HIDE DEF q
  <2>5. /\ L[c] \in Seq(N) /\ Len(L[c]) = h[c] + 1 /\ L[c][h[c] + 1] = c
        /\ \A m \in 1 .. h[c] : L[c][m] = L[q][m]
    BY <2>1, <2>2, <2>3
  <2>6. L[c][1] = Root
    BY <2>1, <2>2, <2>5
  <2>7. ASSUME NEW m \in 1 .. h[c] + 1
        PROVE  h[L[c][m]] = m - 1 /\ \A k \in 1 .. m : L[L[c][m]][k] = L[c][k]
    <3>1. CASE m = h[c] + 1
      BY <2>1, <2>5, <3>1
    <3>2. CASE m # h[c] + 1
      <4>1. m \in 1 .. h[c] /\ m \in 1 .. h[q] + 1 /\ L[c][m] = L[q][m]
        BY <2>1, <2>5, <3>2
      <4>2. \A k \in 1 .. m : L[c][k] = L[q][k]
        BY <2>1, <2>5, <4>1
      <4>. QED
        BY <2>2, <4>1, <4>2
    <3>. QED
      BY <3>1, <3>2
  <2>8. ASSUME NEW m \in 2 .. h[c] + 1 PROVE parent[L[c][m]] = L[c][m - 1]
    <3>1. L[c][m - 1] = L[q][m - 1]
      <4>1. m - 1 \in 1 .. h[c]
        BY <2>1
      <4>. QED
        BY <2>5, <4>1
    <3>2. CASE m = h[c] + 1
      BY <2>1, <2>2, <2>4, <2>5, <3>1, <3>2
    <3>3. CASE m # h[c] + 1
      <4>1. m \in 1 .. h[c] /\ m \in 2 .. h[q] + 1
        BY <2>1, <3>3
      <4>2. L[c][m] = L[q][m] /\ parent[L[q][m]] = L[q][m - 1]
        BY <2>2, <2>5, <4>1
      <4>. QED
        BY <3>1, <4>2
    <3>. QED
      BY <3>2, <3>3
  <2>9. StraightLineage(parent, L, h, c)
    BY <2>4, <2>5, <2>6, <2>7, <2>8 DEF StraightLineage, N
  <2>. QED
    BY <2>9
<1>. HIDE DEF G
<1>5. \A c \in N : c \in G
  BY <1>3, <1>4, OverLevels DEF N
<1>. QED
  BY <1>5 DEF G, N, L

-----------------------------------------------------------------------------
(* The class tree of decl_cls.c                                            *)

\* Every class but $ROOT is once in the list of the children of its parent.
Listed(P, C) ==
  /\ C \in [DOMAIN P -> Seq(DOMAIN P \ {Root})]
  /\ \A p \in DOMAIN P : \A m \in DOMAIN C[p] : P[C[p][m]] = p
  /\ \A p \in DOMAIN P : \A m, n \in DOMAIN C[p] : C[p][m] = C[p][n] => m = n
  /\ \A c \in DOMAIN P \ {Root} : \E m \in DOMAIN C[P[c]] : C[P[c]][m] = c

\* parent and children are a tree of classes.
ClassTree(h, K) ==
  /\ Levelled(parent, h, K)
  /\ DOMAIN parent \subseteq HierarchyClass \cup {Root}
  /\ Listed(parent, children)

\* The depth of a class.
LEMMA DepthIs ==
  ASSUME NEW h, NEW K, Levelled(parent, h, K)
  PROVE  \A c \in DOMAIN parent : Hierarchy!Depth(c) = h[c]
<1>1. ASSUME NEW c \in DOMAIN parent PROVE Hierarchy!Depth(c) = h[c]
  <2>1. Len(Hierarchy!LineageOf[c]) = h[c] + 1 /\ h[c] \in Nat
    BY LineageStraight DEF StraightLineage, Levelled
  <2>. QED
    BY <2>1 DEF Hierarchy!Depth
<1>. QED
  BY <1>1

\* A class descends from those on its lineage.
LEMMA DescendsIs ==
  ASSUME NEW h, NEW K, Levelled(parent, h, K), NEW c \in DOMAIN parent, NEW q \in DOMAIN parent
  PROVE  Hierarchy!Descends(c, q) <=> h[q] <= h[c] /\ Hierarchy!LineageOf[c][h[q] + 1] = q
<1>. DEFINE l == Hierarchy!LineageOf[c]
<1>1. /\ l \in Seq(DOMAIN parent) /\ Len(l) = h[c] + 1 /\ h[c] \in Nat /\ h[q] \in Nat
      /\ \A m \in 1 .. h[c] + 1 : h[l[m]] = m - 1
  BY LineageStraight DEF StraightLineage, Levelled
<1>2. Hierarchy!Descends(c, q) <=> \E m \in DOMAIN l : l[m] = q
  BY DEF Hierarchy!Descends, Hierarchy!ToSet
<1>3. DOMAIN l = 1 .. h[c] + 1
  BY <1>1
<1>. HIDE DEF l
<1>4. ASSUME NEW m \in DOMAIN l, l[m] = q PROVE h[q] <= h[c] /\ l[h[q] + 1] = q
  BY <1>1, <1>3, <1>4
<1>5. ASSUME h[q] <= h[c], l[h[q] + 1] = q PROVE \E m \in DOMAIN l : l[m] = q
  BY <1>1, <1>3, <1>5
<1>. QED
  BY <1>2, <1>4, <1>5 DEF l

\* The number of a sibling is its place in the list.
LEMMA SiblingIs ==
  ASSUME NEW h, NEW K, ClassTree(h, K), NEW c \in DOMAIN parent \ {Root}
  PROVE  /\ Hierarchy!SiblingNumber(c) \in 1 .. Len(children[parent[c]])
         /\ children[parent[c]][Hierarchy!SiblingNumber(c)] = c
<1>. DEFINE l == children[parent[c]]
            I == {m \in 1 .. Len(l) : l[m] = c}
<1>1. l \in Seq(DOMAIN parent \ {Root}) /\ \E m \in DOMAIN l : l[m] = c
  BY DEF ClassTree, Listed, Levelled
<1>2. I # {} /\ I \in SUBSET Nat
  BY <1>1
<1>3. Hierarchy!SiblingNumber(c) = IF I # {} THEN Hierarchy!Min(I) ELSE 0
  BY DEF Hierarchy!SiblingNumber, Hierarchy!SelectInSeq
<1>4. Hierarchy!Min(I) = Min(I)
  BY DEF Hierarchy!Min, Min
<1>5. Min(I) \in I
  <2>. HIDE DEF I
  <2>. QED
    BY <1>2, FirstOfSet
<1>. QED
  BY <1>2, <1>3, <1>4, <1>5

\* The last of a set of numbers.
LEMMA LargestOf ==
  ASSUME NEW n \in Nat, NEW t \in SUBSET (0 .. n), t # {}
  PROVE  Hierarchy!Max(t) \in t /\ \A x \in t : x <= Hierarchy!Max(t)
<1>. DEFINE G == {k \in 0 .. n : (\E x \in t : x <= k) => \E y \in t : \A x \in t : x <= k => y >= x}
<1>1. 0 \in G
  OBVIOUS
<1>2. ASSUME NEW k \in 1 .. n, k - 1 \in G PROVE k \in G
  <2>1. CASE k \in t
    BY <2>1
  <2>2. CASE k \notin t
    <3>1. \A x \in t : x <= k <=> x <= k - 1
      BY <2>2
    <3>. QED
      BY <1>2, <3>1
  <2>. QED
    BY <2>1, <2>2
<1>. HIDE DEF G
<1>3. n \in G
  BY <1>1, <1>2, Induct
<1>4. (\E x \in t : x <= n) => \E y \in t : \A x \in t : x <= n => y >= x
  BY <1>3 DEF G
<1>5. \A x \in t : x <= n
  OBVIOUS
<1>6. \E y \in t : \A x \in t : y >= x
  BY <1>4, <1>5
<1>. QED
  BY <1>5, <1>6 DEF Hierarchy!Max

\* A class has no more children than there are names.
LEMMA ChildrenFew ==
  ASSUME NEW h, NEW K, ClassTree(h, K), Hierarchy!RootAssumption, Hierarchy!CountAssumption,
         NEW p \in DOMAIN parent
  PROVE  /\ Len(children[p]) <= Cardinality(HierarchyClass)
         /\ Cardinality(HierarchyClass) \in Nat
<1>. DEFINE l == children[p]
            n == Len(l)
<1>1. /\ l \in Seq(HierarchyClass) /\ n \in Nat /\ DOMAIN l = 1 .. n
      /\ \A m1, m2 \in 1 .. n : l[m1] = l[m2] => m1 = m2
  <2>1. l \in Seq(DOMAIN parent \ {Root}) /\ DOMAIN parent \ {Root} \subseteq HierarchyClass
    BY DEF ClassTree, Listed
  <2>2. \A m1, m2 \in DOMAIN l : l[m1] = l[m2] => m1 = m2
    BY DEF ClassTree, Listed
  <2>. QED
    BY <2>1, <2>2
<1>. HIDE DEF l, n
<1>2. IsFiniteSet(HierarchyClass)
  BY DEF Hierarchy!CountAssumption, Hierarchy!IsFiniteSet, IsFiniteSet
<1>3. l \in Injection(1 .. n, HierarchyClass)
  BY <1>1 DEF Injection, IsInjective
<1>4. Cardinality(1 .. n) <= Cardinality(HierarchyClass) /\ Cardinality(1 .. n) = n
  BY <1>1, <1>2, <1>3, FS_Injection, FS_Interval
<1>5. Cardinality(HierarchyClass) \in Nat
  BY <1>2, FS_CardinalityType
<1>. QED
  BY <1>4, <1>5 DEF n, l

-----------------------------------------------------------------------------
(* The widths of the levels                                                *)

\* The levels go from that of $ROOT down to the deepest.
LEMMA LevelsAre ==
  ASSUME NEW h, NEW K, ClassTree(h, K)
  PROVE  LET T == Hierarchy!Max(Hierarchy!Levels)
         IN  T \in Nat /\ Hierarchy!Levels = 0 .. T /\ ClassTree(h, T)
<1>. DEFINE N == DOMAIN parent
            V == Hierarchy!Levels
            T == Hierarchy!Max(V)
<1>1. /\ Levelled(parent, h, K) /\ Root \in N /\ K \in Nat /\ h \in [N -> 0 .. K]
      /\ h[Root] = 0
  BY DEF ClassTree, Levelled
<1>2. \A c \in N : Hierarchy!Depth(c) = h[c]
  BY <1>1, DepthIs
<1>3. V = {h[c] : c \in N}
  BY <1>2 DEF Hierarchy!Levels, Hierarchy!Declared
<1>. HIDE DEF V, N
<1>4. V \in SUBSET (0 .. K) /\ V # {}
  BY <1>1, <1>3
<1>5. T \in V /\ \A x \in V : x <= T
  BY <1>1, <1>4, LargestOf
<1>. HIDE DEF T
<1>6. ASSUME NEW m \in 0 .. T PROVE m \in V
  <2>1. PICK c \in N : h[c] = T
    BY <1>3, <1>5
  <2>2. /\ Hierarchy!LineageOf[c] \in Seq(N) /\ Len(Hierarchy!LineageOf[c]) = T + 1
        /\ \A k \in 1 .. T + 1 : h[Hierarchy!LineageOf[c][k]] = k - 1
    BY <1>1, <2>1, LineageStraight DEF StraightLineage, N
  <2>0. T \in Nat
    BY <1>1, <1>4, <1>5
  <2>3. m + 1 \in 1 .. T + 1
    BY <2>0
  <2>4. h[Hierarchy!LineageOf[c][m + 1]] = m /\ Hierarchy!LineageOf[c][m + 1] \in N
    BY <2>0, <2>2, <2>3
  <2>. QED
    BY <1>3, <2>4
<1>7. T \in 0 .. K /\ V = 0 .. T
  <2>1. T \in 0 .. K
    BY <1>4, <1>5
  <2>2. V \in SUBSET Nat
    BY <1>1, <1>4
  <2>3. \A x \in V : x \in 0 .. T
    BY <1>5, <2>2
  <2>. QED
    BY <1>6, <2>1, <2>3
<1>8. h \in [N -> 0 .. T]
  BY <1>1, <1>3, <1>7
<1>9. ClassTree(h, T)
  BY <1>7, <1>8 DEF ClassTree, Levelled, N
<1>10. T \in Nat
  BY <1>1, <1>7
<1>. QED
  BY <1>7, <1>9, <1>10 DEF T, V

\* The widest list of a level counts the siblings that are numbered in it.
LEMMA MaxSiblingsAre ==
  ASSUME NEW h, NEW K, ClassTree(h, K), Hierarchy!RootAssumption, Hierarchy!CountAssumption,
         NEW m \in Hierarchy!Levels
  PROVE  LET M == Hierarchy!MaxSiblings(m)
         IN  /\ M \in Nat \ {0} /\ (M <= Cardinality(HierarchyClass) \/ M = 1)
             /\ m = 0 => M = 1
             /\ \A c \in DOMAIN parent : h[c] = m => Hierarchy!SiblingNumber(c) \in 1 .. M
<1>. DEFINE N == DOMAIN parent
            M == Hierarchy!MaxSiblings(m)
            U == {Len(children[c]) : c \in {q \in N : h[q] = m - 1}}
            w == Cardinality(HierarchyClass)
<1>1. /\ Levelled(parent, h, K) /\ Root \in N /\ parent \in [N -> N] /\ K \in Nat /\ h \in [N -> Nat]
      /\ h[Root] = 0 /\ \A c \in N \ {Root} : h[c] = h[parent[c]] + 1
      /\ children \in [N -> Seq(N \ {Root})]
  BY DEF ClassTree, Levelled, Listed
<1>2. \A c \in N : Hierarchy!Depth(c) = h[c]
  BY <1>1, DepthIs
<1>3. m \in Nat /\ \E c \in N : h[c] = m
  BY <1>1, <1>2 DEF Hierarchy!Levels, Hierarchy!Declared
<1>. HIDE DEF N
<1>4. \A c \in N \ {Root} : Hierarchy!SiblingNumber(c) \in 1 .. Len(children[parent[c]])
  BY SiblingIs DEF N
<1>5. CASE m = 0
  <2>1. M = 1
    BY <1>5 DEF Hierarchy!MaxSiblings
  <2>2. ASSUME NEW c \in N, h[c] = 0 PROVE c = Root
    <3>1. parent[c] \in N /\ h[parent[c]] \in Nat
      BY <1>1
    <3>2. c # Root => h[c] = h[parent[c]] + 1
      BY <1>1
    <3>. QED
      BY <2>2, <3>1, <3>2
  <2>3. Hierarchy!SiblingNumber(Root) = 1
    BY DEF Hierarchy!SiblingNumber
  <2>. HIDE DEF M
  <2>. QED
    BY <1>5, <2>1, <2>2, <2>3 DEF M, N
<1>6. CASE m # 0
  <2>1. M = Hierarchy!Max(U)
    <3>1. {Len(children[c]) : c \in {q \in N : Hierarchy!Depth(q) = m - 1}} = U
      BY <1>2
    <3>. QED
      BY <1>6, <3>1 DEF Hierarchy!MaxSiblings, Hierarchy!Declared, N
  <2>2. \A c \in N : Len(children[c]) \in 0 .. w /\ w \in Nat
    <3>1. \A c \in N : Len(children[c]) <= w /\ w \in Nat
      BY ChildrenFew DEF N
    <3>2. \A c \in N : Len(children[c]) \in Nat
      BY <1>1
    <3>. HIDE DEF w
    <3>. QED
      BY <3>1, <3>2
  <2>3. w \in Nat /\ U \in SUBSET (0 .. w)
    BY <1>1, <2>2
  <2>4. ASSUME NEW c \in N, h[c] = m
        PROVE  c \in N \ {Root} /\ Len(children[parent[c]]) \in U
    BY <1>1, <1>6, <2>4
  <2>. HIDE DEF U, w, M
  <2>5. U # {}
    BY <1>3, <2>4
  <2>6. M \in U /\ \A x \in U : x <= M
    <3>1. Hierarchy!Max(U) \in U /\ \A x \in U : x <= Hierarchy!Max(U)
      BY <2>3, <2>5, LargestOf
    <3>. QED
      BY <2>1, <3>1, Zenon
  <2>7. ASSUME NEW c \in N, h[c] = m PROVE Hierarchy!SiblingNumber(c) \in 1 .. M
    <3>1. Len(children[parent[c]]) <= M /\ Len(children[parent[c]]) \in Nat
      <4>1. Len(children[parent[c]]) \in U
        BY <2>4, <2>7
      <4>. QED
        BY <2>3, <2>6, <4>1
    <3>2. Hierarchy!SiblingNumber(c) \in 1 .. Len(children[parent[c]])
      BY <1>4, <2>4, <2>7
    <3>3. M \in Nat
      BY <2>3, <2>6
    <3>. QED
      BY <3>1, <3>2, <3>3
  <2>8. M \in Nat /\ M <= w
    BY <2>3, <2>6
  <2>9. M # 0
    BY <1>3, <2>7
  <2>. QED
    BY <1>6, <2>7, <2>8, <2>9 DEF w, N, M
<1>. QED
  BY <1>5, <1>6 DEF N

\* The bits of a level hold the digits of the number of any sibling.
LEMMA LocalBitsAre ==
  ASSUME NEW h, NEW K, ClassTree(h, K), Hierarchy!RootAssumption, Hierarchy!CountAssumption,
         Hierarchy!WidthAssumption, NEW m \in Hierarchy!Levels
  PROVE  LET b == Hierarchy!LocalBits(m)
         IN  /\ b \in 1 .. BitsPerLong
             /\ m = 0 => b = 1
             /\ \A c \in DOMAIN parent : h[c] = m =>
                  /\ Hierarchy!SiblingNumber(c) \in Nat \ {0}
                  /\ Hierarchy!Digits[Hierarchy!SiblingNumber(c)] \subseteq 0 .. b - 1
<1>. DEFINE b == Hierarchy!LocalBits(m)
            M == Hierarchy!MaxSiblings(m)
            w == Cardinality(HierarchyClass)
            S == Hierarchy!Shifts
<1>1. /\ M \in Nat \ {0} /\ (M <= w \/ M = 1)
      /\ m = 0 => M = 1
      /\ \A c \in DOMAIN parent : h[c] = m => Hierarchy!SiblingNumber(c) \in 1 .. M
  BY MaxSiblingsAre
<1>. HIDE DEF M
<1>2. w \in Nat
  <2>1. IsFiniteSet(HierarchyClass)
    BY DEF Hierarchy!CountAssumption, Hierarchy!IsFiniteSet, IsFiniteSet
  <2>. QED
    BY <2>1, FS_CardinalityType
<1>3. b = S[M]
  <2>1. b = Hierarchy!Ilog2(1 + M)
    BY DEF Hierarchy!LocalBits, M
  <2>2. 1 + M # 1 /\ (1 + M) - 1 = M
    BY <1>1
  <2>. QED
    BY <2>1, <2>2 DEF Hierarchy!Ilog2
<1>. HIDE DEF b
<1>4. /\ S[0] = 0 /\ \A n \in Nat : S[n] \in Nat
      /\ \A n \in Nat \ {0} : S[n] = 1 + S[n \div 2]
  BY ShiftsAre
<1>5. S[1] = 1
  <2>1. 1 \div 2 = 0
    OBVIOUS
  <2>. QED
    BY <1>4, <2>1
<1>6. w # 0 => S[w] <= BitsPerLong
  <2>1. Hierarchy!Cardinality(HierarchyClass) = w
    BY DEF Hierarchy!Cardinality, Cardinality
  <2>2. Hierarchy!Ilog2(1 + w) <= BitsPerLong
    BY <2>1 DEF Hierarchy!CountAssumption
  <2>3. w # 0 => 1 + w # 1 /\ (1 + w) - 1 = w
    BY <1>2
  <2>. HIDE DEF w
  <2>. QED
    BY <2>2, <2>3 DEF Hierarchy!Ilog2
<1>7. BitsPerLong \in Nat \ {0, 1}
  BY DEF Hierarchy!WidthAssumption
<1>. HIDE DEF S, w
<1>8. S[M] <= BitsPerLong
  <2>1. CASE M = 1
    BY <1>5, <1>7, <2>1
  <2>2. CASE M # 1
    <3>1. M \in 0 .. w /\ w # 0
      BY <1>1, <1>2, <2>2
    <3>2. S[M] <= S[w]
      BY <1>2, <3>1, ShiftsGrow DEF S
    <3>. QED
      BY <1>1, <1>2, <1>4, <1>6, <1>7, <3>1, <3>2
  <2>. QED
    BY <2>1, <2>2
<1>9. S[1] <= S[M]
  <2>1. 1 \in 0 .. M /\ M \in Nat
    BY <1>1
  <2>. QED
    BY <2>1, ShiftsGrow DEF S
<1>10. b \in 1 .. BitsPerLong
  BY <1>1, <1>3, <1>4, <1>5, <1>7, <1>8, <1>9
<1>11. m = 0 => b = 1
  BY <1>1, <1>3, <1>5
<1>12. ASSUME NEW n \in 1 .. M PROVE Hierarchy!Digits[n] \subseteq 0 .. b - 1
  <2>1. n \in Nat /\ n \in 0 .. M /\ M \in Nat
    BY <1>1
  <2>2. \A x \in Hierarchy!Digits[n] : x \in Nat /\ x < S[n]
    BY <2>1, DigitsBelow DEF S
  <2>3. S[n] <= S[M] /\ S[n] \in Nat /\ S[M] \in Nat
    BY <1>4, <2>1, ShiftsGrow DEF S
  <2>. QED
    BY <1>3, <2>2, <2>3
<1>. QED
  BY <1>1, <1>10, <1>11, <1>12 DEF b

\* The bits above a level are those of the levels above it.
LEMMA InhBitsAre ==
  ASSUME NEW n \in Nat, \A m \in 0 .. n : Hierarchy!LocalBits(m) \in Nat
  PROVE  /\ Hierarchy!InhBits(0) = 0
         /\ \A m \in 0 .. n + 1 : Hierarchy!InhBits(m) \in Nat
         /\ \A m \in 0 .. n :
              Hierarchy!InhBits(m + 1) = Hierarchy!InhBits(m) + Hierarchy!LocalBits(m)
<1>. DEFINE Def(f, k) == f = [x \in 0 .. k |->
                                IF x = 0 THEN 0 ELSE f[x - 1] + Hierarchy!LocalBits(x - 1)]
            F(k) == CHOOSE f : Def(f, k)
            G == [x \in Nat \X (1 .. n + 1) |-> x[1] + Hierarchy!LocalBits(x[2] - 1)]
<1>1. \A k \in Nat : Hierarchy!InhBits(k) = F(k)[k]
  BY DEF Hierarchy!InhBits
<1>2. /\ G \in [Nat \X (1 .. n + 1) -> Nat]
      /\ \A a \in Nat, k \in 1 .. n + 1 : G[<<a, k>>] = a + Hierarchy!LocalBits(k - 1)
  OBVIOUS
<1>. HIDE DEF G
<1>3. PICK g \in [0 .. n + 1 -> Nat] : StepsBy(g, n + 1, G, 0)
  <2>1. n + 1 \in Nat
    OBVIOUS
  <2>. QED
    BY <1>2, <2>1, Recursion
<1>4. g[0] = 0 /\ \A k \in 1 .. n + 1 : g[k] = g[k - 1] + Hierarchy!LocalBits(k - 1)
  <2>1. g[0] = 0 /\ \A k \in 1 .. n + 1 : g[k] = G[<<g[k - 1], k>>]
    BY <1>3 DEF StepsBy
  <2>2. \A k \in 1 .. n + 1 : k - 1 \in 0 .. n + 1 /\ g[k - 1] \in Nat
    BY <1>3
  <2>. QED
    BY <1>2, <2>1, <2>2
<1>5. ASSUME NEW k \in 0 .. n + 1 PROVE F(k)[k] = g[k]
  <2>. DEFINE f == [x \in 0 .. k |-> g[x]]
  <2>1. Def(f, k)
    <3>1. \A x \in 0 .. k : f[x] = IF x = 0 THEN 0 ELSE f[x - 1] + Hierarchy!LocalBits(x - 1)
      BY <1>4
    <3>. HIDE DEF f
    <3>2. f = [x \in 0 .. k |-> f[x]]
      BY DEF f
    <3>. QED
      BY <3>1, <3>2
  <2>2. Def(F(k), k)
    <3>. HIDE DEF Def, f
    <3>. QED
      BY <2>1
  <2>. DEFINE e == F(k)
  <2>. HIDE DEF F
  <2>3. e[0] = 0 /\ \A x \in 1 .. k : e[x] = e[x - 1] + Hierarchy!LocalBits(x - 1)
    BY <2>2
  <2>. DEFINE H == {x \in 0 .. k : e[x] = g[x]}
  <2>. HIDE DEF e, f, Def
  <2>4. 0 \in H
    BY <1>4, <2>3
  <2>5. ASSUME NEW x \in 1 .. k, x - 1 \in H PROVE x \in H
    BY <1>4, <2>3, <2>5
  <2>. HIDE DEF H
  <2>6. k \in H
    <3>1. k \in Nat /\ k \in 0 .. k
      OBVIOUS
    <3>2. \A x \in 1 .. k : x - 1 \in H => x \in H
      BY <2>5
    <3>3. \A x \in 0 .. k : x \in H
      BY <2>4, <3>1, <3>2, Induct
    <3>. QED
      BY <3>1, <3>3
  <2>. QED
    BY <2>6 DEF H, e
<1>. HIDE DEF F
<1>6. \A k \in 0 .. n + 1 : Hierarchy!InhBits(k) = g[k]
  BY <1>1, <1>5
<1>7. ASSUME NEW m \in 0 .. n PROVE g[m + 1] = g[m] + Hierarchy!LocalBits(m)
  <2>1. m + 1 \in 1 .. n + 1 /\ (m + 1) - 1 = m
    OBVIOUS
  <2>. QED
    BY <1>4, <2>1
<1>. QED
  BY <1>3, <1>4, <1>6, <1>7

-----------------------------------------------------------------------------
(* The codes                                                               *)

\* A code is the set of the places of its bits that are 1.  A class has that of the
\* class above it and its own bits, O, which lie between S of its level and of the next.
Codes(P, h, K, S, O, C) ==
  /\ S \in [0 .. K + 1 -> Nat] /\ \A k \in 0 .. K : S[k] <= S[k + 1]
  /\ O \in [DOMAIN P -> SUBSET Nat]
  /\ \A c \in DOMAIN P : O[c] # {} /\ \A x \in O[c] : S[h[c]] <= x /\ x < S[h[c] + 1]
  /\ \A c, e \in DOMAIN P \ {Root} : P[c] = P[e] /\ O[c] = O[e] => c = e
  /\ C \in [DOMAIN P -> SUBSET Nat]
  /\ C[Root] = O[Root] /\ \A c \in DOMAIN P \ {Root} : C[c] = C[P[c]] \cup O[c]

\* The part of a code that is below a place.
Start(code, n) == {x \in code : x < n}

\* A deeper level begins later.
LEMMA LevelsGrow ==
  ASSUME NEW K \in Nat, NEW S \in [0 .. K + 1 -> Nat], \A k \in 0 .. K : S[k] <= S[k + 1],
         NEW n \in 0 .. K + 1
  PROVE  \A k \in 0 .. n : S[k] <= S[n]
<1>. DEFINE G == {x \in 0 .. n : \A k \in 0 .. x : S[k] <= S[x]}
<1>1. 0 \in G
  OBVIOUS
<1>2. ASSUME NEW x \in 1 .. n, x - 1 \in G PROVE x \in G
  <2>1. x - 1 \in 0 .. K /\ (x - 1) + 1 = x /\ x \in 0 .. K + 1 /\ x - 1 \in 0 .. K + 1
    OBVIOUS
  <2>2. S[x - 1] <= S[x] /\ S[x - 1] \in Nat /\ S[x] \in Nat
    BY <2>1
  <2>3. \A k \in 0 .. x - 1 : S[k] \in Nat /\ S[k] <= S[x - 1]
    BY <1>2
  <2>4. \A k \in 0 .. x - 1 : S[k] <= S[x]
    BY <2>2, <2>3
  <2>. QED
    BY <2>2, <2>4
<1>. HIDE DEF G
<1>3. n \in Nat /\ n \in 0 .. n
  OBVIOUS
<1>4. \A x \in 0 .. n : x \in G
  BY <1>1, <1>2, <1>3, Induct
<1>. QED
  BY <1>3, <1>4 DEF G

\* The code of a class ends where its level ends.
LEMMA CodesEnd ==
  ASSUME NEW h, NEW K, Levelled(parent, h, K), NEW S, NEW O, NEW C,
         Codes(parent, h, K, S, O, C)
  PROVE  \A c \in DOMAIN parent : \A x \in C[c] : x < S[h[c] + 1]
<1>. DEFINE N == DOMAIN parent
            G == {c \in N : \A x \in C[c] : x < S[h[c] + 1]}
<1>1. /\ Root \in N /\ parent \in [N -> N] /\ K \in Nat /\ h \in [N -> 0 .. K]
      /\ \A c \in N \ {Root} : h[c] = h[parent[c]] + 1
  BY DEF Levelled
<1>2. /\ S \in [0 .. K + 1 -> Nat] /\ \A k \in 0 .. K : S[k] <= S[k + 1]
      /\ C \in [N -> SUBSET Nat]
      /\ \A c \in N : \A x \in O[c] : x < S[h[c] + 1]
      /\ C[Root] = O[Root] /\ \A c \in N \ {Root} : C[c] = C[parent[c]] \cup O[c]
  BY DEF Codes
<1>. HIDE DEF N
<1>3. Root \in G
  BY <1>1, <1>2
<1>4. ASSUME NEW c \in N \ {Root}, parent[c] \in G PROVE c \in G
  <2>1. /\ h[c] \in 0 .. K /\ h[c] = h[parent[c]] + 1
        /\ \A x \in C[parent[c]] : x \in Nat /\ x < S[h[c]]
    BY <1>1, <1>2, <1>4
  <2>2. S[h[c]] <= S[h[c] + 1] /\ S[h[c]] \in Nat /\ S[h[c] + 1] \in Nat
    <3>1. h[c] \in 0 .. K + 1 /\ h[c] + 1 \in 0 .. K + 1
      BY <1>1, <2>1
    <3>. QED
      BY <1>2, <2>1, <3>1
  <2>3. \A x \in C[parent[c]] : x < S[h[c] + 1]
    BY <2>1, <2>2
  <2>. QED
    BY <1>2, <2>3
<1>. HIDE DEF G
<1>5. \A c \in N : c \in G
  BY <1>3, <1>4, OverLevels DEF N
<1>. QED
  BY <1>5 DEF G, N

\* It begins with the codes of the classes it descends from.
LEMMA CodesBegin ==
  ASSUME NEW h, NEW K, Levelled(parent, h, K), NEW S, NEW O, NEW C,
         Codes(parent, h, K, S, O, C)
  PROVE  \A c \in DOMAIN parent : \A m \in 0 .. h[c] :
           C[Hierarchy!LineageOf[c][m + 1]] = Start(C[c], S[m + 1])
<1>. DEFINE N == DOMAIN parent
            L == Hierarchy!LineageOf
            G == {c \in N : \A m \in 0 .. h[c] : C[L[c][m + 1]] = Start(C[c], S[m + 1])}
<1>1. /\ Root \in N /\ parent \in [N -> N] /\ K \in Nat /\ h \in [N -> 0 .. K]
      /\ h[Root] = 0 /\ \A c \in N \ {Root} : h[c] = h[parent[c]] + 1
  BY DEF Levelled
<1>2. /\ S \in [0 .. K + 1 -> Nat] /\ \A k \in 0 .. K : S[k] <= S[k + 1]
      /\ C \in [N -> SUBSET Nat] /\ O \in [N -> SUBSET Nat]
      /\ \A c \in N : \A x \in O[c] : S[h[c]] <= x
      /\ \A c \in N \ {Root} : C[c] = C[parent[c]] \cup O[c]
  BY DEF Codes
<1>3. \A c \in N : \A x \in C[c] : x < S[h[c] + 1]
  BY CodesEnd
<1>4. /\ \A c \in N : L[c][h[c] + 1] = c
      /\ \A c \in N \ {Root} : \A m \in 1 .. h[c] : L[c][m] = L[parent[c]][m]
  BY LineageStraight DEF StraightLineage
<1>. HIDE DEF N, L
<1>5. \A c \in N : C[L[c][h[c] + 1]] = Start(C[c], S[h[c] + 1])
  <2>1. \A c \in N : Start(C[c], S[h[c] + 1]) = C[c]
    BY <1>3 DEF Start
  <2>. QED
    BY <1>4, <2>1
<1>6. Root \in G
  <2>1. \A m \in 0 .. h[Root] : m = h[Root]
    BY <1>1
  <2>. QED
    BY <1>1, <1>5, <2>1
<1>7. ASSUME NEW c \in N \ {Root}, parent[c] \in G PROVE c \in G
  <2>. SUFFICES ASSUME NEW m \in 0 .. h[c] PROVE C[L[c][m + 1]] = Start(C[c], S[m + 1])
    OBVIOUS
  <2>0. h[c] = h[parent[c]] + 1 /\ h[c] \in 0 .. K /\ h[parent[c]] \in Nat
    BY <1>1
  <2>1. CASE m = h[c]
    BY <1>5, <2>1
  <2>2. CASE m # h[c]
    <3>1. m \in 0 .. h[parent[c]] /\ m + 1 \in 1 .. h[c] /\ h[c] \in 0 .. K + 1 /\ m + 1 \in 0 .. h[c]
          /\ m + 1 \in 0 .. K + 1
      BY <1>1, <2>0, <2>2
    <3>2. C[L[c][m + 1]] = Start(C[parent[c]], S[m + 1])
      BY <1>4, <1>7, <3>1
    <3>3. S[m + 1] <= S[h[c]] /\ S[m + 1] \in Nat /\ S[h[c]] \in Nat
      BY <1>1, <1>2, <3>1, LevelsGrow
    <3>4. \A x \in O[c] : x \in Nat /\ S[h[c]] <= x
      BY <1>2
    <3>5. \A x \in O[c] : ~(x < S[m + 1])
      BY <3>3, <3>4
    <3>6. Start(C[c], S[m + 1]) = Start(C[parent[c]], S[m + 1])
      BY <1>2, <3>5 DEF Start
    <3>. QED
      BY <3>2, <3>6
  <2>. QED
    BY <2>1, <2>2
<1>. HIDE DEF G
<1>8. \A c \in N : c \in G
  BY <1>6, <1>7, OverLevels DEF N
<1>. QED
  BY <1>8 DEF G, N, L

\* And with no others.
LEMMA CodesTell ==
  ASSUME NEW h, NEW K, Levelled(parent, h, K), NEW S, NEW O, NEW C,
         Codes(parent, h, K, S, O, C)
  PROVE  \A q, c \in DOMAIN parent : C[q] = Start(C[c], S[h[q] + 1]) =>
           h[q] <= h[c] /\ Hierarchy!LineageOf[c][h[q] + 1] = q
<1>. DEFINE N == DOMAIN parent
            L == Hierarchy!LineageOf
            G == {q \in N : \A c \in N : C[q] = Start(C[c], S[h[q] + 1]) =>
                              h[q] <= h[c] /\ L[c][h[q] + 1] = q}
<1>1. /\ Root \in N /\ parent \in [N -> N] /\ K \in Nat /\ h \in [N -> 0 .. K]
      /\ h[Root] = 0 /\ \A c \in N \ {Root} : h[c] = h[parent[c]] + 1
  BY DEF Levelled
<1>2. /\ S \in [0 .. K + 1 -> Nat] /\ \A k \in 0 .. K : S[k] <= S[k + 1]
      /\ C \in [N -> SUBSET Nat] /\ O \in [N -> SUBSET Nat]
      /\ \A c \in N : O[c] # {} /\ \A x \in O[c] : S[h[c]] <= x /\ x < S[h[c] + 1]
      /\ \A c, e \in N \ {Root} : parent[c] = parent[e] /\ O[c] = O[e] => c = e
      /\ \A c \in N \ {Root} : C[c] = C[parent[c]] \cup O[c]
  BY DEF Codes
<1>3. \A c \in N : \A x \in C[c] : x < S[h[c] + 1]
  BY CodesEnd
<1>4. \A c \in N : \A m \in 0 .. h[c] : C[L[c][m + 1]] = Start(C[c], S[m + 1])
  BY CodesBegin
<1>5. /\ \A c \in N : L[c][1] = Root /\ L[c][h[c] + 1] = c
      /\ \A c \in N : \A m \in 1 .. h[c] + 1 : h[L[c][m]] = m - 1 /\ L[c][m] \in N
      /\ \A c \in N : \A m \in 2 .. h[c] + 1 : parent[L[c][m]] = L[c][m - 1]
  <2>1. \A c \in N : L[c] \in Seq(N) /\ Len(L[c]) = h[c] + 1 /\ h[c] \in Nat
    BY <1>1, LineageStraight DEF StraightLineage
  <2>2. \A c \in N : \A m \in 1 .. h[c] + 1 : L[c][m] \in N
    BY <2>1
  <2>3. ASSUME NEW c \in N
        PROVE  /\ L[c][1] = Root /\ L[c][h[c] + 1] = c
               /\ \A m \in 1 .. h[c] + 1 : h[L[c][m]] = m - 1
               /\ \A m \in 2 .. h[c] + 1 : parent[L[c][m]] = L[c][m - 1]
    BY LineageStraight DEF StraightLineage
  <2>. HIDE DEF N, L
  <2>. QED
    BY <2>2, <2>3
<1>. HIDE DEF N, L
<1>6. Root \in G
  BY <1>1, <1>5
<1>7. ASSUME NEW q \in N \ {Root}, parent[q] \in G PROVE q \in G
  <2>. SUFFICES ASSUME NEW c \in N, C[q] = Start(C[c], S[h[q] + 1])
                PROVE  h[q] <= h[c] /\ L[c][h[q] + 1] = q
    OBVIOUS
  <2>. DEFINE p == parent[q]
  <2>1. /\ p \in N /\ h[q] = h[p] + 1 /\ h[p] \in Nat /\ h[q] \in 1 .. K
        /\ h[q] \in 0 .. K + 1 /\ h[q] + 1 \in 0 .. K + 1 /\ h[c] \in 0 .. K
        /\ C[q] = C[p] \cup O[q]
    <3>1. p \in N /\ h[q] = h[p] + 1 /\ h[p] \in 0 .. K /\ h[q] \in 0 .. K /\ h[c] \in 0 .. K
      BY <1>1
    <3>2. C[q] = C[p] \cup O[q]
      BY <1>2
    <3>. HIDE DEF p
    <3>. QED
      BY <1>1, <3>1, <3>2
  <2>2. S[h[q]] \in Nat /\ S[h[q] + 1] \in Nat /\ S[h[q]] <= S[h[q] + 1]
    BY <1>2, <2>1
  <2>3. /\ \A x \in C[p] : x \in Nat /\ x < S[h[q]]
        /\ \A x \in O[q] : x \in Nat /\ S[h[q]] <= x /\ x < S[h[q] + 1]
        /\ \A x \in C[c] : x \in Nat /\ x < S[h[c] + 1]
    BY <1>2, <1>3, <2>1
  <2>. HIDE DEF p
  <2>4. C[p] = Start(C[q], S[h[q]])
    BY <2>1, <2>2, <2>3 DEF Start
  <2>5. C[p] = Start(C[c], S[h[p] + 1])
    <3>1. Start(Start(C[c], S[h[q] + 1]), S[h[q]]) = Start(C[c], S[h[q]])
      <4>1. \A x \in C[c] : x \in Nat
        BY <2>3
      <4>. QED
        BY <2>2, <4>1 DEF Start
    <3>. QED
      BY <2>1, <2>4, <3>1
  <2>6. h[p] <= h[c] /\ L[c][h[p] + 1] = p
    BY <1>7, <2>5 DEF p
  <2>7. h[q] <= h[c]
    <3>. SUFFICES ASSUME h[c] = h[p] PROVE FALSE
      BY <2>1, <2>6
    <3>1. PICK x \in O[q] : TRUE
      BY <1>2
    <3>2. x \in C[q] /\ x \in C[c]
      BY <2>1, <3>1 DEF Start
    <3>. QED
      BY <2>1, <2>2, <2>3, <3>1, <3>2
  <2>. DEFINE e == L[c][h[q] + 1]
  <2>8. /\ e \in N /\ h[e] = h[q] /\ parent[e] = p
        /\ C[e] = C[q]
    <3>1. h[q] + 1 \in 2 .. h[c] + 1 /\ h[q] + 1 \in 1 .. h[c] + 1 /\ h[q] \in 0 .. h[c]
          /\ (h[q] + 1) - 1 = h[p] + 1 /\ (h[q] + 1) - 1 = h[q]
      BY <2>1, <2>7
    <3>2. e \in N /\ h[e] = h[q] /\ parent[e] = L[c][h[p] + 1]
      BY <1>5, <3>1
    <3>3. C[e] = Start(C[c], S[h[q] + 1])
      BY <1>4, <3>1
    <3>. QED
      BY <2>6, <3>2, <3>3
  <2>. HIDE DEF e
  <2>9. e # Root
    BY <1>1, <2>1, <2>8
  <2>10. O[e] = O[q]
    <3>1. C[e] = C[p] \cup O[e]
      BY <1>2, <2>8, <2>9
    <3>2. \A x \in O[e] : x \in Nat /\ S[h[q]] <= x
      BY <1>2, <2>8
    <3>3. \A x \in C[p] : x \notin O[e] /\ x \notin O[q]
      BY <2>2, <2>3, <3>2
    <3>. QED
      BY <2>1, <2>8, <3>1, <3>3
  <2>11. e = q
    BY <1>2, <2>8, <2>9, <2>10 DEF p
  <2>. QED
    BY <2>7, <2>11 DEF e
<1>. HIDE DEF G
<1>8. \A q \in N : q \in G
  BY <1>6, <1>7, OverLevels DEF N
<1>. QED
  BY <1>8 DEF G, N, L

-----------------------------------------------------------------------------
(* Words                                                                   *)

\* Longwords begin a longword apart.
LEMMA WordsApart ==
  ASSUME NEW B \in Nat \ {0}, NEW k \in Nat, NEW m \in Nat, k < m
  PROVE  B * k \in Nat /\ B * m \in Nat /\ B * k + B <= B * m
<1>. DEFINE t == m - k - 1
<1>1. t \in Nat /\ m = k + 1 + t
  OBVIOUS
<1>. HIDE DEF t
<1>2. B * t \in Nat
  BY <1>1
<1>3. B * m = B * k + B + B * t
  BY <1>1
<1>4. B * k \in Nat
  OBVIOUS
<1>. QED
  BY <1>2, <1>3, <1>4

\* The longword a place is in, and where it is there.
LEMMA PlaceIn ==
  ASSUME NEW B \in Nat \ {0}, NEW x \in Nat
  PROVE  /\ x \div B \in Nat /\ x % B \in 0 .. B - 1 /\ B * (x \div B) \in Nat
         /\ x = B * (x \div B) + (x % B)
OBVIOUS

\* There is no other.
LEMMA PlaceOnce ==
  ASSUME NEW B \in Nat \ {0}, NEW k \in Nat, NEW r \in 0 .. B - 1
  PROVE  (B * k + r) \div B = k /\ (B * k + r) % B = r
<1>. DEFINE x == B * k + r
            q == x \div B
            y == B * k
            z == B * q
<1>1. y \in Nat /\ x = y + r
  OBVIOUS
<1>2. x \in Nat
  BY <1>1
<1>3. q \in Nat /\ z \in Nat /\ x % B \in 0 .. B - 1 /\ x = z + (x % B)
  <2>. HIDE DEF x
  <2>. QED
    BY <1>2, PlaceIn
<1>4. q < k => z + B <= y
  <2>. HIDE DEF q
  <2>. QED
    BY <1>3, WordsApart
<1>5. k < q => y + B <= z
  <2>. HIDE DEF q
  <2>. QED
    BY <1>3, WordsApart
<1>6. x % B \in Nat
  BY <1>3
<1>. HIDE DEF x, y, z, q
<1>7. q = k
  BY <1>1, <1>2, <1>3, <1>4, <1>5, <1>6
<1>8. z = y
  BY <1>7 DEF y, z
<1>9. x % B = r
  BY <1>1, <1>3, <1>6, <1>8
<1>. QED
  BY <1>7, <1>9 DEF x, q

\* A shift to the left, by less than a longword,
LEMMA ShiftedLeft ==
  ASSUME Hierarchy!WidthAssumption, NEW w \in SUBSET Hierarchy!Bit, NEW s \in 0 .. BitsPerLong - 1
  PROVE  Hierarchy!ShiftLeft(w, s) = {b \in Hierarchy!Bit : b - s \in w}
<1>1. BitsPerLong \in Nat /\ Hierarchy!Bit = 0 .. BitsPerLong - 1
  BY DEF Hierarchy!WidthAssumption, Hierarchy!Bit
<1>2. Hierarchy!ShiftLeft(w, s) = {b + s : b \in w} \cap Hierarchy!Bit
  BY <1>1 DEF Hierarchy!ShiftLeft
<1>3. \A b \in Hierarchy!Bit : b - s \in w <=> \E x \in w : b = x + s
  BY <1>1
<1>. QED
  BY <1>2, <1>3

\* and any other leave a longword,
LEMMA ShiftLeftType ==
  ASSUME NEW w \in SUBSET Hierarchy!Bit, NEW s
  PROVE  Hierarchy!ShiftLeft(w, s) \in SUBSET Hierarchy!Bit
BY DEF Hierarchy!ShiftLeft

\* as does one to the right.
LEMMA ShiftedRight ==
  ASSUME Hierarchy!WidthAssumption, NEW w \in SUBSET Hierarchy!Bit, NEW s \in 0 .. BitsPerLong
  PROVE  Hierarchy!ShiftRight(w, s) = {b \in Hierarchy!Bit : b + s \in w}
<1>1. BitsPerLong \in Nat /\ Hierarchy!Bit = 0 .. BitsPerLong - 1
  BY DEF Hierarchy!WidthAssumption, Hierarchy!Bit
<1>2. Hierarchy!ShiftRight(w, s) = {b - s : b \in w \ (0 .. s - 1)}
  BY DEF Hierarchy!ShiftRight, Hierarchy!SimpleMask
<1>3. \A x \in w : x \in 0 .. BitsPerLong - 1
  BY <1>1
<1>4. ASSUME NEW x \in w \ (0 .. s - 1) PROVE x - s \in Hierarchy!Bit /\ (x - s) + s = x
  BY <1>1, <1>3
<1>5. ASSUME NEW b \in Hierarchy!Bit, b + s \in w PROVE b + s \in w \ (0 .. s - 1) /\ (b + s) - s = b
  BY <1>1, <1>5
<1>. QED
  BY <1>2, <1>4, <1>5

\* What an encoding is.
Enc ==
  [length : Nat, mask : [Hierarchy!Words -> SUBSET Hierarchy!Bit],
   pattern : [Hierarchy!Words -> SUBSET Hierarchy!Bit]]

\* new is e with bits appended within the longword n,
Within(new, e, sib, local, n, shift) ==
  /\ new = [length |-> new.length, mask |-> new.mask, pattern |-> new.pattern]
  /\ new.length = e.length + local
  /\ new.mask = [k \in Hierarchy!Words |->
       IF k = n THEN e.mask[k] \cup Hierarchy!ShiftLeft(Hierarchy!SimpleMask(local), shift)
                ELSE e.mask[k]]
  /\ new.pattern = [k \in Hierarchy!Words |->
       IF k = n THEN e.pattern[k] \cup Hierarchy!ShiftLeft(Hierarchy!BitsOf(sib), shift)
                ELSE e.pattern[k]]

\* or across its end.
Across(new, e, sib, local, n, low, shift) ==
  /\ new = [length |-> new.length, mask |-> new.mask, pattern |-> new.pattern]
  /\ new.length = e.length + local
  /\ new.mask = [k \in Hierarchy!Words |->
       IF k = n + 1 THEN Hierarchy!ShiftLeft(Hierarchy!SimpleMask(low), shift)
       ELSE IF k = n THEN Hierarchy!SimpleMask(BitsPerLong) ELSE e.mask[k]]
  /\ new.pattern = [k \in Hierarchy!Words |->
       IF k = n + 1 THEN Hierarchy!ShiftLeft(Hierarchy!BitsOf(sib), shift)
       ELSE IF k = n
            THEN e.pattern[k] \cup Hierarchy!ShiftRight(Hierarchy!BitsOf(sib), low)
            ELSE e.pattern[k]]

\* Bits are appended within a longword,
LEMMA WithinIs ==
  ASSUME NEW e \in Enc, NEW sib \in Nat, NEW inh \in Nat, NEW local \in Nat,
         NEW n, n = inh \div BitsPerLong, n = (inh + local) \div BitsPerLong,
         NEW shift, shift = BitsPerLong * (1 + n) - inh - local,
         NEW new, new = Hierarchy!AppendToClassEncoding(e, sib, inh, local)
  PROVE  Within(new, e, sib, local, n, shift)
<1>. DEFINE p == Hierarchy!ShiftLeft(Hierarchy!BitsOf(sib), shift)
            m == Hierarchy!ShiftLeft(Hierarchy!SimpleMask(local), shift)
            W == Hierarchy!Words
            one == Hierarchy!AppendWithin(e, sib, inh, local)
<1>1. new = [one EXCEPT !.length = @ + local]
  BY DEF Hierarchy!AppendToClassEncoding
<1>2. one = [e EXCEPT !.pattern[n] = @ \cup p, !.mask[n] = @ \cup m]
  BY DEF Hierarchy!AppendWithin
<1>3. e = [length |-> e.length, mask |-> e.mask, pattern |-> e.pattern]
      /\ e.mask = [k \in W |-> e.mask[k]] /\ e.pattern = [k \in W |-> e.pattern[k]]
  BY DEF Enc
<1>. HIDE DEF p, m, one, W
<1>4. one = [length |-> e.length,
             mask |-> [k \in W |-> IF k = n THEN e.mask[k] \cup m ELSE e.mask[k]],
             pattern |-> [k \in W |-> IF k = n THEN e.pattern[k] \cup p ELSE e.pattern[k]]]
  BY <1>2, <1>3
<1>5. new = [length |-> e.length + local,
             mask |-> [k \in W |-> IF k = n THEN e.mask[k] \cup m ELSE e.mask[k]],
             pattern |-> [k \in W |-> IF k = n THEN e.pattern[k] \cup p ELSE e.pattern[k]]]
  BY <1>1, <1>4
<1>. QED
  BY <1>5 DEF p, m, W, Within

\* or across the end of one.
LEMMA CrossingIs ==
  ASSUME NEW e \in Enc, NEW sib \in Nat, NEW inh \in Nat, NEW local \in Nat,
         NEW n, n = inh \div BitsPerLong, n # (inh + local) \div BitsPerLong,
         NEW low, low = (inh + local) % BitsPerLong, NEW shift, shift = BitsPerLong - low,
         NEW new, new = Hierarchy!AppendToClassEncoding(e, sib, inh, local)
  PROVE  Across(new, e, sib, local, n, low, shift)
<1>. DEFINE p == Hierarchy!ShiftLeft(Hierarchy!BitsOf(sib), shift)
            q == Hierarchy!ShiftRight(Hierarchy!BitsOf(sib), low)
            m == Hierarchy!ShiftLeft(Hierarchy!SimpleMask(low), shift)
            full == Hierarchy!SimpleMask(BitsPerLong)
            W == Hierarchy!Words
            after == n + 1
            one == Hierarchy!AppendCrossing(e, sib, inh, local)
            M == [k \in W |-> IF k = after THEN m ELSE IF k = n THEN full ELSE e.mask[k]]
            T == [k \in W |-> IF k = after THEN p
                              ELSE IF k = n THEN e.pattern[k] \cup q ELSE e.pattern[k]]
<1>1. new = [one EXCEPT !.length = @ + local]
  BY DEF Hierarchy!AppendToClassEncoding
<1>2. one = [e EXCEPT !.pattern[n] = @ \cup q, !.mask[n] = full,
                      !.pattern[after] = p, !.mask[after] = m]
  BY DEF Hierarchy!AppendCrossing
<1>3. e = [length |-> e.length, mask |-> e.mask, pattern |-> e.pattern]
      /\ e.mask = [k \in W |-> e.mask[k]] /\ e.pattern = [k \in W |-> e.pattern[k]]
  BY DEF Enc
<1>. HIDE DEF p, q, m, full, one, W, after
<1>4. one = [length |-> e.length, mask |-> M, pattern |-> T]
  <2>1. [e.mask EXCEPT ![n] = full, ![after] = m] = M
    BY <1>3
  <2>2. [e.pattern EXCEPT ![n] = @ \cup q, ![after] = p] = T
    BY <1>3
  <2>3. one = [length |-> e.length, mask |-> [e.mask EXCEPT ![n] = full, ![after] = m],
               pattern |-> [e.pattern EXCEPT ![n] = @ \cup q, ![after] = p]]
    BY <1>2, <1>3
  <2>. QED
    BY <2>1, <2>2, <2>3
<1>. HIDE DEF M, T
<1>5. new = [length |-> e.length + local, mask |-> M, pattern |-> T]
  BY <1>1, <1>4
<1>6. /\ new = [length |-> new.length, mask |-> new.mask, pattern |-> new.pattern]
      /\ new.length = e.length + local /\ new.mask = M /\ new.pattern = T
  BY <1>5
<1>. QED
  BY <1>6 DEF p, q, m, full, W, after, M, T, Across

\* The bit b of the longword k has a place in the code; the first is the highest of the first.
Place(k, b) == BitsPerLong * k + (BitsPerLong - 1 - b)

\* The longwords of a code.
At(code) == [k \in Hierarchy!Words |-> {b \in Hierarchy!Bit : Place(k, b) \in code}]

\* Where the longwords before and after one begin.
LEMMA WordBegins ==
  ASSUME NEW B \in Nat \ {0}, NEW n \in Nat, NEW k \in Nat
  PROVE  /\ B * k \in Nat /\ B * n \in Nat
         /\ k = n => B * k = B * n
         /\ k < n => B * k + B <= B * n
         /\ k = n + 1 => B * k = B * n + B
         /\ k > n => B * n + B <= B * k
         /\ k > n + 1 => B * n + B + B <= B * k
<1>1. B * k \in Nat /\ B * n \in Nat /\ B * (n + 1) = B * n + B
  OBVIOUS
<1>2. k < n => B * k + B <= B * n
  BY WordsApart
<1>3. k > n => B * n + B <= B * k
  BY WordsApart
<1>4. k > n + 1 => B * (n + 1) + B <= B * k
  <2>1. n + 1 \in Nat
    OBVIOUS
  <2>. QED
    BY <2>1, WordsApart
<1>. QED
  BY <1>1, <1>2, <1>3, <1>4

\* Where bits are appended, for y the beginning of the longword.
Begins(inh, local, n, r, y) ==
  /\ n = inh \div BitsPerLong /\ n \in Nat /\ r \in 0 .. BitsPerLong - 1
  /\ y \in Nat /\ inh = y + r
  /\ r + local < BitsPerLong =>
       /\ (inh + local) \div BitsPerLong = n /\ (inh + local) % BitsPerLong = r + local
       /\ BitsPerLong * (1 + n) - inh - local = BitsPerLong - r - local
  /\ r + local >= BitsPerLong =>
       /\ (inh + local) \div BitsPerLong = n + 1
       /\ (inh + local) % BitsPerLong = r + local - BitsPerLong
  /\ \A k \in Hierarchy!Words, b \in Hierarchy!Bit : \E z \in Nat :
       /\ k \in Nat /\ b \in Nat /\ b < BitsPerLong
       /\ Place(k, b) = z + (BitsPerLong - 1 - b)
       /\ k = n => z = y
       /\ k < n => z + BitsPerLong <= y
       /\ k = n + 1 => z = y + BitsPerLong
       /\ k > n => y + BitsPerLong <= z
       /\ k > n + 1 => y + BitsPerLong + BitsPerLong <= z

\* There are such n, r and y.
LEMMA AppendBegins ==
  ASSUME Hierarchy!WidthAssumption, Hierarchy!CodeSize \in Nat,
         NEW inh \in Nat, NEW local \in 1 .. BitsPerLong
  PROVE  \E n, r, y : Begins(inh, local, n, r, y)
<1>. DEFINE B == BitsPerLong
            n == inh \div B
            r == inh % B
            y == B * n
<1>1. /\ B \in Nat \ {0} /\ local \in Nat \ {0} /\ local <= B
      /\ Hierarchy!Bit = 0 .. B - 1 /\ \A k \in Hierarchy!Words : k \in Nat
  BY DEF Hierarchy!WidthAssumption, Hierarchy!Bit, Hierarchy!Words
<1>2. n \in Nat /\ r \in 0 .. B - 1 /\ y \in Nat /\ inh = y + r
  <2>. HIDE DEF B
  <2>. QED
    BY <1>1, PlaceIn
<1>3. B * (n + 1) = B * n + B /\ B * (1 + n) = B * n + B /\ n + 1 \in Nat
  <2>. HIDE DEF n, B
  <2>. QED
    BY <1>1, <1>2
<1>4. ASSUME r + local < B
      PROVE  /\ (inh + local) \div B = n /\ (inh + local) % B = r + local
             /\ B * (1 + n) - inh - local = B - r - local
  <2>1. inh + local = B * n + (r + local) /\ r + local \in 0 .. B - 1
    <3>. HIDE DEF B, n, r
    <3>. QED
      BY <1>1, <1>2, <1>4
  <2>. HIDE DEF B, n, r
  <2>2. (B * n + (r + local)) \div B = n /\ (B * n + (r + local)) % B = r + local
    BY <1>1, <1>2, <2>1, PlaceOnce
  <2>3. (inh + local) \div B = n /\ (inh + local) % B = r + local
    BY <2>1, <2>2
  <2>. HIDE DEF y
  <2>4. B * (1 + n) = y + B
    BY <1>3 DEF y
  <2>5. B * (1 + n) - inh - local = B - r - local
    BY <1>1, <1>2, <2>4
  <2>. QED
    BY <2>3, <2>5
<1>5. ASSUME r + local >= B
      PROVE  (inh + local) \div B = n + 1 /\ (inh + local) % B = r + local - B
  <2>1. inh + local = B * (n + 1) + (r + local - B) /\ r + local - B \in 0 .. B - 1
    <3>1. B * (n + 1) = y + B
      BY <1>3
    <3>. HIDE DEF B, n, r, y
    <3>. QED
      BY <1>1, <1>2, <1>5, <3>1
  <2>. HIDE DEF B, n, r
  <2>2. /\ (B * (n + 1) + (r + local - B)) \div B = n + 1
        /\ (B * (n + 1) + (r + local - B)) % B = r + local - B
    BY <1>1, <1>3, <2>1, PlaceOnce
  <2>. QED
    BY <2>1, <2>2
<1>6. ASSUME NEW k \in Hierarchy!Words, NEW b \in Hierarchy!Bit
      PROVE  \E z \in Nat :
               /\ k \in Nat /\ b \in Nat /\ b < B
               /\ Place(k, b) = z + (B - 1 - b)
               /\ k = n => z = y
               /\ k < n => z + B <= y
               /\ k = n + 1 => z = y + B
               /\ k > n => y + B <= z
               /\ k > n + 1 => y + B + B <= z
  <2>1. k \in Nat /\ b \in Nat /\ b < B
    BY <1>1
  <2>2. Place(k, b) = B * k + (B - 1 - b)
    BY DEF Place
  <2>. HIDE DEF B, n
  <2>3. /\ B * k \in Nat
        /\ k = n => B * k = B * n
        /\ k < n => B * k + B <= B * n
        /\ k = n + 1 => B * k = B * n + B
        /\ k > n => B * n + B <= B * k
        /\ k > n + 1 => B * n + B + B <= B * k
    BY <1>1, <1>2, <2>1, WordBegins
  <2>. QED
    BY <2>1, <2>2, <2>3
<1>7. Begins(inh, local, n, r, y)
  <2>. HIDE DEF y, r
  <2>. QED
    BY <1>2, <1>4, <1>5, <1>6 DEF Begins
<1>. QED
  BY <1>7

\* The mask is of the bits there are.
LEMMA MaskAppended ==
  ASSUME Hierarchy!WidthAssumption, Hierarchy!CodeSize \in Nat,
         NEW e \in Enc, NEW sib \in Nat, NEW inh \in Nat, NEW local \in 1 .. BitsPerLong,
         e.mask = At(0 .. inh - 1)
  PROVE  Hierarchy!AppendToClassEncoding(e, sib, inh, local).mask = At(0 .. inh + local - 1)
<1>. DEFINE new == Hierarchy!AppendToClassEncoding(e, sib, inh, local)
            B == BitsPerLong
            W == Hierarchy!Words
            Bit == Hierarchy!Bit
<1>1. /\ B \in Nat \ {0} /\ local \in Nat \ {0} /\ local <= B /\ Bit = 0 .. B - 1
  BY DEF Hierarchy!WidthAssumption, Hierarchy!Bit
<1>2. PICK n, r, y : Begins(inh, local, n, r, y)
  BY AppendBegins
<1>3. n \in Nat /\ r \in Nat /\ r < B /\ y \in Nat /\ inh = y + r
  BY <1>1, <1>2 DEF Begins
<1>4. \A k \in W : e.mask[k] = {b \in Bit : Place(k, b) \in 0 .. inh - 1}
  BY DEF At
<1>5. ASSUME NEW t, t = [k \in W |-> t[k]], new.mask = t,
             \A k \in W : t[k] \in SUBSET Bit,
             \A k \in W, b \in Bit : b \in t[k] <=> Place(k, b) \in 0 .. inh + local - 1
      PROVE  new.mask = At(0 .. inh + local - 1)
  <2>1. \A k \in W : t[k] = {b \in Bit : Place(k, b) \in 0 .. inh + local - 1}
    BY <1>5
  <2>. QED
    BY <1>5, <2>1 DEF At
<1>6. CASE r + local < B
  <2>. DEFINE shift == B - r - local
              s == Hierarchy!ShiftLeft(Hierarchy!SimpleMask(local), shift)
              t == [k \in W |-> IF k = n THEN e.mask[k] \cup s ELSE e.mask[k]]
  <2>1. shift \in 0 .. B - 1 /\ n = (inh + local) \div B /\ shift = B * (1 + n) - inh - local
    BY <1>1, <1>2, <1>3, <1>6 DEF Begins
  <2>2. Hierarchy!SimpleMask(local) = 0 .. local - 1 /\ 0 .. local - 1 \in SUBSET Bit
    BY <1>1 DEF Hierarchy!SimpleMask
  <2>3. s = {b \in Bit : b - shift \in 0 .. local - 1}
    <3>. HIDE DEF shift
    <3>. QED
      BY <2>1, <2>2, ShiftedLeft
  <2>4. new.mask = t
    <3>1. n = inh \div BitsPerLong /\ local \in Nat
      BY <1>1, <1>2 DEF Begins
    <3>. HIDE DEF shift
    <3>2. n = (inh + local) \div BitsPerLong /\ shift = BitsPerLong * (1 + n) - inh - local
      BY <2>1
    <3>. HIDE DEF B, new
    <3>3. new = Hierarchy!AppendToClassEncoding(e, sib, inh, local)
      BY DEF new
    <3>4. Within(new, e, sib, local, n, shift)
      BY <3>1, <3>2, <3>3, WithinIs
    <3>. QED
      BY <3>4 DEF Within
  <2>. HIDE DEF new, s, shift, B, W, Bit
  <2>5. ASSUME NEW k \in W, NEW b \in Bit
        PROVE  b \in t[k] <=> Place(k, b) \in 0 .. inh + local - 1
    <3>1. PICK z \in Nat :
            /\ k \in Nat /\ b \in Nat /\ b < B
            /\ Place(k, b) = z + (B - 1 - b)
            /\ k = n => z = y
            /\ k < n => z + B <= y
            /\ k > n => y + B <= z
      BY <1>2 DEF Begins, W, Bit, B
    <3>2. b \in e.mask[k] <=> Place(k, b) \in 0 .. inh - 1
      BY <1>4
    <3>3. b \in s <=> b - shift \in 0 .. local - 1
      BY <2>3
    <3>4. CASE k = n
      <4>1. b \in t[k] <=> Place(k, b) \in 0 .. inh - 1 \/ b - shift \in 0 .. local - 1
        BY <3>2, <3>3, <3>4
      <4>2. shift = B - r - local
        BY DEF shift
      <4>. QED
        BY <1>1, <1>3, <1>6, <3>1, <3>4, <4>1, <4>2
    <3>5. CASE k # n
      <4>1. b \in t[k] <=> Place(k, b) \in 0 .. inh - 1
        BY <3>2, <3>5
      <4>. QED
        BY <1>1, <1>3, <1>6, <3>1, <3>5, <4>1
    <3>. QED
      BY <3>4, <3>5
  <2>6. \A k \in W : t[k] \in SUBSET Bit
    BY <1>4, <2>3
  <2>. QED
    <3>1. t = [k \in W |-> t[k]]
      OBVIOUS
    <3>. HIDE DEF t
    <3>. QED
      BY <1>5, <2>4, <2>5, <2>6, <3>1 DEF new
<1>7. CASE ~(r + local < B)
  <2>. DEFINE low == r + local - B
              shift == B - low
              s == Hierarchy!ShiftLeft(Hierarchy!SimpleMask(low), shift)
              t == [k \in W |-> IF k = n + 1 THEN s ELSE IF k = n THEN Bit ELSE e.mask[k]]
  <2>1. /\ low \in 0 .. B - 1 /\ n # (inh + local) \div B /\ low = (inh + local) % B
        /\ r + local >= B
    <3>1. r + local >= B
      BY <1>1, <1>3, <1>7
    <3>. QED
      BY <1>1, <1>2, <1>3, <3>1 DEF Begins
  <2>2. Hierarchy!SimpleMask(low) = 0 .. low - 1 /\ 0 .. low - 1 \in SUBSET Bit
    <3>. HIDE DEF low
    <3>. QED
      BY <1>1, <2>1 DEF Hierarchy!SimpleMask
  <2>3. s = {b \in Bit : b - shift \in 0 .. low - 1}
    <3>1. CASE low = 0
      <4>1. s = {}
        <5>1. Hierarchy!SimpleMask(low) = {}
          BY <3>1 DEF Hierarchy!SimpleMask
        <5>. HIDE DEF low, shift
        <5>. QED
          BY <5>1 DEF Hierarchy!ShiftLeft
      <4>2. 0 .. low - 1 = {}
        BY <3>1
      <4>. HIDE DEF low, s
      <4>. QED
        BY <4>1, <4>2
    <3>2. CASE low # 0
      <4>1. shift \in 0 .. B - 1
        <5>. HIDE DEF low
        <5>. QED
          BY <1>1, <2>1, <3>2
      <4>. HIDE DEF low, shift
      <4>. QED
        BY <2>2, <4>1, ShiftedLeft
    <3>. QED
      BY <3>1, <3>2
  <2>4. Hierarchy!SimpleMask(BitsPerLong) = Bit
    BY DEF Hierarchy!SimpleMask, Hierarchy!Bit
  <2>5. new.mask = t
    <3>1. n = inh \div BitsPerLong /\ local \in Nat
      BY <1>1, <1>2 DEF Begins
    <3>. HIDE DEF low
    <3>2. n # (inh + local) \div BitsPerLong /\ low = (inh + local) % BitsPerLong
          /\ shift = BitsPerLong - low
      BY <2>1
    <3>. HIDE DEF B, shift, Bit, new
    <3>3. new = Hierarchy!AppendToClassEncoding(e, sib, inh, local)
      BY DEF new
    <3>4. Across(new, e, sib, local, n, low, shift)
      BY <3>1, <3>2, <3>3, CrossingIs
    <3>. QED
      BY <2>4, <3>4 DEF Across
  <2>. HIDE DEF new, s, low, B, W, Bit
  <2>6. ASSUME NEW k \in W, NEW b \in Bit
        PROVE  b \in t[k] <=> Place(k, b) \in 0 .. inh + local - 1
    <3>1. PICK z \in Nat :
            /\ k \in Nat /\ b \in Nat /\ b < B
            /\ Place(k, b) = z + (B - 1 - b)
            /\ k = n => z = y
            /\ k < n => z + B <= y
            /\ k = n + 1 => z = y + B
            /\ k > n => y + B <= z
            /\ k > n + 1 => y + B + B <= z
      BY <1>2 DEF Begins, W, Bit, B
    <3>2. b \in e.mask[k] <=> Place(k, b) \in 0 .. inh - 1
      BY <1>4
    <3>3. b \in s <=> b - shift \in 0 .. low - 1
      BY <2>3
    <3>0. low = r + local - B /\ r + local >= B
      BY <2>1 DEF low
    <3>4. CASE k = n
      <4>1. b \in t[k] /\ n # n + 1
        BY <1>3, <3>4
      <4>. QED
        BY <1>1, <1>3, <3>0, <3>1, <3>4, <4>1
    <3>5. CASE k = n + 1
      <4>1. b \in t[k] <=> b - (B - low) \in 0 .. low - 1
        BY <3>3, <3>5
      <4>. QED
        BY <1>1, <1>3, <3>0, <3>1, <3>5, <4>1
    <3>6. CASE k # n /\ k # n + 1
      <4>1. b \in t[k] <=> Place(k, b) \in 0 .. inh - 1
        BY <3>2, <3>6
      <4>2. k < n \/ k > n + 1
        BY <1>3, <3>1, <3>6
      <4>. QED
        BY <1>1, <1>3, <3>0, <3>1, <4>1, <4>2
    <3>. QED
      BY <3>4, <3>5, <3>6
  <2>7. \A k \in W : t[k] \in SUBSET Bit
    BY <1>4, <2>3
  <2>. QED
    <3>1. t = [k \in W |-> t[k]]
      OBVIOUS
    <3>. HIDE DEF t
    <3>. QED
      BY <1>5, <2>5, <2>6, <2>7, <3>1 DEF new
<1>. QED
  BY <1>6, <1>7

\* The places of the digits of a number that ends before n.
Ending(digits, n) == {n - 1 - x : x \in digits}

\* A place is that of a digit.
LEMMA EndingIs ==
  ASSUME NEW digits \in SUBSET Nat, NEW n \in Nat
  PROVE  \A x : x \in Ending(digits, n) <=> \E a \in digits : x = n - 1 - a
BY DEF Ending

\* The pattern that is made for a code with one more number.
Appended(e, sib, inh, local, code) ==
  Hierarchy!AppendToClassEncoding(e, sib, inh, local).pattern =
    At(code \cup Ending(Hierarchy!Digits[sib], inh + local))

\* The pattern has the digits of the number in the bits that are new, if they do not end
\* with a longword.
LEMMA PatternAppended ==
  ASSUME Hierarchy!WidthAssumption, Hierarchy!CodeSize \in Nat,
         NEW e \in Enc, NEW sib \in Nat, NEW inh \in Nat, NEW local \in 1 .. BitsPerLong,
         NEW code \in SUBSET (0 .. inh - 1), e.pattern = At(code),
         Hierarchy!Digits[sib] \subseteq 0 .. local - 1, (inh + local) % BitsPerLong # 0
  PROVE  Appended(e, sib, inh, local, code)
<1>. DEFINE new == Hierarchy!AppendToClassEncoding(e, sib, inh, local)
            B == BitsPerLong
            W == Hierarchy!Words
            Bit == Hierarchy!Bit
            D == Hierarchy!Digits[sib]
            all == code \cup Ending(D, inh + local)
<1>1. /\ B \in Nat \ {0} /\ local \in Nat \ {0} /\ local <= B /\ Bit = 0 .. B - 1
  BY DEF Hierarchy!WidthAssumption, Hierarchy!Bit
<1>2. PICK n, r, y : Begins(inh, local, n, r, y)
  BY AppendBegins
<1>3. n \in Nat /\ r \in Nat /\ r < B /\ y \in Nat /\ inh = y + r
  BY <1>1, <1>2 DEF Begins
<1>4. \A k \in W : e.pattern[k] = {b \in Bit : Place(k, b) \in code}
  BY DEF At
<1>5. /\ \A x \in D : x \in Nat /\ x < local
      /\ D \in SUBSET Bit /\ Hierarchy!BitsOf(sib) = D
  <2>1. \A x \in D : x \in Nat /\ x < local
    BY <1>1
  <2>2. D \in SUBSET Bit
    <3>. HIDE DEF D, Bit, B
    <3>. QED
      BY <1>1, <2>1
  <2>3. Hierarchy!BitsOf(sib) = D \cap Bit
    BY DEF Hierarchy!BitsOf
  <2>. HIDE DEF D, Bit
  <2>. QED
    BY <2>1, <2>2, <2>3
<1>6. \A x : x \in code => x \in Nat /\ x < inh
  OBVIOUS
<1>7. \A x \in Nat : x \in all <=> x \in code \/ inh + local - 1 - x \in D
  <2>1. \A x \in Nat : x \in Ending(D, inh + local) <=> inh + local - 1 - x \in D
    <3>. HIDE DEF D
    <3>1. \A x \in Nat : \A a \in D : x = inh + local - 1 - a <=> a = inh + local - 1 - x
      BY <1>1, <1>5
    <3>2. \A x \in Nat : (\E a \in D : x = inh + local - 1 - a) <=> inh + local - 1 - x \in D
      BY <3>1
    <3>3. \A x : x \in Ending(D, inh + local) <=> \E a \in D : x = inh + local - 1 - a
      <4>1. D \in SUBSET Nat /\ inh + local \in Nat
        BY <1>1, <1>5
      <4>. QED
        BY <4>1, EndingIs
    <3>. QED
      BY <3>2, <3>3
  <2>. HIDE DEF D
  <2>. QED
    BY <2>1
<1>8. ASSUME NEW t, t = [k \in W |-> t[k]], new.pattern = t,
             \A k \in W : t[k] \in SUBSET Bit,
             \A k \in W, b \in Bit : b \in t[k] <=> Place(k, b) \in all
      PROVE  new.pattern = At(all)
  <2>. HIDE DEF all
  <2>1. \A k \in W : t[k] = {b \in Bit : Place(k, b) \in all}
    BY <1>8
  <2>. QED
    BY <1>8, <2>1 DEF At
<1>. HIDE DEF all
<1>9. CASE r + local < B
  <2>. DEFINE shift == B - r - local
              s == Hierarchy!ShiftLeft(Hierarchy!BitsOf(sib), shift)
              t == [k \in W |-> IF k = n THEN e.pattern[k] \cup s ELSE e.pattern[k]]
  <2>1. shift \in 0 .. B - 1 /\ n = (inh + local) \div B /\ shift = B * (1 + n) - inh - local
    BY <1>1, <1>2, <1>3, <1>9 DEF Begins
  <2>2. s = {b \in Bit : b - shift \in D}
    <3>. HIDE DEF shift, D
    <3>. QED
      BY <1>5, <2>1, ShiftedLeft
  <2>3. new.pattern = t
    <3>1. n = inh \div BitsPerLong /\ local \in Nat
      BY <1>1, <1>2 DEF Begins
    <3>. HIDE DEF shift
    <3>2. n = (inh + local) \div BitsPerLong /\ shift = BitsPerLong * (1 + n) - inh - local
      BY <2>1
    <3>. HIDE DEF B, new
    <3>3. new = Hierarchy!AppendToClassEncoding(e, sib, inh, local)
      BY DEF new
    <3>4. Within(new, e, sib, local, n, shift)
      BY <3>1, <3>2, <3>3, WithinIs
    <3>. QED
      BY <3>4 DEF Within
  <2>. HIDE DEF new, s, shift, B, W, Bit, D
  <2>4. ASSUME NEW k \in W, NEW b \in Bit
        PROVE  b \in t[k] <=> Place(k, b) \in all
    <3>1. PICK z \in Nat :
            /\ k \in Nat /\ b \in Nat /\ b < B
            /\ Place(k, b) = z + (B - 1 - b)
            /\ k = n => z = y
            /\ k < n => z + B <= y
            /\ k > n => y + B <= z
      BY <1>2 DEF Begins, W, Bit, B
    <3>2. b \in e.pattern[k] <=> Place(k, b) \in code
      BY <1>4
    <3>3. b \in s <=> b - shift \in D
      BY <2>2
    <3>4. Place(k, b) \in all <=> Place(k, b) \in code \/ inh + local - 1 - Place(k, b) \in D
      <4>1. Place(k, b) \in Nat
        BY <1>1, <3>1
      <4>. QED
        BY <1>7, <4>1
    <3>5. CASE k = n
      <4>1. b \in t[k] <=> Place(k, b) \in code \/ b - shift \in D
        BY <3>2, <3>3, <3>5
      <4>2. shift = B - r - local
        BY DEF shift
      <4>3. b - shift = inh + local - 1 - Place(k, b)
        BY <1>1, <1>3, <3>1, <3>5, <4>2
      <4>. QED
        BY <3>4, <4>1, <4>3
    <3>6. CASE k # n
      <4>1. b \in t[k] <=> Place(k, b) \in code
        BY <3>2, <3>6
      <4>2. ~(inh + local - 1 - Place(k, b) \in 0 .. local - 1)
        BY <1>1, <1>3, <1>9, <3>1, <3>6
      <4>3. inh + local - 1 - Place(k, b) \notin D
        BY <1>1, <1>5, <4>2
      <4>. QED
        BY <3>4, <4>1, <4>3
    <3>. QED
      BY <3>5, <3>6
  <2>5. \A k \in W : t[k] \in SUBSET Bit
    BY <1>4, <2>2
  <2>. QED
    <3>1. t = [k \in W |-> t[k]]
      OBVIOUS
    <3>. HIDE DEF t
    <3>. QED
      BY <1>8, <2>3, <2>4, <2>5, <3>1 DEF new, all, D, Appended
<1>10. CASE ~(r + local < B)
  <2>. DEFINE low == r + local - B
              shift == B - low
              s == Hierarchy!ShiftLeft(Hierarchy!BitsOf(sib), shift)
              u == Hierarchy!ShiftRight(Hierarchy!BitsOf(sib), low)
              t == [k \in W |-> IF k = n + 1 THEN s
                                ELSE IF k = n THEN e.pattern[k] \cup u ELSE e.pattern[k]]
  <2>1. /\ low \in 1 .. B - 1 /\ n # (inh + local) \div B /\ low = (inh + local) % B
        /\ r + local >= B
    <3>1. r + local >= B
      BY <1>1, <1>3, <1>10
    <3>2. n # (inh + local) \div B /\ low = (inh + local) % B
      BY <1>1, <1>2, <1>3, <3>1 DEF Begins
    <3>3. low # 0
      BY <3>2
    <3>. QED
      BY <1>1, <1>3, <3>1, <3>2, <3>3
  <2>2. s = {b \in Bit : b - shift \in D}
    <3>1. shift \in 0 .. B - 1
      <4>. HIDE DEF low
      <4>. QED
        BY <1>1, <2>1
    <3>. HIDE DEF shift, D
    <3>. QED
      BY <1>5, <3>1, ShiftedLeft
  <2>3. u = {b \in Bit : b + low \in D}
    <3>1. low \in 0 .. B
      <4>. HIDE DEF low
      <4>. QED
        BY <1>1, <2>1
    <3>. HIDE DEF low, D
    <3>. QED
      BY <1>5, <3>1, ShiftedRight
  <2>4. new.pattern = t
    <3>1. n = inh \div BitsPerLong /\ local \in Nat
      BY <1>1, <1>2 DEF Begins
    <3>. HIDE DEF low
    <3>2. n # (inh + local) \div BitsPerLong /\ low = (inh + local) % BitsPerLong
          /\ shift = BitsPerLong - low
      BY <2>1
    <3>. HIDE DEF B, shift, Bit, new
    <3>3. new = Hierarchy!AppendToClassEncoding(e, sib, inh, local)
      BY DEF new
    <3>4. Across(new, e, sib, local, n, low, shift)
      BY <3>1, <3>2, <3>3, CrossingIs
    <3>. QED
      BY <3>4 DEF Across
  <2>. HIDE DEF new, s, u, low, B, W, Bit, D
  <2>5. ASSUME NEW k \in W, NEW b \in Bit
        PROVE  b \in t[k] <=> Place(k, b) \in all
    <3>1. PICK z \in Nat :
            /\ k \in Nat /\ b \in Nat /\ b < B
            /\ Place(k, b) = z + (B - 1 - b)
            /\ k = n => z = y
            /\ k < n => z + B <= y
            /\ k = n + 1 => z = y + B
            /\ k > n => y + B <= z
            /\ k > n + 1 => y + B + B <= z
      BY <1>2 DEF Begins, W, Bit, B
    <3>2. b \in e.pattern[k] <=> Place(k, b) \in code
      BY <1>4
    <3>3. /\ b \in s <=> b - (B - low) \in D
          /\ b \in u <=> b + low \in D
      BY <2>2, <2>3
    <3>4. Place(k, b) \in all <=> Place(k, b) \in code \/ inh + local - 1 - Place(k, b) \in D
      <4>1. Place(k, b) \in Nat
        BY <1>1, <3>1
      <4>. QED
        BY <1>7, <4>1
    <3>0. low = r + local - B /\ r + local >= B
      BY <2>1 DEF low
    <3>5. CASE k = n
      <4>0. k # n + 1
        BY <1>3, <3>5
      <4>1. b \in t[k] <=> Place(k, b) \in code \/ b + low \in D
        BY <3>2, <3>3, <3>5, <4>0
      <4>2. b + low = inh + local - 1 - Place(k, b)
        BY <1>1, <1>3, <3>0, <3>1, <3>5
      <4>. QED
        BY <3>4, <4>1, <4>2
    <3>6. CASE k = n + 1
      <4>1. b \in t[k] <=> b - (B - low) \in D
        BY <3>3, <3>6
      <4>2. b - (B - low) = inh + local - 1 - Place(k, b) /\ ~(Place(k, b) < inh)
        BY <1>1, <1>3, <3>0, <3>1, <3>6
      <4>3. Place(k, b) \notin code
        BY <1>6, <4>2
      <4>. QED
        BY <3>4, <4>1, <4>2, <4>3
    <3>7. CASE k # n /\ k # n + 1
      <4>1. b \in t[k] <=> Place(k, b) \in code
        BY <3>2, <3>7
      <4>2. k < n \/ k > n + 1
        BY <1>3, <3>1, <3>7
      <4>3. ~(inh + local - 1 - Place(k, b) \in 0 .. local - 1)
        BY <1>1, <1>3, <3>0, <3>1, <4>2
      <4>4. inh + local - 1 - Place(k, b) \notin D
        BY <1>1, <1>5, <4>3
      <4>. QED
        BY <3>4, <4>1, <4>4
    <3>. QED
      BY <3>5, <3>6, <3>7
  <2>6. \A k \in W : t[k] \in SUBSET Bit
    BY <1>4, <2>2, <2>3
  <2>. QED
    <3>1. t = [k \in W |-> t[k]]
      OBVIOUS
    <3>. HIDE DEF t
    <3>. QED
      BY <1>8, <2>4, <2>5, <2>6, <3>1 DEF new, all, D, Appended
<1>. QED
  BY <1>9, <1>10

\* Bits appended to an encoding give an encoding.
LEMMA AppendType ==
  ASSUME Hierarchy!WidthAssumption, Hierarchy!CodeSize \in Nat,
         NEW e \in Enc, NEW sib \in Nat, NEW inh \in Nat, NEW local \in 1 .. BitsPerLong
  PROVE  /\ Hierarchy!AppendToClassEncoding(e, sib, inh, local) \in Enc
         /\ Hierarchy!AppendToClassEncoding(e, sib, inh, local).length = e.length + local
<1>. DEFINE new == Hierarchy!AppendToClassEncoding(e, sib, inh, local)
            W == Hierarchy!Words
            Bit == Hierarchy!Bit
            w == Hierarchy!BitsOf(sib)
<1>1. /\ BitsPerLong \in Nat \ {0} /\ local \in Nat \ {0} /\ local <= BitsPerLong
      /\ Bit = 0 .. BitsPerLong - 1
  BY DEF Hierarchy!WidthAssumption, Hierarchy!Bit
<1>2. w \in SUBSET Bit
  BY DEF Hierarchy!BitsOf
<1>3. /\ e.mask \in [W -> SUBSET Bit] /\ e.pattern \in [W -> SUBSET Bit]
      /\ e.length + local \in Nat
  <2>1. e.mask \in [W -> SUBSET Bit] /\ e.pattern \in [W -> SUBSET Bit] /\ e.length \in Nat
    BY DEF Enc
  <2>. QED
    BY <1>1, <2>1
<1>4. PICK n, r, y : Begins(inh, local, n, r, y)
  BY AppendBegins
<1>5. n = inh \div BitsPerLong /\ n \in Nat /\ local \in Nat /\ r \in 0 .. BitsPerLong - 1
  BY <1>1, <1>4 DEF Begins
<1>. HIDE DEF new, W, Bit, w
<1>6. CASE r + local < BitsPerLong
  <2>. DEFINE shift == BitsPerLong * (1 + n) - inh - local
              s == Hierarchy!ShiftLeft(w, shift)
              m == Hierarchy!ShiftLeft(Hierarchy!SimpleMask(local), shift)
  <2>1. n = (inh + local) \div BitsPerLong
    BY <1>1, <1>4, <1>6 DEF Begins
  <2>2. shift = BitsPerLong * (1 + n) - inh - local
    OBVIOUS
  <2>3. s \in SUBSET Bit
    BY <1>2, ShiftLeftType DEF Bit
  <2>4. m \in SUBSET Bit
    <3>1. Hierarchy!SimpleMask(local) \in SUBSET Bit
      BY <1>1 DEF Hierarchy!SimpleMask
    <3>. QED
      BY <3>1, ShiftLeftType DEF Bit
  <2>. HIDE DEF shift
  <2>5. Within(new, e, sib, local, n, shift)
    <3>1. new = Hierarchy!AppendToClassEncoding(e, sib, inh, local)
      BY DEF new
    <3>. QED
      BY <1>5, <2>1, <2>2, <3>1, WithinIs
  <2>6. /\ new = [length |-> new.length, mask |-> new.mask, pattern |-> new.pattern]
        /\ new.length = e.length + local
        /\ new.mask = [k \in W |-> IF k = n THEN e.mask[k] \cup m ELSE e.mask[k]]
        /\ new.pattern = [k \in W |-> IF k = n THEN e.pattern[k] \cup s ELSE e.pattern[k]]
    BY <2>5 DEF Within, W, w
  <2>. HIDE DEF s, m
  <2>7. new.mask \in [W -> SUBSET Bit] /\ new.pattern \in [W -> SUBSET Bit]
    BY <1>3, <2>3, <2>4, <2>6
  <2>8. new \in [length : Nat, mask : [W -> SUBSET Bit], pattern : [W -> SUBSET Bit]]
    BY <1>3, <2>6, <2>7
  <2>. QED
    BY <2>6, <2>8 DEF Enc, W, Bit, new
<1>7. CASE ~(r + local < BitsPerLong)
  <2>. DEFINE low == (inh + local) % BitsPerLong
              shift == BitsPerLong - low
              s == Hierarchy!ShiftLeft(w, shift)
              u == Hierarchy!ShiftRight(w, low)
              m == Hierarchy!ShiftLeft(Hierarchy!SimpleMask(low), shift)
  <2>1. n # (inh + local) \div BitsPerLong /\ low \in 0 .. BitsPerLong - 1
    <3>1. r + local >= BitsPerLong /\ r + local - BitsPerLong \in 0 .. BitsPerLong - 1
      BY <1>1, <1>5, <1>7
    <3>. QED
      BY <1>1, <1>4, <1>5, <3>1 DEF Begins
  <2>2. low = (inh + local) % BitsPerLong /\ shift = BitsPerLong - low
    OBVIOUS
  <2>3. s \in SUBSET Bit
    BY <1>2, ShiftLeftType DEF Bit
  <2>. HIDE DEF low
  <2>4. m \in SUBSET Bit
    <3>1. Hierarchy!SimpleMask(low) \in SUBSET Bit
      BY <1>1, <2>1 DEF Hierarchy!SimpleMask
    <3>. QED
      BY <3>1, ShiftLeftType DEF Bit
  <2>5. u \in SUBSET Bit
    <3>1. low \in 0 .. BitsPerLong
      BY <1>1, <2>1
    <3>. QED
      BY <1>2, <3>1, ShiftedRight DEF Bit
  <2>6. Hierarchy!SimpleMask(BitsPerLong) \in SUBSET Bit
    BY <1>1 DEF Hierarchy!SimpleMask
  <2>. HIDE DEF shift
  <2>7. Across(new, e, sib, local, n, low, shift)
    <3>1. new = Hierarchy!AppendToClassEncoding(e, sib, inh, local)
      BY DEF new
    <3>. QED
      BY <1>5, <2>1, <2>2, <3>1, CrossingIs
  <2>. DEFINE full == Hierarchy!SimpleMask(BitsPerLong)
  <2>8. /\ new = [length |-> new.length, mask |-> new.mask, pattern |-> new.pattern]
        /\ new.length = e.length + local
        /\ new.mask = [k \in W |-> IF k = n + 1 THEN m ELSE IF k = n THEN full ELSE e.mask[k]]
        /\ new.pattern = [k \in W |-> IF k = n + 1 THEN s
                                      ELSE IF k = n THEN e.pattern[k] \cup u ELSE e.pattern[k]]
    BY <2>7 DEF Across, W, w
  <2>. HIDE DEF s, u, m, full
  <2>9. new.mask \in [W -> SUBSET Bit] /\ new.pattern \in [W -> SUBSET Bit]
    <3>1. full \in SUBSET Bit
      BY <2>6 DEF full
    <3>. QED
      BY <1>3, <2>3, <2>4, <2>5, <2>8, <3>1
  <2>10. new \in [length : Nat, mask : [W -> SUBSET Bit], pattern : [W -> SUBSET Bit]]
    BY <1>3, <2>8, <2>9
  <2>. QED
    BY <2>8, <2>10 DEF Enc, W, Bit, new
<1>. QED
  BY <1>6, <1>7

\* A mask that is made again from its length is that of the bits there are.
LEMMA MaskLengthIs ==
  ASSUME Hierarchy!WidthAssumption, Hierarchy!CodeSize \in Nat, NEW n \in Nat
  PROVE  Hierarchy!SetInhMaskLength(n) = At(0 .. n - 1)
<1>. DEFINE B == BitsPerLong
            W == Hierarchy!Words
            Bit == Hierarchy!Bit
            M(k) == LET left == n - k * B
                    IN  IF left >= B THEN Hierarchy!SimpleMask(B)
                        ELSE IF left <= 0 THEN {} ELSE Hierarchy!TopBits(left)
<1>1. B \in Nat \ {0} /\ Bit = 0 .. B - 1 /\ \A k \in W : k \in Nat
  BY DEF Hierarchy!WidthAssumption, Hierarchy!Bit, Hierarchy!Words
<1>2. Hierarchy!SetInhMaskLength(n) = [k \in W |-> M(k)]
  BY DEF Hierarchy!SetInhMaskLength
<1>3. ASSUME NEW k \in W PROVE M(k) = {b \in Bit : Place(k, b) \in 0 .. n - 1}
  <2>. DEFINE z == B * k
              left == n - k * B
  <2>1. z \in Nat /\ left = n - z
    BY <1>1
  <2>2. \A b \in Bit : Place(k, b) = z + (B - 1 - b)
    BY DEF Place
  <2>3. Hierarchy!SimpleMask(B) = Bit /\ Hierarchy!TopBits(left) = B - left .. B - 1
    BY DEF Hierarchy!SimpleMask, Hierarchy!Bit, Hierarchy!TopBits
  <2>4. M(k) = IF left >= B THEN Bit ELSE IF left <= 0 THEN {} ELSE B - left .. B - 1
    <3>. HIDE DEF Bit, B
    <3>. QED
      BY <2>3
  <2>. HIDE DEF z, left, B, Bit, M
  <2>5. ASSUME NEW b \in Bit
        PROVE  b \in M(k) <=> Place(k, b) \in 0 .. n - 1
    <3>1. b \in Nat /\ b < B /\ Place(k, b) = z + (B - 1 - b)
      BY <1>1, <2>2
    <3>2. CASE left >= B
      BY <1>1, <2>1, <2>4, <3>1, <3>2
    <3>3. CASE ~(left >= B) /\ left <= 0
      BY <1>1, <2>1, <2>4, <3>1, <3>3
    <3>4. CASE ~(left >= B) /\ ~(left <= 0)
      BY <1>1, <2>1, <2>4, <3>1, <3>4
    <3>. QED
      BY <3>2, <3>3, <3>4
  <2>6. M(k) \in SUBSET Bit
    <3>1. ~(left >= B) /\ ~(left <= 0) => B - left .. B - 1 \in SUBSET (0 .. B - 1)
      BY <1>1, <2>1
    <3>. QED
      BY <1>1, <2>4, <3>1
  <2>. QED
    BY <2>5, <2>6
<1>. HIDE DEF M
<1>. QED
  BY <1>2, <1>3 DEF At

\* The masked comparison of two codes that fit.
LEMMA ComparesAs ==
  ASSUME Hierarchy!WidthAssumption, Hierarchy!TotalBits \in Nat, NEW n \in Nat,
         NEW c \in SUBSET (0 .. Hierarchy!TotalBits - 1),
         NEW q \in SUBSET (0 .. Hierarchy!TotalBits - 1)
  PROVE  (\A k \in Hierarchy!Words : At(q)[k] = At(c)[k] \cap At(0 .. n - 1)[k])
           <=> q = Start(c, n)
<1>. DEFINE B == BitsPerLong
            W == Hierarchy!Words
            Bit == Hierarchy!Bit
            T == Hierarchy!TotalBits
            l == T \div B
<1>1. /\ B \in Nat \ {0} /\ Bit = 0 .. B - 1
      /\ \A x \in c : x \in Nat /\ x < T
      /\ \A x \in q : x \in Nat /\ x < T
  BY DEF Hierarchy!WidthAssumption, Hierarchy!Bit
<1>2. l \in Nat /\ W = 0 .. l /\ \E y \in Nat : y = B * l /\ T < y + B
  <2>1. l \in Nat /\ T % B \in 0 .. B - 1 /\ B * l \in Nat /\ T = B * l + (T % B)
    <3>. HIDE DEF B, T
    <3>. QED
      BY <1>1, PlaceIn DEF T
  <2>2. W = 0 .. (1 + l) - 1
    BY DEF Hierarchy!Words, Hierarchy!CodeSize
  <2>. HIDE DEF B, T, l
  <2>3. T < B * l + B
    <3>1. T % B \in Nat /\ T % B < B
      BY <1>1, <2>1
    <3>. QED
      BY <1>1, <2>1, <3>1
  <2>4. (1 + l) - 1 = l
    BY <2>1
  <2>. QED
    BY <2>1, <2>2, <2>3, <2>4
<1>3. ASSUME NEW x \in Nat, x < T PROVE \E k \in W, b \in Bit : Place(k, b) = x
  <2>. DEFINE k == x \div B
              r == x % B
              z == B * k
  <2>1. k \in Nat /\ r \in 0 .. B - 1 /\ z \in Nat /\ x = z + r
    <3>. HIDE DEF B
    <3>. QED
      BY <1>1, PlaceIn
  <2>. HIDE DEF k, r
  <2>2. k <= l
    <3>. SUFFICES ASSUME l < k PROVE FALSE
      <4>. HIDE DEF l
      <4>. QED
        BY <1>2, <2>1
    <3>1. PICK y \in Nat : y = B * l /\ T < y + B
      BY <1>2
    <3>. HIDE DEF l, B
    <3>2. B * l + B <= z
      BY <1>1, <1>2, <2>1, WordsApart
    <3>. HIDE DEF z
    <3>. QED
      BY <1>1, <1>3, <2>1, <3>1, <3>2
  <2>3. k \in W
    <3>. HIDE DEF l, W
    <3>. QED
      BY <1>2, <2>1, <2>2
  <2>. DEFINE b == B - 1 - r
  <2>4. b \in Bit
    <3>. HIDE DEF Bit
    <3>. QED
      BY <1>1, <2>1
  <2>5. Place(k, b) = x
    <3>1. Place(k, b) = z + (B - 1 - (B - 1 - r))
      BY DEF Place
    <3>. HIDE DEF z
    <3>. QED
      BY <1>1, <2>1, <3>1
  <2>. QED
    BY <2>3, <2>4, <2>5
<1>4. \A k \in W, b \in Bit : Place(k, b) \in Nat
  <2>. SUFFICES ASSUME NEW k \in W, NEW b \in Bit PROVE Place(k, b) \in Nat
    OBVIOUS
  <2>1. k \in Nat /\ b \in Nat /\ b <= B - 1
    <3>. HIDE DEF W, Bit, B, l
    <3>. QED
      BY <1>1, <1>2
  <2>2. B * k \in Nat
    BY <1>1, <2>1
  <2>3. Place(k, b) = B * k + (B - 1 - b)
    BY DEF Place
  <2>. QED
    BY <1>1, <2>1, <2>2, <2>3
<1>5. \A k \in W : /\ At(q)[k] = {b \in Bit : Place(k, b) \in q}
                   /\ At(c)[k] = {b \in Bit : Place(k, b) \in c}
                   /\ At(0 .. n - 1)[k] = {b \in Bit : Place(k, b) \in 0 .. n - 1}
  BY DEF At
<1>. HIDE DEF B, W, Bit, T, l
<1>6. (\A k \in W : At(q)[k] = At(c)[k] \cap At(0 .. n - 1)[k])
        <=> \A k \in W, b \in Bit : Place(k, b) \in q <=> Place(k, b) \in c /\ Place(k, b) < n
  <2>1. \A k \in W, b \in Bit : Place(k, b) \in 0 .. n - 1 <=> Place(k, b) < n
    BY <1>4
  <2>. QED
    BY <1>5, <2>1
<1>7. ASSUME \A k \in W, b \in Bit : Place(k, b) \in q <=> Place(k, b) \in c /\ Place(k, b) < n
      PROVE  q = Start(c, n)
  <2>1. \A x \in q : x \in c /\ x < n
    BY <1>1, <1>3, <1>7
  <2>2. \A x \in c : x < n => x \in q
    BY <1>1, <1>3, <1>7
  <2>. QED
    BY <2>1, <2>2 DEF Start
<1>8. ASSUME q = Start(c, n)
      PROVE  \A k \in W, b \in Bit : Place(k, b) \in q <=> Place(k, b) \in c /\ Place(k, b) < n
  BY <1>8 DEF Start
<1>. QED
  BY <1>6, <1>7, <1>8 DEF W

-----------------------------------------------------------------------------
(* The encodings                                                           *)

\* What the constants of the hierarchy are.
HierarchyAssumption ==
  Hierarchy!RootAssumption /\ Hierarchy!WidthAssumption /\ Hierarchy!CountAssumption

\* Where the levels of the tree begin in the codes.
Sizes(h, K, S) ==
  /\ ClassTree(h, K) /\ K \in Nat /\ Hierarchy!Levels = 0 .. K
  /\ S \in [0 .. K + 1 -> Nat] /\ S[0] = 0 /\ S[1] = 1
  /\ \A m \in 0 .. K + 1 : Hierarchy!InhBits(m) = S[m]
  /\ \A m \in 0 .. K : /\ Hierarchy!LocalBits(m) \in 1 .. BitsPerLong
                       /\ S[m + 1] = S[m] + Hierarchy!LocalBits(m)
  /\ Hierarchy!TotalBits = S[K + 1] /\ Hierarchy!CodeSize \in Nat
  /\ \A c \in DOMAIN parent :
       /\ Hierarchy!Depth(c) = h[c]
       /\ Hierarchy!SiblingNumber(c) \in Nat \ {0}
       /\ Hierarchy!Digits[Hierarchy!SiblingNumber(c)]
            \subseteq 0 .. Hierarchy!LocalBits(h[c]) - 1

\* A tree of classes has them.
LEMMA SizesAre ==
  ASSUME HierarchyAssumption, NEW h, NEW K0, ClassTree(h, K0)
  PROVE  \E K, S : Sizes(h, K, S)
<1>. DEFINE K == Hierarchy!Max(Hierarchy!Levels)
            S == [m \in 0 .. K + 1 |-> Hierarchy!InhBits(m)]
            B == BitsPerLong
<1>1. K \in Nat /\ Hierarchy!Levels = 0 .. K /\ ClassTree(h, K)
  BY LevelsAre
<1>2. Hierarchy!TotalBits = Hierarchy!InhBits(K + 1)
  BY DEF Hierarchy!TotalBits
<1>. HIDE DEF K
<1>3. ASSUME NEW m \in 0 .. K
      PROVE  /\ Hierarchy!LocalBits(m) \in 1 .. B
             /\ m = 0 => Hierarchy!LocalBits(m) = 1
             /\ \A c \in DOMAIN parent : h[c] = m =>
                  /\ Hierarchy!SiblingNumber(c) \in Nat \ {0}
                  /\ Hierarchy!Digits[Hierarchy!SiblingNumber(c)]
                       \subseteq 0 .. Hierarchy!LocalBits(m) - 1
  BY <1>1, LocalBitsAre DEF HierarchyAssumption
<1>4. B \in Nat \ {0}
  BY DEF HierarchyAssumption, Hierarchy!WidthAssumption
<1>5. /\ Hierarchy!InhBits(0) = 0
      /\ \A m \in 0 .. K + 1 : Hierarchy!InhBits(m) \in Nat
      /\ \A m \in 0 .. K :
           Hierarchy!InhBits(m + 1) = Hierarchy!InhBits(m) + Hierarchy!LocalBits(m)
  <2>1. \A m \in 0 .. K : Hierarchy!LocalBits(m) \in Nat
    BY <1>3, <1>4
  <2>. QED
    BY <1>1, <2>1, InhBitsAre
<1>6. \A c \in DOMAIN parent : Hierarchy!Depth(c) = h[c] /\ h[c] \in 0 .. K
  <2>1. Levelled(parent, h, K)
    BY <1>1 DEF ClassTree
  <2>. QED
    BY <2>1, DepthIs DEF Levelled
<1>7. 0 \in 0 .. K + 1 /\ 1 \in 0 .. K + 1 /\ 0 \in 0 .. K /\ K + 1 \in 0 .. K + 1
      /\ \A m \in 0 .. K : m \in 0 .. K + 1 /\ m + 1 \in 0 .. K + 1
  BY <1>1
<1>8. S \in [0 .. K + 1 -> Nat] /\ \A m \in 0 .. K + 1 : S[m] = Hierarchy!InhBits(m)
  BY <1>5
<1>. HIDE DEF S, B
<1>9. S[0] = 0 /\ Hierarchy!TotalBits = S[K + 1]
      /\ \A m \in 0 .. K : S[m + 1] = S[m] + Hierarchy!LocalBits(m)
  BY <1>2, <1>5, <1>7, <1>8
<1>10. S[1] = 1
  <2>1. S[0 + 1] = S[0] + Hierarchy!LocalBits(0) /\ Hierarchy!LocalBits(0) = 1
    BY <1>3, <1>7, <1>9
  <2>. QED
    BY <1>9, <2>1
<1>11. Hierarchy!CodeSize \in Nat
  <2>1. Hierarchy!TotalBits \in Nat
    BY <1>7, <1>8, <1>9
  <2>2. Hierarchy!TotalBits \div B \in Nat
    BY <1>4, <2>1, PlaceIn
  <2>. QED
    BY <2>2 DEF Hierarchy!CodeSize, B
<1>12. \A c \in DOMAIN parent :
         /\ Hierarchy!SiblingNumber(c) \in Nat \ {0}
         /\ Hierarchy!Digits[Hierarchy!SiblingNumber(c)]
              \subseteq 0 .. Hierarchy!LocalBits(h[c]) - 1
  BY <1>3, <1>6
<1>13. Sizes(h, K, S)
  BY <1>1, <1>3, <1>6, <1>8, <1>9, <1>10, <1>11, <1>12 DEF Sizes, B
<1>. QED
  BY <1>13

\* The encodings, from the class above.
EncodedBy(E) ==
  /\ E \in [DOMAIN parent -> Enc]
  /\ \A c \in DOMAIN parent :
       E[c] = Hierarchy!AppendToClassEncoding(
                IF c = Root THEN Hierarchy!EmptyEncoding ELSE E[parent[c]],
                Hierarchy!SiblingNumber(c), Hierarchy!InhBits(Hierarchy!Depth(c)),
                Hierarchy!LocalBits(Hierarchy!Depth(c)))

\* Nothing is encoded yet.
LEMMA EmptyIs ==
  /\ Hierarchy!EmptyEncoding \in Enc /\ Hierarchy!EmptyEncoding.length = 0
  /\ Hierarchy!EmptyEncoding.mask = At({}) /\ Hierarchy!EmptyEncoding.pattern = At({})
BY DEF Hierarchy!EmptyEncoding, Enc, At

\* The compiler makes those.
LEMMA EncodingIs ==
  ASSUME HierarchyAssumption, NEW h, NEW K, NEW S, Sizes(h, K, S)
  PROVE  EncodedBy(Hierarchy!GenerateInhPatterns)
<1>. DEFINE N == DOMAIN parent
            A(c, e) == Hierarchy!AppendToClassEncoding(e,
                         Hierarchy!SiblingNumber(c), Hierarchy!InhBits(Hierarchy!Depth(c)),
                         Hierarchy!LocalBits(Hierarchy!Depth(c)))
            empty == Hierarchy!EmptyEncoding
            r == A(Root, empty)
            G == [x \in N \X Enc |-> A(x[1], x[2])]
            Def(f) == f = [c \in N |-> A(c, IF c = Root THEN empty ELSE f[parent[c]])]
            E == Hierarchy!GenerateInhPatterns
<1>1. Levelled(parent, h, K) /\ Root \in N /\ parent \in [N -> N]
  BY DEF Sizes, ClassTree, Levelled
<1>2. ASSUME NEW c \in N, NEW e \in Enc PROVE A(c, e) \in Enc
  <2>1. /\ h[c] \in 0 .. K /\ h[c] \in 0 .. K + 1 /\ Hierarchy!Depth(c) = h[c]
        /\ Hierarchy!SiblingNumber(c) \in Nat
    BY <1>1 DEF Sizes, Levelled
  <2>2. Hierarchy!InhBits(h[c]) \in Nat /\ Hierarchy!LocalBits(h[c]) \in 1 .. BitsPerLong
        /\ Hierarchy!CodeSize \in Nat
    BY <2>1 DEF Sizes
  <2>. QED
    BY <2>1, <2>2, AppendType DEF HierarchyAssumption
<1>3. empty \in Enc
  BY EmptyIs
<1>. HIDE DEF A, N, empty
<1>4. r \in Enc /\ G \in [N \X Enc -> Enc] /\ \A c \in N, e \in Enc : G[<<c, e>>] = A(c, e)
  BY <1>1, <1>2, <1>3
<1>. HIDE DEF G, r
<1>5. PICK f \in [N -> Enc] : DownBy(f, parent, r, G)
  BY <1>1, <1>4, DownRecursion DEF N
<1>6. f[Root] = r /\ \A c \in N \ {Root} : f[c] = A(c, f[parent[c]])
  <2>1. \A c \in N \ {Root} : f[c] = G[<<c, f[parent[c]]>>] /\ f[parent[c]] \in Enc
    BY <1>1, <1>5 DEF DownBy, N
  <2>. QED
    BY <1>4, <1>5, <2>1 DEF DownBy
<1>7. Def(f)
  <2>1. f = [c \in N |-> f[c]]
    BY <1>5
  <2>2. \A c \in N : f[c] = A(c, IF c = Root THEN empty ELSE f[parent[c]])
    BY <1>6 DEF r
  <2>. QED
    BY <2>1, <2>2
<1>8. E = CHOOSE g : Def(g)
  BY DEF Hierarchy!GenerateInhPatterns, Hierarchy!Declared, A, N, empty
<1>9. Def(E)
  <2>. HIDE DEF Def, E
  <2>. QED
    BY <1>7, <1>8
<1>. HIDE DEF E
<1>10. \A c \in N : E[c] = A(c, IF c = Root THEN empty ELSE E[parent[c]])
  BY <1>9
<1>11. \A c \in N : E[c] \in Enc
  <2>. DEFINE H == {c \in N : E[c] \in Enc}
  <2>1. Root \in H
    BY <1>1, <1>2, <1>3, <1>10
  <2>2. ASSUME NEW c \in N \ {Root}, parent[c] \in H PROVE c \in H
    BY <1>2, <1>10, <2>2
  <2>. HIDE DEF H
  <2>3. \A c \in N : c \in H
    BY <1>1, <2>1, <2>2, OverLevels DEF N
  <2>. QED
    BY <2>3 DEF H
<1>12. E \in [N -> Enc]
  BY <1>9, <1>11
<1>. QED
  BY <1>10, <1>12 DEF EncodedBy, A, N, empty, E

\* The masks are of the bits of the levels down to that of the class.
LEMMA MasksAre ==
  ASSUME HierarchyAssumption, NEW h, NEW K, NEW S, Sizes(h, K, S), NEW E, EncodedBy(E)
  PROVE  \A c \in DOMAIN parent :
           E[c].length = S[h[c] + 1] /\ E[c].mask = At(0 .. S[h[c] + 1] - 1)
<1>. DEFINE N == DOMAIN parent
            G == {c \in N : E[c].length = S[h[c] + 1] /\ E[c].mask = At(0 .. S[h[c] + 1] - 1)}
            empty == Hierarchy!EmptyEncoding
<1>1. /\ Levelled(parent, h, K) /\ Root \in N /\ parent \in [N -> N] /\ h[Root] = 0 /\ K \in Nat
      /\ h \in [N -> 0 .. K] /\ \A c \in N \ {Root} : h[c] = h[parent[c]] + 1
  BY DEF Sizes, ClassTree, Levelled
<1>. HIDE DEF N, empty
<1>2. ASSUME NEW c \in N, NEW e \in Enc, e.length = S[h[c]], e.mask = At(0 .. S[h[c]] - 1),
             E[c] = Hierarchy!AppendToClassEncoding(e,
                      Hierarchy!SiblingNumber(c), Hierarchy!InhBits(Hierarchy!Depth(c)),
                      Hierarchy!LocalBits(Hierarchy!Depth(c)))
      PROVE  c \in G
  <2>. DEFINE s == Hierarchy!SiblingNumber(c)
              inh == S[h[c]]
              b == Hierarchy!LocalBits(h[c])
  <2>1. /\ h[c] \in 0 .. K /\ h[c] \in 0 .. K + 1 /\ Hierarchy!Depth(c) = h[c] /\ s \in Nat
    BY <1>1 DEF Sizes, N
  <2>2. /\ Hierarchy!InhBits(h[c]) = inh /\ inh \in Nat /\ b \in 1 .. BitsPerLong
        /\ Hierarchy!CodeSize \in Nat /\ S[h[c] + 1] = inh + b
    BY <2>1 DEF Sizes
  <2>3. E[c] = Hierarchy!AppendToClassEncoding(e, s, inh, b)
    BY <1>2, <2>1, <2>2
  <2>. HIDE DEF s, inh, b
  <2>4. E[c].length = e.length + b
    BY <2>1, <2>2, <2>3, AppendType DEF HierarchyAssumption
  <2>5. E[c].mask = At(0 .. inh + b - 1)
    BY <1>2, <2>1, <2>2, <2>3, MaskAppended DEF HierarchyAssumption, inh
  <2>. QED
    BY <1>2, <2>2, <2>4, <2>5 DEF inh
<1>3. Root \in G
  <2>1. S[0] = 0 /\ 0 .. 0 - 1 = {}
    BY DEF Sizes
  <2>2. empty \in Enc /\ empty.length = S[h[Root]] /\ empty.mask = At(0 .. S[h[Root]] - 1)
    BY <1>1, <2>1, EmptyIs DEF empty
  <2>3. E[Root] = Hierarchy!AppendToClassEncoding(empty,
                    Hierarchy!SiblingNumber(Root), Hierarchy!InhBits(Hierarchy!Depth(Root)),
                    Hierarchy!LocalBits(Hierarchy!Depth(Root)))
    BY <1>1 DEF EncodedBy, N, empty
  <2>. HIDE DEF G
  <2>. QED
    BY <1>1, <1>2, <2>2, <2>3
<1>4. ASSUME NEW c \in N \ {Root}, parent[c] \in G PROVE c \in G
  <2>. DEFINE e == E[parent[c]]
  <2>1. e \in Enc
    BY <1>1 DEF EncodedBy, N
  <2>2. e.length = S[h[c]] /\ e.mask = At(0 .. S[h[c]] - 1)
    BY <1>1, <1>4
  <2>3. E[c] = Hierarchy!AppendToClassEncoding(e,
                 Hierarchy!SiblingNumber(c), Hierarchy!InhBits(Hierarchy!Depth(c)),
                 Hierarchy!LocalBits(Hierarchy!Depth(c)))
    BY DEF EncodedBy, N
  <2>. HIDE DEF G, e
  <2>. QED
    BY <1>2, <2>1, <2>2, <2>3
<1>. HIDE DEF G
<1>5. \A c \in N : c \in G
  BY <1>1, <1>3, <1>4, OverLevels DEF N
<1>. QED
  BY <1>5 DEF G, N

-----------------------------------------------------------------------------
(* The patterns                                                            *)

\* The bits of a class itself: the digits of its number among its siblings.
Own(h, S) ==
  [c \in DOMAIN parent |->
     Ending(Hierarchy!Digits[Hierarchy!SiblingNumber(c)], S[h[c] + 1])]

\* Different digits have different places.
LEMMA EndingApart ==
  ASSUME NEW n \in Nat, NEW a \in SUBSET Nat, NEW b \in SUBSET Nat, Ending(a, n) = Ending(b, n)
  PROVE  a = b
<1>1. ASSUME NEW x \in Nat PROVE x \in a <=> n - 1 - x \in Ending(a, n)
  <2>1. \A y \in a : n - 1 - x = n - 1 - y => x = y
    OBVIOUS
  <2>. QED
    BY <2>1 DEF Ending
<1>2. ASSUME NEW x \in Nat PROVE x \in b <=> n - 1 - x \in Ending(b, n)
  <2>1. \A y \in b : n - 1 - x = n - 1 - y => x = y
    OBVIOUS
  <2>. QED
    BY <2>1 DEF Ending
<1>. QED
  BY <1>1, <1>2

\* The classes have codes.
LEMMA CodesAre ==
  ASSUME HierarchyAssumption, NEW h, NEW K, NEW S, Sizes(h, K, S)
  PROVE  \E C : Codes(parent, h, K, S, Own(h, S), C)
<1>. DEFINE N == DOMAIN parent
            O == Own(h, S)
            D == Hierarchy!Digits
            sib(c) == Hierarchy!SiblingNumber(c)
            b(m) == Hierarchy!LocalBits(m)
            V == SUBSET Nat
            G == [x \in N \X V |-> x[2] \cup O[x[1]]]
<1>1. /\ Levelled(parent, h, K) /\ Root \in N /\ parent \in [N -> N] /\ K \in Nat
      /\ h \in [N -> 0 .. K] /\ \A c \in N \ {Root} : h[c] = h[parent[c]] + 1
  BY DEF Sizes, ClassTree, Levelled
<1>2. /\ S \in [0 .. K + 1 -> Nat]
      /\ \A m \in 0 .. K : b(m) \in 1 .. BitsPerLong /\ S[m + 1] = S[m] + b(m)
      /\ \A c \in N : sib(c) \in Nat \ {0} /\ D[sib(c)] \subseteq 0 .. b(h[c]) - 1
  BY DEF Sizes
<1>3. BitsPerLong \in Nat
  BY DEF HierarchyAssumption, Hierarchy!WidthAssumption
<1>4. /\ \A c \in N : O[c] = Ending(D[sib(c)], S[h[c] + 1])
      /\ DOMAIN O = N /\ O = [c \in N |-> O[c]]
  BY DEF Own
<1>5. \A c \in N : D[sib(c)] # {}
  BY <1>2, DigitsNone
<1>. HIDE DEF O, D, sib, b, N
<1>6. \A k \in 0 .. K : S[k] \in Nat /\ S[k + 1] \in Nat /\ b(k) \in Nat /\ S[k + 1] = S[k] + b(k)
  <2>1. \A k \in 0 .. K : k \in 0 .. K + 1 /\ k + 1 \in 0 .. K + 1
    BY <1>1
  <2>. QED
    BY <1>2, <1>3, <2>1
<1>7. ASSUME NEW c \in N
      PROVE  O[c] # {} /\ \A x \in O[c] : x \in Nat /\ S[h[c]] <= x /\ x < S[h[c] + 1]
  <2>1. h[c] \in 0 .. K
    BY <1>1
  <2>2. ASSUME NEW x \in O[c] PROVE x \in Nat /\ S[h[c]] <= x /\ x < S[h[c] + 1]
    <3>1. PICK a \in D[sib(c)] : x = S[h[c] + 1] - 1 - a
      BY <1>4 DEF Ending
    <3>2. a \in 0 .. b(h[c]) - 1
      BY <1>2, <3>1
    <3>. QED
      BY <1>6, <2>1, <3>1, <3>2
  <2>3. O[c] # {}
    BY <1>4, <1>5 DEF Ending
  <2>. QED
    BY <2>2, <2>3
<1>8. O \in [N -> V]
  BY <1>4, <1>7
<1>9. ASSUME NEW c \in N \ {Root}, NEW e \in N \ {Root}, parent[c] = parent[e], O[c] = O[e]
      PROVE  c = e
  <2>1. h[c] = h[e] /\ h[c] \in 0 .. K
    BY <1>1, <1>9
  <2>2. D[sib(c)] \in SUBSET Nat /\ D[sib(e)] \in SUBSET Nat
    BY <1>2, DigitsAre DEF D
  <2>3. S[h[c] + 1] \in Nat
    BY <1>6, <2>1
  <2>4. Ending(D[sib(c)], S[h[c] + 1]) = Ending(D[sib(e)], S[h[c] + 1])
    BY <1>4, <1>9, <2>1
  <2>5. D[sib(c)] = D[sib(e)]
    BY <2>2, <2>3, <2>4, EndingApart
  <2>6. sib(c) = sib(e)
    BY <1>2, <2>5, DigitsTell DEF D
  <2>7. ClassTree(h, K)
    BY DEF Sizes
  <2>8. children[parent[c]][sib(c)] = c /\ children[parent[e]][sib(e)] = e
    BY <2>7, SiblingIs DEF sib, N
  <2>. QED
    BY <1>9, <2>6, <2>8
<1>10. G \in [N \X V -> V] /\ O[Root] \in V
       /\ \A c \in N, w \in V : G[<<c, w>>] = w \cup O[c]
  BY <1>1, <1>8
<1>. HIDE DEF G
<1>11. PICK C \in [N -> V] : DownBy(C, parent, O[Root], G)
  BY <1>1, <1>10, DownRecursion DEF N
<1>12. C[Root] = O[Root] /\ \A c \in N \ {Root} : C[c] = C[parent[c]] \cup O[c]
  <2>1. \A c \in N \ {Root} : C[c] = G[<<c, C[parent[c]]>>] /\ C[parent[c]] \in V
    BY <1>1, <1>11 DEF DownBy, N
  <2>. QED
    BY <1>10, <1>11, <2>1 DEF DownBy
<1>13. \A k \in 0 .. K : S[k] <= S[k + 1]
  BY <1>6
<1>14. Codes(parent, h, K, S, O, C)
  BY <1>2, <1>7, <1>8, <1>9, <1>11, <1>12, <1>13 DEF Codes, N
<1>. QED
  BY <1>14 DEF O

\* A code is below the end of all the codes.
LEMMA CodesFit ==
  ASSUME NEW h, NEW K, NEW S, Sizes(h, K, S), NEW O, NEW C, Codes(parent, h, K, S, O, C)
  PROVE  \A c \in DOMAIN parent :
           C[c] \subseteq 0 .. S[h[c] + 1] - 1 /\ C[c] \subseteq 0 .. Hierarchy!TotalBits - 1
<1>. DEFINE N == DOMAIN parent
<1>1. /\ Levelled(parent, h, K) /\ K \in Nat /\ h \in [N -> 0 .. K]
      /\ S \in [0 .. K + 1 -> Nat] /\ Hierarchy!TotalBits = S[K + 1]
  BY DEF Sizes, ClassTree, Levelled
<1>2. C \in [N -> SUBSET Nat] /\ \A k \in 0 .. K : S[k] <= S[k + 1]
  BY DEF Codes
<1>3. TAKE c \in N
<1>4. \A x \in C[c] : x \in Nat /\ x < S[h[c] + 1]
  BY <1>1, <1>2, CodesEnd
<1>5. h[c] + 1 \in 0 .. K + 1 /\ K + 1 \in 0 .. K + 1
  BY <1>1
<1>6. S[h[c] + 1] <= S[K + 1]
  <2>. DEFINE n == K + 1
  <2>1. \A k \in 0 .. n : S[k] <= S[n]
    BY <1>1, <1>2, <1>5, LevelsGrow
  <2>. QED
    BY <1>5, <2>1
<1>7. S[h[c] + 1] \in Nat /\ S[K + 1] \in Nat
  BY <1>1, <1>5
<1>. QED
  BY <1>1, <1>4, <1>6, <1>7

\* The pattern of a class is its code, unless a level ends with a longword; that of $ROOT
\* always is.
LEMMA PatternsAre ==
  ASSUME HierarchyAssumption, NEW h, NEW K, NEW S, Sizes(h, K, S), NEW E, EncodedBy(E),
         NEW C, Codes(parent, h, K, S, Own(h, S), C)
  PROVE  /\ E[Root].pattern = At({0}) /\ C[Root] = {0}
         /\ ~Hierarchy!EndsOnBoundary => \A c \in DOMAIN parent : E[c].pattern = At(C[c])
<1>. DEFINE N == DOMAIN parent
            O == Own(h, S)
            D == Hierarchy!Digits
            sib(c) == Hierarchy!SiblingNumber(c)
            b(m) == Hierarchy!LocalBits(m)
            A(c, e) == Hierarchy!AppendToClassEncoding(e,
                         Hierarchy!SiblingNumber(c), Hierarchy!InhBits(Hierarchy!Depth(c)),
                         Hierarchy!LocalBits(Hierarchy!Depth(c)))
            empty == Hierarchy!EmptyEncoding
            B == BitsPerLong
<1>1. /\ Levelled(parent, h, K) /\ Root \in N /\ parent \in [N -> N] /\ K \in Nat
      /\ h \in [N -> 0 .. K] /\ h[Root] = 0 /\ \A c \in N \ {Root} : h[c] = h[parent[c]] + 1
  BY DEF Sizes, ClassTree, Levelled
<1>2. /\ S \in [0 .. K + 1 -> Nat] /\ S[0] = 0 /\ S[1] = 1 /\ Hierarchy!CodeSize \in Nat
      /\ Hierarchy!Levels = 0 .. K
      /\ \A m \in 0 .. K + 1 : Hierarchy!InhBits(m) = S[m]
      /\ \A m \in 0 .. K : b(m) \in 1 .. B /\ S[m + 1] = S[m] + b(m)
      /\ \A c \in N : /\ Hierarchy!Depth(c) = h[c]
                      /\ sib(c) \in Nat \ {0} /\ D[sib(c)] \subseteq 0 .. b(h[c]) - 1
  BY DEF Sizes
<1>3. B \in Nat \ {0, 1} /\ Hierarchy!WidthAssumption
  BY DEF HierarchyAssumption, Hierarchy!WidthAssumption
<1>4. /\ \A c \in N : O[c] = Ending(D[sib(c)], S[h[c] + 1])
      /\ C[Root] = O[Root] /\ \A c \in N \ {Root} : C[c] = C[parent[c]] \cup O[c]
  BY DEF Own, Codes
<1>5. /\ E \in [N -> Enc]
      /\ \A c \in N : E[c] = A(c, IF c = Root THEN empty ELSE E[parent[c]])
  BY DEF EncodedBy
<1>6. empty \in Enc /\ empty.pattern = At({})
  BY EmptyIs
<1>7. Hierarchy!EndsOnBoundary <=> \E l \in 0 .. K : Hierarchy!InhBits(l + 1) % B = 0
  BY <1>2 DEF Hierarchy!EndsOnBoundary
<1>8. \A c \in N : C[c] \subseteq 0 .. S[h[c] + 1] - 1
  BY CodesFit
<1>9. C[Root] = {0}
  <2>1. sib(Root) = 1
    BY DEF Hierarchy!SiblingNumber
  <2>2. D[1] = {0}
    <3>1. 1 % 2 = 1 /\ 1 \div 2 = 0 /\ 1 \in Nat \ {0}
      OBVIOUS
    <3>2. D[1] = (IF 1 % 2 = 1 THEN {0} ELSE {}) \cup {x + 1 : x \in D[1 \div 2]} /\ D[0] = {}
      BY <3>1, DigitsAre
    <3>. HIDE DEF D
    <3>. QED
      BY <3>1, <3>2
  <2>. HIDE DEF D, sib, O
  <2>3. C[Root] = Ending({0}, 1)
    <3>1. h[Root] + 1 = 1
      BY <1>1
    <3>2. C[Root] = Ending(D[sib(Root)], S[h[Root] + 1])
      BY <1>1, <1>4
    <3>. QED
      BY <1>2, <2>1, <2>2, <3>1, <3>2
  <2>. QED
    BY <2>3 DEF Ending
<1>. HIDE DEF A, N, O, D, sib, b, empty
<1>10. ASSUME NEW c \in N, NEW e \in Enc, NEW code \in SUBSET (0 .. S[h[c]] - 1),
              e.pattern = At(code), S[h[c] + 1] % B # 0, E[c] = A(c, e)
       PROVE  E[c].pattern = At(code \cup O[c])
  <2>. DEFINE s == Hierarchy!SiblingNumber(c)
              inh == S[h[c]]
              w == Hierarchy!LocalBits(h[c])
  <2>1. h[c] \in 0 .. K /\ h[c] \in 0 .. K + 1
    BY <1>1
  <2>2. /\ Hierarchy!InhBits(h[c]) = inh /\ inh \in Nat /\ w \in 1 .. B
        /\ S[h[c] + 1] = inh + w /\ s \in Nat /\ Hierarchy!Digits[s] \subseteq 0 .. w - 1
        /\ Hierarchy!Depth(c) = h[c]
    BY <1>2, <2>1 DEF sib, b, D
  <2>3. E[c] = Hierarchy!AppendToClassEncoding(e, s, inh, w)
    BY <1>10, <2>2 DEF A
  <2>4. O[c] = Ending(Hierarchy!Digits[s], inh + w)
    BY <1>4, <2>2 DEF sib, D
  <2>5. (inh + w) % B # 0 /\ code \in SUBSET (0 .. inh - 1)
    BY <1>10, <2>2
  <2>. HIDE DEF s, inh, w
  <2>6. Hierarchy!AppendToClassEncoding(e, s, inh, w).pattern =
          At(code \cup Ending(Hierarchy!Digits[s], inh + w))
    <3>1. /\ inh \in Nat /\ w \in 1 .. BitsPerLong /\ s \in Nat /\ e \in Enc
          /\ Hierarchy!Digits[s] \subseteq 0 .. w - 1 /\ (inh + w) % BitsPerLong # 0
          /\ code \in SUBSET (0 .. inh - 1) /\ e.pattern = At(code)
          /\ Hierarchy!CodeSize \in Nat /\ Hierarchy!WidthAssumption
      BY <1>2, <1>3, <1>10, <2>2, <2>5
    <3>2. Appended(e, s, inh, w, code)
      BY ONLY <3>1, PatternAppended
    <3>. QED
      BY <3>2 DEF Appended
  <2>. QED
    BY <2>3, <2>4, <2>6
<1>11. E[Root].pattern = At(C[Root])
  <2>1. S[h[Root] + 1] = 1 /\ 1 % B # 0
    <3>1. h[Root] + 1 = 1
      BY <1>1
    <3>2. (B * 0 + 1) % B = 1 /\ B * 0 + 1 = 1
      <4>1. B \in Nat \ {0} /\ 1 \in 0 .. B - 1 /\ B * 0 + 1 = 1
        BY <1>3
      <4>. HIDE DEF B
      <4>. QED
        BY <4>1, PlaceOnce
    <3>. QED
      BY <1>2, <3>1, <3>2
  <2>2. E[Root] = A(Root, empty)
    BY <1>1, <1>5
  <2>3. E[Root].pattern = At({} \cup O[Root])
    BY <1>1, <1>6, <1>10, <2>1, <2>2
  <2>. QED
    BY <1>4, <2>3
<1>12. ASSUME ~Hierarchy!EndsOnBoundary
       PROVE  \A c \in N : E[c].pattern = At(C[c])
  <2>. DEFINE G == {c \in N : E[c].pattern = At(C[c])}
  <2>1. Root \in G
    BY <1>1, <1>11
  <2>2. ASSUME NEW c \in N \ {Root}, parent[c] \in G PROVE c \in G
    <3>. DEFINE e == E[parent[c]]
                code == C[parent[c]]
    <3>1. parent[c] \in N /\ h[c] = h[parent[c]] + 1 /\ h[c] \in 0 .. K
      BY <1>1
    <3>2. e \in Enc /\ E[c] = A(c, e) /\ e.pattern = At(code)
      BY <1>5, <2>2, <3>1
    <3>3. code \in SUBSET (0 .. S[h[c]] - 1)
      BY <1>8, <3>1
    <3>4. S[h[c] + 1] % B # 0
      <4>1. Hierarchy!InhBits(h[c] + 1) % B # 0
        BY <1>7, <1>12, <3>1
      <4>2. h[c] + 1 \in 0 .. K + 1
        BY <1>1, <3>1
      <4>. QED
        BY <1>2, <4>1, <4>2
    <3>. HIDE DEF e, code
    <3>5. E[c].pattern = At(code \cup O[c])
      BY <1>10, <3>2, <3>3, <3>4
    <3>. QED
      BY <1>4, <3>5 DEF code
  <2>. HIDE DEF G
  <2>3. \A c \in N : c \in G
    BY <1>1, <2>1, <2>2, OverLevels DEF N
  <2>. QED
    BY <2>3 DEF G
<1>. QED
  BY <1>9, <1>11, <1>12 DEF N

\* The masked comparison is the subclass test, unless a level ends with a longword.
LEMMA ComparisonExact ==
  ASSUME HierarchyAssumption, NEW h, NEW K, NEW S, Sizes(h, K, S), NEW E, EncodedBy(E),
         ~Hierarchy!EndsOnBoundary, NEW c \in DOMAIN parent, NEW q \in DOMAIN parent
  PROVE  Hierarchy!IsSubclassIn(E, c, q) <=> Hierarchy!Descends(c, q)
<1>1. PICK C : Codes(parent, h, K, S, Own(h, S), C)
  BY CodesAre
<1>. DEFINE N == DOMAIN parent
            n == S[h[q] + 1]
            O == Own(h, S)
<1>2. Levelled(parent, h, K) /\ h[q] \in 0 .. K /\ h[c] \in 0 .. K /\ K \in Nat
  BY DEF Sizes, ClassTree, Levelled
<1>3. n \in Nat /\ Hierarchy!TotalBits \in Nat
  <2>1. h[q] + 1 \in 0 .. K + 1 /\ K + 1 \in 0 .. K + 1
    BY <1>2
  <2>. QED
    BY <2>1 DEF Sizes
<1>4. C[c] \in SUBSET (0 .. Hierarchy!TotalBits - 1) /\ C[q] \in SUBSET (0 .. Hierarchy!TotalBits - 1)
  BY <1>1, CodesFit
<1>5. E[c].pattern = At(C[c]) /\ E[q].pattern = At(C[q])
  BY <1>1, PatternsAre
<1>6. E[q].mask = At(0 .. n - 1)
  BY MasksAre
<1>. HIDE DEF n
<1>7. (\A k \in Hierarchy!Words : E[q].pattern[k] = E[c].pattern[k] \cap E[q].mask[k])
        <=> C[q] = Start(C[c], n)
  <2>1. (\A k \in Hierarchy!Words : At(C[q])[k] = At(C[c])[k] \cap At(0 .. n - 1)[k])
          <=> C[q] = Start(C[c], n)
    BY <1>3, <1>4, ComparesAs DEF HierarchyAssumption
  <2>. QED
    BY <1>5, <1>6, <2>1
<1>8. Hierarchy!Descends(c, q) <=> h[q] <= h[c] /\ Hierarchy!LineageOf[c][h[q] + 1] = q
  BY <1>2, DescendsIs
<1>. HIDE DEF O
<1>9. C[q] = Start(C[c], n) => Hierarchy!Descends(c, q)
  BY <1>1, <1>2, <1>8, CodesTell DEF n
<1>10. Hierarchy!Descends(c, q) => C[q] = Start(C[c], n)
  <2>1. ASSUME Hierarchy!Descends(c, q) PROVE C[q] = Start(C[c], n)
    <3>1. h[q] \in 0 .. h[c] /\ Hierarchy!LineageOf[c][h[q] + 1] = q
      BY <1>2, <1>8, <2>1
    <3>2. \A m \in 0 .. h[c] : C[Hierarchy!LineageOf[c][m + 1]] = Start(C[c], S[m + 1])
      BY <1>1, <1>2, CodesBegin
    <3>. QED
      BY <3>1, <3>2 DEF n
  <2>. QED
    BY <2>1
<1>11. c = q => Hierarchy!Descends(c, q)
  <2>1. Hierarchy!LineageOf[c][h[c] + 1] = c
    BY <1>2, LineageStraight DEF StraightLineage
  <2>. QED
    BY <1>2, <1>8, <2>1
<1>. QED
  BY <1>7, <1>9, <1>10, <1>11 DEF Hierarchy!IsSubclassIn

-----------------------------------------------------------------------------
(* The generated program and the lowest common class                       *)

\* The encoding of $ROOT that is not generated is the one it had.
LEMMA RootPatternIs ==
  ASSUME Hierarchy!WidthAssumption, Hierarchy!CodeSize \in Nat
  PROVE  Hierarchy!SetRootInhEncoding.pattern = At({0})
<1>. DEFINE W == Hierarchy!Words
            B == BitsPerLong
            p == [k \in W |-> IF k = 0 THEN {B - 1} ELSE {}]
<1>1. B \in Nat \ {0} /\ Hierarchy!Bit = 0 .. B - 1 /\ \A k \in W : k \in Nat
  BY DEF Hierarchy!WidthAssumption, Hierarchy!Bit, Hierarchy!Words
<1>2. Hierarchy!SetRootInhEncoding.pattern = p
  BY DEF Hierarchy!SetRootInhEncoding
<1>3. ASSUME NEW k \in W
      PROVE  p[k] = {b \in Hierarchy!Bit : Place(k, b) \in {0}}
  <2>. DEFINE y == B * k
  <2>1. k \in Nat /\ y \in Nat /\ (k = 0 => y = 0) /\ (k # 0 => y >= B)
    <3>1. k \in Nat /\ B * k \in Nat /\ B * 0 = 0
      BY <1>1
    <3>2. 0 < k => B * 0 + B <= B * k
      BY <1>1, <3>1, WordsApart
    <3>. QED
      BY <1>1, <3>1, <3>2
  <2>2. \A b \in Hierarchy!Bit : Place(k, b) = y + (B - 1 - b)
    BY DEF Place
  <2>. HIDE DEF y
  <2>3. \A b \in Hierarchy!Bit : Place(k, b) = 0 <=> k = 0 /\ b = B - 1
    BY <1>1, <2>1, <2>2
  <2>4. B - 1 \in Hierarchy!Bit
    BY <1>1
  <2>5. p[k] = IF k = 0 THEN {B - 1} ELSE {}
    OBVIOUS
  <2>. HIDE DEF p
  <2>. QED
    BY <2>3, <2>4, <2>5
<1>. HIDE DEF W
<1>. QED
  BY <1>2, <1>3 DEF At, W

\* The generated program has the masks and patterns of the compiler.
LEMMA LoadedIs ==
  ASSUME HierarchyAssumption, NEW h, NEW K, NEW S, Sizes(h, K, S), EncodedBy(encoding),
         NEW c \in DOMAIN parent
  PROVE  /\ Hierarchy!LoadedClass(c).mask = encoding[c].mask
         /\ Hierarchy!LoadedClass(c).pattern = encoding[c].pattern
<1>1. Hierarchy!WidthAssumption /\ Hierarchy!CodeSize \in Nat /\ h[Root] = 0 /\ S[1] = 1
      /\ Root \in DOMAIN parent /\ h[c] \in 0 .. K /\ K \in Nat
  BY DEF HierarchyAssumption, Sizes, ClassTree, Levelled
<1>. DEFINE n == S[h[c] + 1]
<1>2. encoding[c].length = n /\ encoding[c].mask = At(0 .. n - 1) /\ encoding[c] \in Enc
  BY MasksAre DEF EncodedBy
<1>3. n \in Nat
  <2>1. h[c] + 1 \in 0 .. K + 1
    BY <1>1
  <2>. QED
    BY <2>1 DEF Sizes
<1>4. CASE c = Root
  <2>1. n = 1
    <3>1. h[Root] + 1 = 1
      BY <1>1
    <3>. QED
      BY <1>1, <1>4, <3>1
  <2>2. Hierarchy!LoadedClass(c) = Hierarchy!SetRootInhEncoding
    BY <1>4 DEF Hierarchy!LoadedClass
  <2>3. Hierarchy!SetRootInhEncoding.mask = Hierarchy!SetInhMaskLength(1)
    BY DEF Hierarchy!SetRootInhEncoding
  <2>4. Hierarchy!SetInhMaskLength(1) = At(0 .. 1 - 1)
    BY <1>1, MaskLengthIs
  <2>5. encoding[Root].pattern = At({0})
    <3>1. PICK C : Codes(parent, h, K, S, Own(h, S), C)
      BY CodesAre
    <3>. QED
      BY <3>1, PatternsAre
  <2>. HIDE DEF n
  <2>. QED
    BY <1>1, <1>2, <1>4, <2>1, <2>2, <2>3, <2>4, <2>5, RootPatternIs
<1>5. CASE c # Root
  <2>1. Hierarchy!LoadedClass(c) = [encoding[c] EXCEPT !.mask = Hierarchy!SetInhMaskLength(encoding[c].length)]
    BY <1>5 DEF Hierarchy!LoadedClass
  <2>2. Hierarchy!SetInhMaskLength(n) = At(0 .. n - 1)
    BY <1>1, <1>3, MaskLengthIs
  <2>. HIDE DEF n
  <2>. QED
    BY <1>2, <2>1, <2>2 DEF Enc
<1>. QED
  BY <1>4, <1>5

\* Two classes that one descends from: that of the lesser depth is above the other.
LEMMA LineageMeets ==
  ASSUME NEW h, NEW K, Levelled(parent, h, K),
         NEW c \in DOMAIN parent, NEW a \in DOMAIN parent, NEW b \in DOMAIN parent,
         Hierarchy!Descends(c, a), Hierarchy!Descends(c, b), h[b] <= h[a]
  PROVE  Hierarchy!Descends(a, b)
<1>. DEFINE L == Hierarchy!LineageOf
<1>1. /\ h[a] <= h[c] /\ L[c][h[a] + 1] = a
      /\ h[b] <= h[c] /\ L[c][h[b] + 1] = b
      /\ Hierarchy!Descends(a, b) <=> h[b] <= h[a] /\ L[a][h[b] + 1] = b
  BY DescendsIs
<1>2. h[a] \in 0 .. K /\ h[b] \in 0 .. K /\ h[c] \in 0 .. K /\ K \in Nat
  BY DEF Levelled
<1>3. \A m \in 1 .. h[c] + 1 : \A k \in 1 .. m : L[L[c][m]][k] = L[c][k]
  BY LineageStraight DEF StraightLineage
<1>4. h[a] + 1 \in 1 .. h[c] + 1 /\ h[b] + 1 \in 1 .. h[a] + 1
  BY <1>1, <1>2
<1>. HIDE DEF L
<1>. QED
  BY <1>1, <1>3, <1>4

\* The lowest common class is the deepest of those that both classes descend from.
LEMMA LowestIs ==
  ASSUME NEW h, NEW K, Levelled(parent, h, K),
         \A x, y \in DOMAIN parent :
           Hierarchy!IsSubclassIn(encoding, x, y) <=> Hierarchy!Descends(x, y),
         NEW c \in DOMAIN parent \ {Root}, NEW e \in DOMAIN parent \ {Root}
  PROVE  LET l == Hierarchy!LowestCommonClass(c, e)
         IN  /\ Hierarchy!Descends(c, l) /\ Hierarchy!Descends(e, l)
             /\ \A a \in DOMAIN parent :
                  Hierarchy!Descends(c, a) /\ Hierarchy!Descends(e, a) =>
                    Hierarchy!Descends(l, a)
<1>. DEFINE N == DOMAIN parent
            L == Hierarchy!LineageOf
            Under(x, y) == Hierarchy!Descends(x, y)
            upper == IF Hierarchy!Depth(c) > Hierarchy!Depth(e) THEN e ELSE c
            other == IF Hierarchy!Depth(c) > Hierarchy!Depth(e) THEN c ELSE e
            top == L[c][2]
            found == {a \in Hierarchy!ToSet(L[upper]) \ {Root, top} :
                        Hierarchy!IsSubclassIn(encoding, other, a)}
            deepest == CHOOSE a \in found : \A b \in found : Hierarchy!Depth(b) <= Hierarchy!Depth(a)
            l == Hierarchy!LowestCommonClass(c, e)
            Both(a) == Under(c, a) /\ Under(e, a)
<1>1. l = IF top # L[e][2] THEN Root ELSE IF found = {} THEN top ELSE deepest
  BY DEF Hierarchy!LowestCommonClass, Hierarchy!ClassAncestor
<1>2. /\ Root \in N /\ parent \in [N -> N] /\ K \in Nat /\ h \in [N -> 0 .. K] /\ h[Root] = 0
      /\ \A x \in N \ {Root} : h[x] = h[parent[x]] + 1
  BY DEF Levelled
<1>3. /\ \A x, y \in N : Under(x, y) <=> h[y] <= h[x] /\ L[x][h[y] + 1] = y
      /\ \A x \in N : \A y : Under(x, y) <=> y \in Hierarchy!ToSet(L[x])
  BY DescendsIs DEF Hierarchy!Descends
<1>4. \A x \in N : /\ L[x] \in Seq(N) /\ Len(L[x]) = h[x] + 1 /\ L[x][1] = Root
                   /\ \A m \in 1 .. h[x] + 1 :
                        h[L[x][m]] = m - 1 /\ \A k \in 1 .. m : L[L[x][m]][k] = L[x][k]
  BY LineageStraight DEF StraightLineage
<1>5. \A x \in N : \A y \in Hierarchy!ToSet(L[x]) : y \in N
  <2>. HIDE DEF L
  <2>. QED
    BY <1>4 DEF Hierarchy!ToSet
<1>6. {upper, other} = {c, e} /\ upper \in N /\ other \in N
  OBVIOUS
<1>7. \A x \in N : Hierarchy!Depth(x) = h[x]
  BY DepthIs
<1>8. \A x, a, b \in N : Under(x, a) /\ Under(x, b) /\ h[b] <= h[a] => Under(a, b)
  BY LineageMeets
<1>. HIDE DEF upper, other, L, Under, l
<1>9. found = {a \in N \ {Root, top} : Both(a)}
  <2>1. \A a : a \in Hierarchy!ToSet(L[upper]) <=> a \in N /\ Under(upper, a)
    BY <1>3, <1>5, <1>6
  <2>2. \A a \in N : Hierarchy!IsSubclassIn(encoding, other, a) <=> Under(other, a)
    BY <1>6 DEF Under
  <2>3. \A a : Under(upper, a) /\ Under(other, a) <=> Both(a)
    BY <1>6
  <2>. QED
    BY <2>1, <2>2, <2>3
<1>10. \A x \in N \ {Root} : h[x] \in 1 .. K /\ L[x][2] \in N /\ h[L[x][2]] = 1 /\ Under(x, L[x][2])
  <2>. SUFFICES ASSUME NEW x \in N \ {Root}
                PROVE  h[x] \in 1 .. K /\ L[x][2] \in N /\ h[L[x][2]] = 1 /\ Under(x, L[x][2])
    OBVIOUS
  <2>1. h[x] \in 1 .. K /\ 2 \in 1 .. h[x] + 1
    BY <1>2
  <2>2. L[x][2] \in N /\ h[L[x][2]] = 2 - 1
    BY <1>4, <2>1
  <2>. QED
    BY <1>3, <2>1, <2>2
<1>11. Both(Root) /\ \A a \in N : h[a] = 0 => a = Root
  <2>1. \A x \in N : Under(x, Root)
    <3>1. h[Root] + 1 = 1 /\ \A x \in N : h[Root] <= h[x]
      BY <1>2
    <3>2. \A x \in N : L[x][h[Root] + 1] = Root
      BY <1>4, <3>1
    <3>. QED
      BY <1>2, <1>3, <3>1, <3>2
  <2>2. \A a \in N : h[a] = 0 => a = Root
    BY <1>2
  <2>. QED
    BY <2>1, <2>2
<1>12. SUFFICES l \in N /\ Both(l) /\ \A a \in N : Both(a) => h[a] <= h[l]
  BY <1>8 DEF l, Under, N
<1>13. CASE top # L[e][2]
  <2>1. l = Root
    BY <1>1, <1>13
  <2>2. ASSUME NEW a \in N, Both(a) PROVE h[a] = 0
    <3>1. SUFFICES ASSUME h[a] # 0 PROVE FALSE
      OBVIOUS
    <3>2. h[a] + 1 \in 1 .. h[c] + 1 /\ h[a] + 1 \in 1 .. h[e] + 1 /\ 2 \in 1 .. h[a] + 1
          /\ L[c][h[a] + 1] = a /\ L[e][h[a] + 1] = a
      BY <1>2, <1>3, <2>2, <3>1
    <3>3. L[a][2] = L[c][2] /\ L[a][2] = L[e][2]
      <4>1. \A k \in 1 .. h[a] + 1 : L[L[c][h[a] + 1]][k] = L[c][k]
        BY <1>4, <3>2
      <4>2. \A k \in 1 .. h[a] + 1 : L[L[e][h[a] + 1]][k] = L[e][k]
        BY <1>4, <3>2
      <4>. QED
        BY <3>2, <4>1, <4>2
    <3>. QED
      BY <1>13, <3>3
  <2>. QED
    BY <1>2, <1>11, <2>1, <2>2
<1>14. CASE top = L[e][2] /\ found = {}
  <2>1. l = top /\ top \in N /\ h[top] = 1 /\ Both(top)
    BY <1>1, <1>10, <1>14
  <2>2. \A a \in N : Both(a) => a = Root \/ a = top
    BY <1>9, <1>14
  <2>. HIDE DEF top
  <2>. QED
    BY <1>2, <2>1, <2>2
<1>15. CASE top = L[e][2] /\ found # {}
  <2>. DEFINE t == {h[a] : a \in found}
  <2>1. top \in N /\ h[top] = 1
    BY <1>10
  <2>. HIDE DEF found, top
  <2>2. \A a \in found : a \in N /\ a # Root /\ Both(a) /\ h[a] \in 1 .. K
    BY <1>9, <1>10
  <2>3. t \in SUBSET (0 .. K) /\ t # {}
    BY <1>2, <1>15, <2>2
  <2>. HIDE DEF t
  <2>4. Hierarchy!Max(t) \in t /\ \A x \in t : x <= Hierarchy!Max(t)
    BY <1>2, <2>3, LargestOf
  <2>5. PICK m \in found : h[m] = Hierarchy!Max(t)
    BY <2>4 DEF t
  <2>6. \A b \in found : Hierarchy!Depth(b) <= Hierarchy!Depth(m)
    BY <1>7, <2>2, <2>4, <2>5 DEF t
  <2>7. deepest \in found /\ \A b \in found : Hierarchy!Depth(b) <= Hierarchy!Depth(deepest)
    BY <2>5, <2>6
  <2>8. l = deepest
    BY <1>1, <1>15
  <2>9. l \in found /\ \A b \in found : h[b] <= h[l]
    BY <1>7, <2>2, <2>7, <2>8
  <2>10. \A a \in N : Both(a) => a = Root \/ a = top \/ a \in found
    BY <1>9 DEF found
  <2>. QED
    BY <1>2, <2>1, <2>2, <2>9, <2>10
<1>. QED
  BY <1>13, <1>14, <1>15

-----------------------------------------------------------------------------
(* The steps                                                               *)

\* The classes make a tree; the encodings of the compiler are those of the tree, and those
\* of the generated program are made from them.
HierarchyInv ==
  /\ phase \in {"declare", "encode", "run"}
  /\ \E h, K : ClassTree(h, K)
  /\ phase # "declare" => encoding = Hierarchy!GenerateInhPatterns
  /\ phase = "run" => loaded = [c \in DOMAIN parent |-> Hierarchy!LoadedClass(c)]

\* The same classes have the same encodings.
LEMMA EncodingKept ==
  ASSUME parent' = parent, children' = children, overshift' = overshift
  PROVE  /\ Hierarchy!GenerateInhPatterns' = Hierarchy!GenerateInhPatterns
         /\ encoding' = encoding => \A c : Hierarchy!LoadedClass(c)' = Hierarchy!LoadedClass(c)
<1>1. Hierarchy!LineageOf' = Hierarchy!LineageOf /\ Hierarchy!Declared' = Hierarchy!Declared
  BY DEF Hierarchy!LineageOf, Hierarchy!Declared
<1>2. \A c : Hierarchy!Depth(c)' = Hierarchy!Depth(c)
  BY <1>1 DEF Hierarchy!Depth
<1>3. Hierarchy!Levels' = Hierarchy!Levels
  BY <1>1, <1>2 DEF Hierarchy!Levels
<1>4. \A m : Hierarchy!MaxSiblings(m)' = Hierarchy!MaxSiblings(m)
  BY <1>1, <1>2 DEF Hierarchy!MaxSiblings
<1>5. \A m : Hierarchy!LocalBits(m)' = Hierarchy!LocalBits(m)
  BY <1>4 DEF Hierarchy!LocalBits
<1>6. \A m : Hierarchy!InhBits(m)' = Hierarchy!InhBits(m)
  BY <1>5 DEF Hierarchy!InhBits
<1>7. Hierarchy!Words' = Hierarchy!Words
  BY <1>3, <1>6 DEF Hierarchy!Words, Hierarchy!CodeSize, Hierarchy!TotalBits
<1>8. \A c : Hierarchy!SiblingNumber(c)' = Hierarchy!SiblingNumber(c)
  BY DEF Hierarchy!SiblingNumber, Hierarchy!SelectInSeq
<1>9. \A w, k : Hierarchy!ShiftLeft(w, k)' = Hierarchy!ShiftLeft(w, k)
  BY DEF Hierarchy!ShiftLeft
<1>18. /\ \A n : /\ Hierarchy!BitsOf(n)' = Hierarchy!BitsOf(n)
                 /\ Hierarchy!SimpleMask(n)' = Hierarchy!SimpleMask(n)
       /\ \A w, n : Hierarchy!ShiftRight(w, n)' = Hierarchy!ShiftRight(w, n)
  BY DEF Hierarchy!BitsOf, Hierarchy!SimpleMask, Hierarchy!ShiftRight
<1>10. ASSUME NEW e, NEW s, NEW m, NEW n
       PROVE  Hierarchy!AppendWithin(e, s, m, n)' = Hierarchy!AppendWithin(e, s, m, n)
  BY <1>9, <1>18 DEF Hierarchy!AppendWithin
<1>11. ASSUME NEW e, NEW s, NEW m, NEW n
       PROVE  Hierarchy!AppendCrossing(e, s, m, n)' = Hierarchy!AppendCrossing(e, s, m, n)
  BY <1>9, <1>18 DEF Hierarchy!AppendCrossing
<1>12. \A e, s, m, n :
         Hierarchy!AppendToClassEncoding(e, s, m, n)' = Hierarchy!AppendToClassEncoding(e, s, m, n)
  BY <1>10, <1>11 DEF Hierarchy!AppendToClassEncoding
<1>13. Hierarchy!EmptyEncoding' = Hierarchy!EmptyEncoding
  BY <1>7 DEF Hierarchy!EmptyEncoding
<1>14. Hierarchy!GenerateInhPatterns' = Hierarchy!GenerateInhPatterns
  BY <1>1, <1>2, <1>5, <1>6, <1>8, <1>12, <1>13 DEF Hierarchy!GenerateInhPatterns
<1>15. \A n : Hierarchy!SetInhMaskLength(n)' = Hierarchy!SetInhMaskLength(n)
  BY <1>7 DEF Hierarchy!SetInhMaskLength
<1>16. Hierarchy!SetRootInhEncoding' = Hierarchy!SetRootInhEncoding
  BY <1>7, <1>15 DEF Hierarchy!SetRootInhEncoding
<1>17. ASSUME encoding' = encoding, NEW c
       PROVE  Hierarchy!LoadedClass(c)' = Hierarchy!LoadedClass(c)
  BY <1>15, <1>16, <1>17 DEF Hierarchy!LoadedClass
<1>. QED
  BY <1>14, <1>17

\* At first there is $ROOT alone.
LEMMA HierarchyInit ==
  ASSUME Hierarchy!Init PROVE HierarchyInv
<1>. DEFINE h == [c \in {Root} |-> 0]
<1>1. parent = [c \in {Root} |-> Root] /\ children = [c \in {Root} |-> <<>>] /\ phase = "declare"
  BY DEF Hierarchy!Init
<1>2. DOMAIN parent = {Root} /\ parent[Root] = Root /\ children[Root] = <<>>
  BY <1>1
<1>3. Levelled(parent, h, 0)
  BY <1>1, <1>2 DEF Levelled
<1>4. Listed(parent, children)
  BY <1>1, <1>2 DEF Listed
<1>5. ClassTree(h, 0)
  BY <1>2, <1>3, <1>4 DEF ClassTree
<1>. QED
  BY <1>1, <1>5 DEF HierarchyInv

\* A class that is declared is a child more.
LEMMA ClassTreeGrows ==
  ASSUME NEW h, NEW K, ClassTree(h, K), Hierarchy!RootAssumption,
         NEW c \in HierarchyClass, NEW p \in DOMAIN parent, Hierarchy!CreateClass(c, p)
  PROVE  \E g, k : ClassTree(g, k)'
<1>. DEFINE N == DOMAIN parent
            M == N \cup {c}
            g == [x \in M |-> IF x = c THEN h[p] + 1 ELSE h[x]]
<1>1. /\ Root \in N /\ parent \in [N -> N] /\ parent[Root] = Root /\ K \in Nat
      /\ h \in [N -> 0 .. K] /\ h[Root] = 0 /\ \A x \in N \ {Root} : h[x] = h[parent[x]] + 1
  BY DEF ClassTree, Levelled
<1>2. /\ c \notin N /\ c # Root
      /\ parent' = [x \in M |-> IF x = c THEN p ELSE parent[x]]
      /\ children' = [x \in M |-> IF x = c THEN <<>> ELSE IF x = p THEN <<c>> \o children[x]
                                                       ELSE children[x]]
  BY DEF Hierarchy!CreateClass, Hierarchy!SetCurClassParent, Hierarchy!Declared,
         Hierarchy!RootAssumption
<1>3. /\ children \in [N -> Seq(N \ {Root})]
      /\ \A x \in N : \A m \in DOMAIN children[x] : parent[children[x][m]] = x
      /\ \A x \in N : \A m, n \in DOMAIN children[x] : children[x][m] = children[x][n] => m = n
      /\ \A x \in N \ {Root} : \E m \in DOMAIN children[parent[x]] : children[parent[x]][m] = x
      /\ N \subseteq HierarchyClass \cup {Root}
  BY DEF ClassTree, Listed
<1>. HIDE DEF N
<1>4. DOMAIN parent' = M
  BY <1>2
<1>5. Levelled(parent', g, K + 1)
  <2>1. parent' \in [M -> M] /\ g \in [M -> 0 .. K + 1] /\ K + 1 \in Nat
    BY <1>1, <1>2 DEF N
  <2>2. parent'[Root] = Root /\ g[Root] = 0
    BY <1>1, <1>2
  <2>3. ASSUME NEW x \in M \ {Root} PROVE g[x] = g[parent'[x]] + 1
    <3>1. CASE x = c
      <4>1. parent'[x] = p /\ g[x] = h[p] + 1 /\ g[p] = h[p]
        BY <1>2, <3>1 DEF N
      <4>. QED
        BY <4>1
    <3>2. CASE x # c
      <4>1. parent'[x] = parent[x] /\ parent[x] \in N /\ parent[x] # c /\ g[x] = h[x]
        BY <1>1, <1>2, <3>2
      <4>2. g[parent[x]] = h[parent[x]]
        BY <4>1
      <4>. QED
        BY <1>1, <3>2, <4>1, <4>2
    <3>. QED
      BY <3>1, <3>2
  <2>. QED
    BY <1>1, <1>4, <2>1, <2>2, <2>3 DEF Levelled
<1>6. Listed(parent', children')
  <2>. DEFINE l(x) == children'[x]
  <2>1. /\ l(c) = <<>> /\ l(p) = <<c>> \o children[p]
        /\ \A x \in N \ {p} : l(x) = children[x]
        /\ p \in N
    BY <1>2 DEF N
  <2>2. children[p] \in Seq(N \ {Root})
    BY <1>3, <2>1
  <2>3. /\ Len(l(p)) = Len(children[p]) + 1 /\ l(p)[1] = c
        /\ \A m \in 1 .. Len(children[p]) : l(p)[m + 1] = children[p][m]
        /\ l(p) \in Seq(M \ {Root}) /\ DOMAIN l(p) = 1 .. Len(children[p]) + 1
        /\ DOMAIN children[p] = 1 .. Len(children[p]) /\ Len(children[p]) \in Nat
    <3>1. <<c>> \in Seq(M \ {Root}) /\ children[p] \in Seq(M \ {Root})
      BY <1>2, <2>2
    <3>. QED
      BY <2>1, <3>1
  <2>4. children' \in [M -> Seq(M \ {Root})]
    <3>1. \A x \in M : children'[x] \in Seq(M \ {Root})
      <4>1. \A x \in N : children[x] \in Seq(M \ {Root})
        <5>1. \A x \in N : children[x] \in Seq(N \ {Root})
          BY <1>3
        <5>2. N \ {Root} \subseteq M \ {Root}
          OBVIOUS
        <5>. HIDE DEF M
        <5>. QED
          BY <5>1, <5>2
      <4>2. <<>> \in Seq(M \ {Root})
        OBVIOUS
      <4>3. \A x \in M : x = c \/ x = p \/ x \in N \ {p}
        OBVIOUS
      <4>. QED
        BY <2>1, <2>3, <4>1, <4>2, <4>3
    <3>. QED
      BY <1>2, <3>1
  <2>7. DOMAIN l(c) = {} /\ \A x \in M : DOMAIN l(x) = 1 .. Len(l(x)) /\ Len(l(x)) \in Nat
    BY <2>1, <2>4
  <2>. HIDE DEF l
  <2>5. ASSUME NEW x \in M
        PROVE  /\ \A m \in DOMAIN l(x) : parent'[l(x)[m]] = x
               /\ \A m, n \in DOMAIN l(x) : l(x)[m] = l(x)[n] => m = n
    <3>1. CASE x = c
      BY <2>1, <3>1
    <3>2. CASE x \in N \ {p}
      <4>1. \A m \in DOMAIN l(x) : children[x][m] \in N
        BY <1>3, <2>1, <3>2
      <4>2. \A y \in N : parent'[y] = parent[y]
        BY <1>2
      <4>. QED
        <5>1. l(x) = children[x] /\ x \in N
          BY <2>1, <3>2
        <5>2. /\ \A m \in DOMAIN children[x] : parent[children[x][m]] = x
              /\ \A m, n \in DOMAIN children[x] : children[x][m] = children[x][n] => m = n
          BY <1>3, <5>1
        <5>. QED
          BY <4>1, <4>2, <5>1, <5>2
    <3>3. CASE x = p
      <4>1. \A m \in DOMAIN l(p) : m = 1 \/ (m - 1 \in DOMAIN children[p] /\ m = (m - 1) + 1)
        BY <2>3
      <4>2. \A m \in DOMAIN l(p) : m # 1 => l(p)[m] = children[p][m - 1]
        BY <2>3, <4>1
      <4>3. \A m \in DOMAIN children[p] : children[p][m] \in N
        BY <2>2
      <4>4. \A y \in N : parent'[y] = parent[y] /\ y # c
        BY <1>2
      <4>5. parent'[c] = p
        BY <1>2
      <4>6. \A m \in DOMAIN l(p) : parent'[l(p)[m]] = p
        <5>. SUFFICES ASSUME NEW m \in DOMAIN l(p) PROVE parent'[l(p)[m]] = p
          OBVIOUS
        <5>1. CASE m = 1
          BY <2>3, <4>5, <5>1
        <5>2. CASE m # 1
          <6>1. m - 1 \in DOMAIN children[p] /\ l(p)[m] = children[p][m - 1]
            BY <4>1, <4>2, <5>2
          <6>2. parent[children[p][m - 1]] = p
            BY <1>3, <2>1, <6>1
          <6>. QED
            BY <4>3, <4>4, <6>1, <6>2
        <5>. QED
          BY <5>1, <5>2
      <4>7. \A m, n \in DOMAIN l(p) : l(p)[m] = l(p)[n] => m = n
        <5>. SUFFICES ASSUME NEW m \in DOMAIN l(p), NEW n \in DOMAIN l(p), l(p)[m] = l(p)[n]
                      PROVE  m = n
          OBVIOUS
        <5>1. m = 1 <=> n = 1
          BY <2>3, <4>1, <4>2, <4>3, <4>4
        <5>2. CASE m # 1
          <6>1. m - 1 = n - 1
            BY <1>3, <2>1, <4>1, <4>2, <5>1, <5>2
          <6>. QED
            BY <2>3, <6>1
        <5>. QED
          BY <5>1, <5>2
      <4>. QED
        BY <3>3, <4>6, <4>7
    <3>. QED
      BY <3>1, <3>2, <3>3
  <2>6. ASSUME NEW x \in M \ {Root} PROVE \E m \in DOMAIN l(parent'[x]) : l(parent'[x])[m] = x
    <3>1. CASE x = c
      <4>1. parent'[x] = p /\ 1 \in DOMAIN l(p) /\ l(p)[1] = x
        BY <1>2, <2>3, <3>1
      <4>. QED
        BY <4>1
    <3>2. CASE x # c
      <4>1. x \in N \ {Root} /\ parent'[x] = parent[x] /\ parent[x] \in N
        BY <1>1, <1>2, <3>2
      <4>2. PICK m \in DOMAIN children[parent[x]] : children[parent[x]][m] = x
        BY <1>3, <4>1
      <4>3. CASE parent[x] = p
        BY <2>3, <4>1, <4>2, <4>3
      <4>4. CASE parent[x] # p
        BY <2>1, <4>1, <4>2, <4>4
      <4>. QED
        BY <4>3, <4>4
    <3>. QED
      BY <3>1, <3>2
  <2>. QED
    BY <1>4, <2>4, <2>5, <2>6 DEF Listed, l
<1>7. M \subseteq HierarchyClass \cup {Root}
  BY <1>3
<1>. HIDE DEF g, M
<1>. QED
  BY <1>4, <1>5, <1>6, <1>7 DEF ClassTree

\* Every step keeps the tree and the encodings.
LEMMA HierarchyStep ==
  ASSUME HierarchyAssumption, HierarchyInv, [Hierarchy!Next]_hierarchyVars
  PROVE  HierarchyInv'
<1>1. CASE UNCHANGED <<parent, children, overshift>>
  <2>1. (\E h, K : ClassTree(h, K))'
    BY <1>1 DEF HierarchyInv, ClassTree
  <2>2. /\ Hierarchy!GenerateInhPatterns' = Hierarchy!GenerateInhPatterns
        /\ encoding' = encoding => \A c : Hierarchy!LoadedClass(c)' = Hierarchy!LoadedClass(c)
    BY <1>1, EncodingKept
  <2>3. CASE UNCHANGED hierarchyVars
    BY <1>1, <2>1, <2>2, <2>3 DEF HierarchyInv, hierarchyVars
  <2>4. CASE Hierarchy!EncodeInheritance
    BY <1>1, <2>1, <2>2, <2>4 DEF HierarchyInv, Hierarchy!EncodeInheritance
  <2>5. CASE Hierarchy!LoadClasses
    BY <1>1, <2>1, <2>2, <2>5 DEF HierarchyInv, Hierarchy!LoadClasses, Hierarchy!Declared
  <2>6. ASSUME NEW c \in HierarchyClass, NEW p \in DOMAIN parent, Hierarchy!CreateClass(c, p)
        PROVE  FALSE
    <3>1. c \in DOMAIN parent' /\ c \notin DOMAIN parent
      BY <2>6 DEF Hierarchy!CreateClass, Hierarchy!SetCurClassParent, Hierarchy!Declared
    <3>. QED
      BY <1>1, <3>1
  <2>. QED
    BY <2>3, <2>4, <2>5, <2>6 DEF Hierarchy!Next, Hierarchy!Declared
<1>2. ASSUME NEW c \in HierarchyClass, NEW p \in DOMAIN parent, Hierarchy!CreateClass(c, p)
      PROVE  HierarchyInv'
  <2>1. (\E h, K : ClassTree(h, K))'
    BY <1>2, ClassTreeGrows DEF HierarchyInv, HierarchyAssumption
  <2>2. phase' = "declare"
    BY <1>2 DEF Hierarchy!CreateClass
  <2>. QED
    BY <2>1, <2>2 DEF HierarchyInv
<1>. QED
  BY <1>1, <1>2 DEF Hierarchy!Next, Hierarchy!EncodeInheritance, Hierarchy!LoadClasses,
                    hierarchyVars, Hierarchy!Declared

\* The subclass test,
LEMMA SubclassFromInv ==
  ASSUME HierarchyAssumption, HierarchyInv
  PROVE  Hierarchy!SubclassUnlessBoundary
<1>. SUFFICES ASSUME phase # "declare", ~Hierarchy!EndsOnBoundary,
                     NEW c \in DOMAIN parent, NEW q \in DOMAIN parent
              PROVE  Hierarchy!IsSubclassIn(encoding, c, q) <=> Hierarchy!Descends(c, q)
  BY DEF Hierarchy!SubclassUnlessBoundary, Hierarchy!Declared
<1>1. PICK h, K, S : Sizes(h, K, S)
  BY SizesAre DEF HierarchyInv
<1>2. EncodedBy(encoding)
  BY <1>1, EncodingIs DEF HierarchyInv
<1>. QED
  BY <1>1, <1>2, ComparisonExact

\* the lowest common class
LEMMA LowestFromInv ==
  ASSUME HierarchyAssumption, HierarchyInv
  PROVE  Hierarchy!LowestCommonExact
<1>. SUFFICES ASSUME phase # "declare", ~Hierarchy!EndsOnBoundary
              PROVE  \A c, e \in DOMAIN parent \ {Root} :
                       LET l == Hierarchy!LowestCommonClass(c, e)
                       IN  /\ Hierarchy!Descends(c, l) /\ Hierarchy!Descends(e, l)
                           /\ \A a \in DOMAIN parent :
                                Hierarchy!Descends(c, a) /\ Hierarchy!Descends(e, a) =>
                                  Hierarchy!Descends(l, a)
  BY DEF Hierarchy!LowestCommonExact, Hierarchy!Declared
<1>1. \A x, y \in DOMAIN parent :
        Hierarchy!IsSubclassIn(encoding, x, y) <=> Hierarchy!Descends(x, y)
  BY SubclassFromInv DEF Hierarchy!SubclassUnlessBoundary, Hierarchy!Declared
<1>2. PICK h, K : ClassTree(h, K)
  BY DEF HierarchyInv
<1>3. Levelled(parent, h, K)
  BY <1>2 DEF ClassTree
<1>. QED
  BY <1>1, <1>3, LowestIs

\* and the generated program follow.
LEMMA LoadedFromInv ==
  ASSUME HierarchyAssumption, HierarchyInv
  PROVE  Hierarchy!LoadedAgrees
<1>. SUFFICES ASSUME phase = "run", NEW c \in DOMAIN parent, NEW q \in DOMAIN parent
              PROVE  Hierarchy!IsSubclassIn(loaded, c, q) <=> Hierarchy!IsSubclassIn(encoding, c, q)
  BY DEF Hierarchy!LoadedAgrees, Hierarchy!Declared
<1>1. PICK h, K, S : Sizes(h, K, S)
  BY SizesAre DEF HierarchyInv
<1>2. EncodedBy(encoding)
  BY <1>1, EncodingIs DEF HierarchyInv
<1>3. ASSUME NEW x \in DOMAIN parent
      PROVE  loaded[x].mask = encoding[x].mask /\ loaded[x].pattern = encoding[x].pattern
  <2>1. loaded[x] = Hierarchy!LoadedClass(x)
    BY DEF HierarchyInv
  <2>. QED
    BY <1>1, <1>2, <2>1, LoadedIs
<1>. QED
  BY <1>3 DEF Hierarchy!IsSubclassIn

\* The tree of classes and its encodings are what the invariant says at any time.
THEOREM HierarchyHolds == ASSUME HierarchyAssumption PROVE Hierarchy!Spec => []HierarchyInv
<1>1. HierarchyInv /\ [Hierarchy!Next]_(Hierarchy!vars) => HierarchyInv'
  BY HierarchyStep DEF Hierarchy!vars, hierarchyVars
<1>. QED
  BY <1>1, HierarchyInit, PTL DEF Hierarchy!Spec

\* The masked comparison is the subclass test, unless a level of the hierarchy ends with a
\* longword, and the lowest common class is the lowest (rul__decl_is_subclass_of,
\* rul__decl_lowest_common_class), for any classes and any width of a longword.
THEOREM SubclassTested ==
  ASSUME HierarchyAssumption
  PROVE  Hierarchy!Spec => [](Hierarchy!SubclassUnlessBoundary /\ Hierarchy!LowestCommonExact)
<1>1. HierarchyInv => Hierarchy!SubclassUnlessBoundary /\ Hierarchy!LowestCommonExact
  BY SubclassFromInv, LowestFromInv
<1>. QED
  BY <1>1, HierarchyHolds, PTL

\* In the run of the three parts, the hierarchy is what it is alone.
LEMMA RunHierarchy == MCSpec => [](part = "hierarchy" => HierarchyInv)
<1>. DEFINE J == part = "hierarchy" => HierarchyInv
<1>1. MCInit => J
  BY HierarchyInit DEF MCInit
<1>2. J /\ [Encodes \/ Declares \/ CallsMethod]_mcVars => J'
  <2>. SUFFICES ASSUME J, [Encodes \/ Declares \/ CallsMethod]_mcVars, part' = "hierarchy"
                PROVE  HierarchyInv'
    OBVIOUS
  <2>1. part = "hierarchy" /\ [Hierarchy!Next]_hierarchyVars
    BY DEF Encodes, Declares, CallsMethod, mcVars
  <2>. QED
    BY <2>1, HierarchyStep, DeclaredAssumption DEF HierarchyAssumption
<1>. QED
  BY <1>1, <1>2, PTL DEF MCSpec

\* Of the run: the masked comparison is the subclass test, unless a level ends with a
\* longword.
THEOREM RunSubclass == MCSpec => []SubclassUnlessBoundary
<1>1. (part = "hierarchy" => HierarchyInv) => SubclassUnlessBoundary
  BY SubclassFromInv, DeclaredAssumption DEF SubclassUnlessBoundary, HierarchyAssumption
<1>. QED
  BY <1>1, RunHierarchy, PTL

\* Of the run: the generated program answers as the compiler did, and the lowest common
\* class is the lowest, unless a level ends with a longword.
THEOREM RunLoadedAgrees == MCSpec => []LoadedAgrees
<1>1. (part = "hierarchy" => HierarchyInv) => LoadedAgrees
  BY LoadedFromInv, LowestFromInv, DeclaredAssumption DEF LoadedAgrees, HierarchyAssumption
<1>. QED
  BY <1>1, RunHierarchy, PTL
=============================================================================
