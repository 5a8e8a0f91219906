----------------------------- MODULE MethodCall -----------------------------
(***************************************************************************)
(* One call of a method: rul__call_method of rac.c, from the check of the  *)
(* receiver to the call of the code.  The tables it looks into are those   *)
(* of Declarations; here a call is given what it finds in them.            *)
(*                                                                         *)
(* What a value is made of is abstracted to what the checks ask of it: its *)
(* shape, whether it has the domain of the parameter, and for each         *)
(* instance id in it whether its object is of the class that the parameter *)
(* is restricted to ("of"), of another class ("other"), or gone.           *)
(***************************************************************************)
EXTENDS Integers, Sequences

CONSTANTS
    MaxArg,         \* bound on the arguments that follow the receiver
    MaxCompound     \* bound on the length of a compound value

BoundsAssumption == MaxArg \in Nat /\ MaxCompound \in Nat \ {0}

VARIABLES
    call,       \* what is called, with what: see Call
    pc,         \* the place in the code
    i, j,       \* the argument, and its element, that are looked at
    status,     \* FALSE once an argument was refused
    reports,    \* the messages that were printed
    called      \* the code that was called: "method", "no method" or "nothing"

vars == <<call, pc, i, j, status, reports, called>>

Id == {"of", "other", "gone"}
Param == [shape : {"atom", "compound"}, restricted : BOOLEAN]

Arg == [shape : {"atom"}, valid : {FALSE}, domain : {FALSE}, ids : {<<>>}]
       \cup [shape : {"atom"}, valid : {TRUE}, domain : BOOLEAN, ids : [1..1 -> Id]]
       \cup [shape : {"compound"}, valid : {TRUE}, domain : BOOLEAN,
             ids : UNION {[1..n -> Id] : n \in 0..MaxCompound}]

(***************************************************************************)
(* The lookup of the method of the class, then of $NO-METHOD-FOUND when    *)
(* there is none, is abstracted to which of them there are.  "count" says  *)
(* that the call has as many arguments as the method has parameters.       *)
(***************************************************************************)
Call == [receiver : {"live", "gone", "no id"},
         lookup : {"found", "system", "fallback", "none"},
         count : BOOLEAN,
         params : UNION {[1..n -> Param] : n \in 0..MaxArg},
         args : UNION {[1..n -> Arg] : n \in 0..MaxArg}]

Report(m) == reports' = reports \cup {m}
ReturnNull == pc' = "done" /\ UNCHANGED <<i, j, status, called>>

-----------------------------------------------------------------------------
CheckReceiver ==
    /\ pc = "receiver"
    /\ IF call.receiver = "no id" THEN Report("BADMETARG") /\ ReturnNull
       ELSE IF call.receiver = "gone" THEN Report("NOSUCHWM") /\ ReturnNull
       ELSE pc' = "lookup" /\ UNCHANGED <<i, j, status, reports, called>>
    /\ UNCHANGED call

\* $NO-METHOD-FOUND is called with the name of the method for its argument.
LookUp ==
    /\ pc = "lookup"
    /\ \/ /\ call.lookup = "found" /\ pc' = "count"
          /\ UNCHANGED <<i, j, status, reports, called>>
       \/ call.lookup = "system" /\ ReturnNull /\ UNCHANGED reports
       \/ call.lookup = "none" /\ Report("NOCLSMET") /\ ReturnNull
       \/ /\ call.lookup = "fallback" /\ pc' = "done" /\ called' = "no method"
          /\ UNCHANGED <<i, j, status, reports>>
    /\ UNCHANGED call

CountArgs ==
    /\ pc = "count"
    /\ IF call.count
       THEN pc' = "arg" /\ UNCHANGED <<i, j, status, reports, called>>
       ELSE Report("METARGCNT") /\ ReturnNull
    /\ UNCHANGED call

arg == call.args[i]
param == call.params[i]

\* Mutant: the shape is not compared.
AcceptedAnyShape == arg.valid /\ arg.domain

Accepted == arg.valid /\ arg.shape = param.shape /\ arg.domain

\* Mutant: what an earlier argument was refused for is forgotten.
CheckArgForgetting ==
    /\ pc = "arg" /\ i <= Len(call.args)
    /\ status' = Accepted
    /\ IF Accepted THEN UNCHANGED reports ELSE Report("METINVARG")
    /\ IF status' /\ param.restricted /\ arg.ids # <<>>
       THEN pc' = "class" /\ j' = 1 /\ UNCHANGED i
       ELSE i' = i + 1 /\ UNCHANGED <<pc, j>>
    /\ UNCHANGED <<call, called>>

\* The classes of an argument are checked only if no argument was refused yet.
CheckArg ==
    /\ pc = "arg" /\ i <= Len(call.args)
    /\ status' = (status /\ Accepted)
    /\ IF Accepted THEN UNCHANGED reports ELSE Report("METINVARG")
    /\ IF status' /\ param.restricted /\ arg.ids # <<>>
       THEN pc' = "class" /\ j' = 1 /\ UNCHANGED i
       ELSE i' = i + 1 /\ UNCHANGED <<pc, j>>
    /\ UNCHANGED <<call, called>>

\* Mutant: the first of the ids is looked at again and again.
NextIdSame == pc' = pc /\ UNCHANGED <<i, j>>

\* tmp moves only from one element of a compound value to the next.
NextId ==
    IF status' /\ param.shape = "compound"
    THEN IF j < Len(arg.ids) THEN j' = j + 1 /\ UNCHANGED <<pc, i>>
         ELSE pc' = "arg" /\ i' = i + 1 /\ UNCHANGED j
    ELSE UNCHANGED <<pc, i, j>>

CheckClass ==
    /\ pc = "class"
    /\ \/ arg.ids[j] = "gone" /\ Report("NOSUCHWM") /\ ReturnNull
       \/ /\ arg.ids[j] = "other" /\ Report("METINVARG") /\ status' = FALSE
          /\ NextId /\ UNCHANGED called
       \/ arg.ids[j] = "of" /\ UNCHANGED <<status, reports, called>> /\ NextId
    /\ UNCHANGED call

Invoke ==
    /\ pc = "arg" /\ i > Len(call.args)
    /\ pc' = "done"
    /\ called' = IF status THEN "method" ELSE called
    /\ UNCHANGED <<call, i, j, status, reports>>

Init ==
    /\ call \in {c \in Call : Len(c.params) = Len(c.args)}
    /\ pc = "receiver" /\ i = 1 /\ j = 1
    /\ status = TRUE /\ reports = {} /\ called = "nothing"

Next == CheckReceiver \/ LookUp \/ CountArgs \/ CheckArg \/ CheckClass \/ Invoke

Spec == Init /\ [][Next]_vars /\ WF_vars(Next)

-----------------------------------------------------------------------------
Fits(n) ==
    LET a == call.args[n]
        p == call.params[n]
    IN  /\ a.valid /\ a.shape = p.shape /\ a.domain
        /\ p.restricted => \A k \in DOMAIN a.ids : a.ids[k] = "of"

Callable ==
    /\ call.receiver = "live" /\ call.lookup = "found" /\ call.count
    /\ \A n \in DOMAIN call.args : Fits(n)

\* The class loop cannot get past these: a restricted parameter that takes a
\* single instance id, or a compound argument with an object of another class.
NotPassed(n) ==
    call.params[n].restricted /\ (call.params[n].shape = "atom" \/ ~Fits(n))

NothingSticks == \A n \in DOMAIN call.args : ~NotPassed(n)

Answered == pc = "done" /\ (Callable => called = "method")

\* The code of a method is called only with arguments that all fit its generic,
\* however late the one that does not fit is found (rul__call_method).
OnlyFittingCalls == called = "method" => Callable

\* A call that is refused has said why, unless a system method has no code; and
\* a call that is made has refused nothing.
RefusalsReported ==
    pc = "done" => ((called = "nothing" /\ call.lookup # "system") <=> reports # {})
                   \/ call.receiver # "live"

\* Every call that meets no argument of the two kinds that the class loop stays
\* in returns, and if everything fits its method has been called.
CallsUnlessStuck == NothingSticks ~> Answered

\* Every call whose arguments fit calls the method: the comment in the code is
\* "get and use the generic method for parameter checks".
FittingCallsMade == Callable ~> called = "method"
=============================================================================
