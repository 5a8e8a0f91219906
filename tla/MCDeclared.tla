----------------------------- MODULE MCDeclared -----------------------------
(* Small instances of Inheritance (the part "hierarchy"), of Declarations   *)
(* ("tables") and of MethodCall ("call").  A behaviour is one of one part;  *)
(* the variables of the others hold empty values throughout.                *)
EXTENDS Declarations, TLC

CONSTANTS Parts,
          HierarchyClass, BitsPerLong,  \* see Inheritance
          MaxArg, MaxCompound           \* see MethodCall

VARIABLES part,
          parent, children, overshift, phase, encoding, loaded,
          call, pc, i, j, status, reports, called

hierarchyVars == <<parent, children, overshift, phase, encoding, loaded>>
callVars == <<call, pc, i, j, status, reports, called>>

Hierarchy == INSTANCE Inheritance WITH ClassName <- HierarchyClass

Method == INSTANCE MethodCall

ASSUME DeclaredAssumption ==
  /\ Parts \subseteq {"hierarchy", "tables", "call"}
  /\ Hierarchy!RootAssumption /\ Hierarchy!WidthAssumption /\ Hierarchy!CountAssumption
  /\ NamesAssumption /\ Method!BoundsAssumption

\* The names of attributes are only compared.
AttrSymmetry == Permutations(Attr)

\* So are those of classes: they are numbered in the order of declaration.
Numbered(classes) ==
  \A c \in classes \ {Root} : c = 1 \/ c - 1 \in classes

\* Attributes and methods are kept in tables of their own: programs that declare
\* the ones and programs that declare the others are explored apart.
AttrsOrMethods ==
  \/ generics' = << >>
  \/ \A c \in DOMAIN d'.local : d'.local[c] = << >>

NoHierarchy ==
  /\ parent = << >> /\ children = << >> /\ overshift = "zero"
  /\ phase = "idle" /\ encoding = << >> /\ loaded = << >>
NoTables ==
  d = << >> /\ current = None /\ generics = << >> /\ methods = << >> /\ rt = None
NoCall ==
  /\ call = << >> /\ pc = "idle" /\ i = 0 /\ j = 0
  /\ status = TRUE /\ reports = {} /\ called = "nothing"

\* A call that is refused before its arguments are looked at is given none.
ArgumentsLookedAt ==
  call.args # << >> =>
    call.receiver = "live" /\ call.lookup = "found" /\ call.count

MCInit ==
  /\ part \in Parts
  /\ \/ part = "hierarchy" /\ Hierarchy!Init /\ NoTables /\ NoCall
     \/ part = "tables" /\ Init /\ NoHierarchy /\ NoCall
     \/ part = "call" /\ Method!Init /\ ArgumentsLookedAt /\ NoHierarchy /\ NoTables

Encodes == /\ part = "hierarchy" /\ Hierarchy!Next /\ Numbered(DOMAIN parent')
           /\ UNCHANGED <<part, vars, callVars>>
Declares == /\ part = "tables" /\ Next /\ Numbered(DOMAIN d'.parent) /\ AttrsOrMethods
            /\ UNCHANGED <<part, hierarchyVars, callVars>>
CallsMethod == /\ part = "call" /\ Method!Next
               /\ UNCHANGED <<part, hierarchyVars, vars>>

mcVars == <<part, hierarchyVars, vars, callVars>>
MCSpec ==
  MCInit /\ [][Encodes \/ Declares \/ CallsMethod]_mcVars /\ WF_mcVars(CallsMethod)

\* Of Inheritance, see there: the masked comparison of decl_inh.c is the
\* subclass test, in the compiler and in the program it generates, except where
\* a level of the hierarchy ends with a longword.
SubclassUnlessBoundary == part = "hierarchy" => Hierarchy!SubclassUnlessBoundary
LoadedAgrees ==
  part = "hierarchy" => Hierarchy!LoadedAgrees /\ Hierarchy!LowestCommonExact
SubclassExact == part = "hierarchy" => Hierarchy!SubclassExact

\* Of Declarations, see there: subclasses keep the layout and the names of their
\* parents (decl_cls.c), the generated program declares the same tables again,
\* and a call finds the nearest method and the generic it was checked against.
TablesAgree ==
  part = "tables" =>
    LayoutInherited /\ NameOfOffset /\ GeneratedAgrees
MostSpecificUnlessLate ==
  part = "tables" => NearestUnlessLate /\ GenericFits
MostSpecificMethod == part = "tables" => NearestAlways

\* Of MethodCall, see there: rul__call_method calls the code of a method only
\* with arguments that fit, says why it refuses, and returns.
OnlyFittingCalls ==
  part = "call" => Method!OnlyFittingCalls /\ Method!RefusalsReported
CallsUnlessStuck == (part = "call" /\ Method!NothingSticks) ~> Method!Answered
FittingCallsMade == (part = "call" /\ Method!Callable) ~> called = "method"
=============================================================================
