---------------------------- MODULE Declarations ----------------------------
(***************************************************************************)
(* The declarations of a block: classes with the layout of their objects,  *)
(* and the method tables by which a call finds its code (decl_cls.c, with  *)
(* the checks of c_s_cls.c that decide what is declared at all).           *)
(*                                                                         *)
(* The compiler makes the tables construct by construct.  The program it   *)
(* generates makes them again with the same routines when it starts: first *)
(* every class, then every method.  So the routines are operators on a     *)
(* record d of tables, and there are two such records.                     *)
(*                                                                         *)
(* There is one method name; the tables of another name are independent.   *)
(***************************************************************************)
EXTENDS Integers, Sequences, SequencesExt, Functions

CONSTANTS
    ClassName,      \* the names of the classes below $ROOT
    Root,           \* $ROOT
    Attr,           \* the attributes a program can declare
    Default,        \* the values a DEFAULT clause can give
    Nil,            \* the default of an attribute without one
    None            \* stands for no class, no clause and no method

NamesAssumption ==
    /\ Root \notin ClassName
    /\ None \notin ClassName \cup {Root} \cup Default \cup {Nil}

VARIABLES
    d,          \* the tables of the compiler
    current,    \* current_class while its declaration is open, or None
    generics,   \* the classes of the generic methods; $ROOT if one has none
    methods,    \* the methods, with the generic each was checked against
    rt          \* the tables of the generated program, or None

vars == <<d, current, generics, methods, rt>>

FirstUserOffset == 2    \* after $ID and $INSTANCE-OF

\* A function of $ROOT alone, and f with the value v for x.
OfRoot(v) == [x \in {Root} |-> v]
With(f, x, v) == [y \in DOMAIN f \cup {x} |-> IF y = x THEN v ELSE f[y]]

\* The tables of one block; classes is the chain of its classes.
RootOnly ==
    [classes |-> <<>>, parent |-> OfRoot(Root),
     local |-> OfRoot(<<>>), attr |-> OfRoot(<<>>),
     next |-> OfRoot(FirstUserOffset), table |-> OfRoot(None)]

-----------------------------------------------------------------------------
(* decl_cls.c: classes and attributes *)

\* Mutant: the offsets of the parent are not reserved.
CreateClassUnreserved(t, c, p) ==
    [classes |-> Append(t.classes, c),
     parent |-> With(t.parent, c, p),
     local |-> With(t.local, c, <<>>),
     attr |-> With(t.attr, c, t.attr[p]),
     next |-> With(t.next, c, FirstUserOffset),
     table |-> With(t.table, c, t.table[p])]

\* rul__decl_create_class and rul__decl_set_cur_class_parent.
CreateClassIn(t, c, p) ==
    [classes |-> Append(t.classes, c),
     parent |-> With(t.parent, c, p),
     local |-> With(t.local, c, <<>>),
     attr |-> With(t.attr, c, t.attr[p]),
     next |-> With(t.next, c, t.next[p]),
     table |-> With(t.table, c, t.table[p])]

\* set_cur_attr_to_inh_clone, with the DEFAULT that follows it.
InheritedAttr(t, c, a, default) ==
    [t EXCEPT !.local[c] = Append(@, a),
              !.attr[c] = With(@, a,
                [offset |-> @[a].offset,
                 default |-> IF default = None THEN @[a].default ELSE default])]

NewAttr(t, c, a, default) ==
    [t EXCEPT !.local[c] = Append(@, a),
              !.attr[c] = With(@, a, [offset |-> t.next[c],
                                      default |-> IF default = None THEN Nil ELSE default]),
              !.next[c] = @ + 1]

\* rul__decl_add_attr_cur_class.
AddAttrIn(t, c, a, default) ==
    IF a \in DOMAIN t.attr[c] THEN InheritedAttr(t, c, a, default)
                              ELSE NewAttr(t, c, a, default)

InitVector(t, c) ==
    [o \in FirstUserOffset .. t.next[c] - 1 |->
        LET a == CHOOSE x \in DOMAIN t.attr[c] : t.attr[c][x].offset = o
        IN  t.attr[c][a].default]

LineageIn(t) ==
    LET L[c \in DOMAIN t.parent] ==
          IF c = Root THEN <<Root>> ELSE <<c>> \o L[t.parent[c]]
    IN  L

IsSubclassIn(t, c, p) == p \in ToSet(LineageIn(t)[c])

\* Mutant: the search stops at the class itself.
AttrNameHere(t, c, offset) ==
    LET here == SelectInSeq(t.local[c], LAMBDA a : t.attr[c][a].offset = offset)
    IN  IF here = 0 THEN None ELSE t.local[c][here]

\* rul__decl_get_attr_name: the local lists, from the class up.
AttrName(t, c, offset) ==
    LET Has(p) == \E a \in ToSet(t.local[p]) : t.attr[p][a].offset = offset
        i == SelectInSeq(LineageIn(t)[c], Has)
    IN  IF i = 0 THEN None ELSE AttrNameHere(t, LineageIn(t)[c][i], offset)

-----------------------------------------------------------------------------
(* decl_cls.c: methods *)

\* The method that is in the table of its own class decides for all subclasses.
AddClassMethod(t, c, sub) ==
    LET meth == t.table[c]
    IN  IF meth # None /\ IsSubclassIn(t, meth, sub) THEN t
        ELSE [t EXCEPT !.table[sub] = c]

AddBelow(t, c, sub) ==
    IF sub # c /\ IsSubclassIn(t, sub, c) THEN AddClassMethod(t, c, sub) ELSE t

\* Mutant: the class itself is left out.
FinishMethodBelow(t, c) ==
    FoldLeft(LAMBDA u, sub : AddBelow(u, c, sub), t, t.classes)

\* rul__decl_finish_method: the class first, then everything below it.
FinishMethod(t, c) ==
    FoldLeft(LAMBDA u, sub : AddBelow(u, c, sub), AddClassMethod(t, c, c), t.classes)

FindGeneric(t, list, c) ==
    LET i == SelectInSeq(list, LAMBDA g : IsSubclassIn(t, c, g))
    IN  IF i = 0 THEN None ELSE list[i]

Family(t, c) == LET l == LineageIn(t)[c] IN l[Len(l) - 1]

\* Mutant: only the very same class conflicts.
CheckAncestrySame(t, list, c) == c \notin ToSet(list)

\* sem_method_check_ancestry: a new generic must not conflict with another.
CheckAncestry(t, list, c) ==
    \A g \in ToSet(list) : ~ \/ g = c \/ Root \in {g, c}
                             \/ Family(t, g) = Family(t, c)

-----------------------------------------------------------------------------
(* The compiler *)

ObjectClass(c, p) ==
    /\ rt = None /\ current = None
    /\ c \notin DOMAIN d.parent /\ p \in DOMAIN d.parent
    /\ d' = CreateClassIn(d, c, p)
    /\ current' = c
    /\ UNCHANGED <<generics, methods, rt>>

DeclareAttr(a, default) ==
    /\ current # None /\ a \notin ToSet(d.local[current])
    /\ d' = AddAttrIn(d, current, a, default)
    /\ UNCHANGED <<current, generics, methods, rt>>

FinishClass ==
    /\ current # None
    /\ current' = None
    /\ UNCHANGED <<d, generics, methods, rt>>

GenericMethod(c) ==
    /\ rt = None /\ current = None
    /\ c \in DOMAIN d.parent /\ CheckAncestry(d, generics, c)
    /\ generics' = Append(generics, c)
    /\ UNCHANGED <<d, current, methods, rt>>

\* A method for which there is no generic is one.  A second method of one class
\* is not refused here, but the C it is compiled to defines a function twice.
CheckMethod(c) ==
    /\ rt = None /\ current = None
    /\ c \in DOMAIN d.parent \ {Root}
    /\ \A i \in DOMAIN methods : methods[i].class # c
    /\ FindGeneric(d, generics, c) = None => CheckAncestry(d, generics, c)
    /\ generics' = IF FindGeneric(d, generics, c) = None
                   THEN Append(generics, c) ELSE generics
    /\ methods' = Append(methods, [class |-> c,
                                   generic |-> FindGeneric(d, generics', c)])
    /\ d' = FinishMethod(d, c)
    /\ UNCHANGED <<current, rt>>

\* Mutant: the default values are not generated.
LoadClassNoDefaults(t, c) ==
    FoldLeft(LAMBDA u, a : AddAttrIn(u, c, a, None),
             CreateClassIn(t, c, d.parent[c]), d.local[c])

\* What add_class_data of c_g_clas.c generates for a class of the tables s, executed.
LoadFrom(s, t, c) ==
    FoldLeft(LAMBDA u, a : AddAttrIn(u, c, a, s.attr[c][a].default),
             CreateClassIn(t, c, s.parent[c]), s.local[c])
LoadClass(t, c) == LoadFrom(d, t, c)

EndBlock ==
    /\ rt = None /\ current = None
    /\ rt' = FoldLeft(LAMBDA u, m : FinishMethod(u, m.class),
                      FoldLeft(LoadClass, RootOnly, d.classes), methods)
    /\ UNCHANGED <<d, current, generics, methods>>

Init ==
    /\ d = RootOnly
    /\ current = None
    /\ generics = <<>>
    /\ methods = <<>>
    /\ rt = None

Next ==
    \/ \E c \in ClassName, p \in DOMAIN d.parent : ObjectClass(c, p)
    \/ \E a \in Attr, default \in Default \cup {None} : DeclareAttr(a, default)
    \/ FinishClass
    \/ \E c \in DOMAIN d.parent : GenericMethod(c) \/ CheckMethod(c)
    \/ EndBlock

Spec == Init /\ [][Next]_vars

-----------------------------------------------------------------------------
Classes == DOMAIN d.parent

\* An attribute lies at the same offset in a class and in all of its
\* subclasses, redeclared or not, and no two attributes of a class share one:
\* code compiled for a class reads objects of its subclasses
\* (rul__decl_add_attr_cur_class, rul__decl_set_cur_class_parent).
LayoutInherited ==
    \A c \in Classes :
        /\ \A a \in DOMAIN d.attr[d.parent[c]] :
             a \in DOMAIN d.attr[c] /\ d.attr[c][a].offset = d.attr[d.parent[c]][a].offset
        /\ \A a, b \in DOMAIN d.attr[c] :
             d.attr[c][a].offset = d.attr[c][b].offset => a = b
        /\ \A a \in DOMAIN d.attr[c] : d.attr[c][a].offset < d.next[c]

\* The name that is found for an offset is that of the attribute at the offset,
\* although only the local lists are searched (rul__decl_get_attr_name).
NameOfOffset ==
    \A c \in Classes : \A a \in DOMAIN d.attr[c] :
        AttrName(d, c, d.attr[c][a].offset) = a

\* The generated program has the layout, the default values and the methods
\* that the compiler compiled for, although it makes its tables in another
\* order (c_g_clas.c).
GeneratedAgrees ==
    rt # None => /\ rt.table = d.table
                 /\ \A c \in Classes : InitVector(rt, c) = InitVector(d, c)
                 /\ \A c \in Classes : \A a \in DOMAIN d.attr[c] :
                      rt.attr[c][a].offset = d.attr[c][a].offset

\* A call is checked against the generic that the method it reaches was checked
\* against when it was compiled, so their parameters agree
\* (rul__decl_get_generic_method, sem_method_check_ancestry).
GenericFits ==
    \A c \in Classes \ {Root} : d.table[c] # None =>
        \A i \in DOMAIN methods : methods[i].class = d.table[c] =>
            FindGeneric(d, generics, c) = methods[i].generic

\* The class whose method an object of class c should get.
MostSpecific(c) ==
    LET defined == {methods[i].class : i \in DOMAIN methods}
        i == SelectInSeq(LineageIn(d)[c], LAMBDA p : p \in defined)
    IN  IF i = 0 THEN None ELSE LineageIn(d)[c][i]

\* Some method is defined after one of a subclass of its class.
DefinedLate ==
    \E i, j \in DOMAIN methods :
        i < j /\ IsSubclassIn(d, methods[i].class, methods[j].class)

\* Every class has the method of the nearest class above it that defines one,
\* if methods are defined from the top down (rul__decl_finish_method).
NearestUnlessLate ==
    ~DefinedLate => \A c \in Classes : d.table[c] = MostSpecific(c)

\* The same in any order: add_class_method says "if the defined method class is
\* not a subclass of the this class then replace it".
NearestAlways ==
    \A c \in Classes : d.table[c] = MostSpecific(c)
=============================================================================
