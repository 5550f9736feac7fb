-------------------------- MODULE TemplatesProofs --------------------------
(***************************************************************************)
(* Whatever versions a workspace is led through, its objects stay valid,   *)
(* for any number of versions and types and any fields and limits.         *)
(*                                                                         *)
(* The argument: an upgrade adds to what the workspace has and never       *)
(* changes a parent in it, so the chain of an object's type stays what it  *)
(* was; the plan is made for the version the workspace is at, and this has *)
(* every type and field of the workspace, with its constraints, because    *)
(* published types are not redefined and fields never are.                 *)
(***************************************************************************)
EXTENDS Templates, TLAPS

-----------------------------------------------------------------------------
(* Chains of types.                                                        *)

(* No type is above itself.                                                *)
Acyclic(m) ==
  \A c \in Types : ParentOf(m, c) # None => c \notin Lineage(m, ParentOf(m, c))

(* A parent is a type or none; a row is not None.                          *)
LEMMA RowTypes ==
  ASSUME NEW m \in Metamodel, NEW c \in Types
  PROVE  /\ ParentOf(m, c) \in Types \cup {None}
         /\ m.types[c] \in TypeRow \cup {None} /\ m.fields[c] \in FieldRow \cup {None}
         /\ c # None
BY TemplatesAssumption DEF Metamodel, ParentOf, TypeRow

(* The chain begins with the type and goes on with the parents.            *)
LEMMA LineageHas ==
  ASSUME NEW m \in Metamodel, NEW c \in Types
  PROVE  c \in Lineage(m, c) /\ Closed(m, Lineage(m, c)) /\ Lineage(m, c) \subseteq Types
<1>1. c \in Lineage(m, c) /\ Lineage(m, c) \subseteq Types
  BY DEF Lineage
<1>2. ASSUME NEW a \in Lineage(m, c), ParentOf(m, a) # None
      PROVE  ParentOf(m, a) \in Lineage(m, c)
  <2>1. ParentOf(m, a) \in Types
    BY <1>1, <1>2, RowTypes
  <2>2. ASSUME NEW S \in SUBSET Types, c \in S, Closed(m, S) PROVE ParentOf(m, a) \in S
    BY <1>2, <2>2 DEF Lineage, Closed
  <2> QED
    BY <2>1, <2>2 DEF Lineage
<1> QED
  BY <1>1, <1>2 DEF Closed

(* It has nothing that some closed set with the type has not.              *)
LEMMA LineageLeast ==
  ASSUME NEW m, NEW c, NEW S \in SUBSET Types, c \in S, Closed(m, S)
  PROVE  Lineage(m, c) \subseteq S
BY DEF Lineage

(* The chain of one above is part of it.                                   *)
LEMMA LineageWithin ==
  ASSUME NEW m \in Metamodel, NEW c \in Types, NEW a \in Lineage(m, c)
  PROVE  Lineage(m, a) \subseteq Lineage(m, c)
BY LineageHas, LineageLeast

(* The type itself, then the chain of its parent.                          *)
LEMMA LineageUp ==
  ASSUME NEW m \in Metamodel, NEW c \in Types, NEW a \in Lineage(m, c), a # c
  PROVE  /\ ParentOf(m, c) \in Types /\ ParentOf(m, c) # None
         /\ a \in Lineage(m, ParentOf(m, c))
<1> DEFINE p == ParentOf(m, c)
<1>1. p \in Types \cup {None}
  BY RowTypes
<1> HIDE DEF p
<1>2. p # None
  <2> SUFFICES ASSUME p = None PROVE FALSE
    OBVIOUS
  <2>1. Closed(m, {c})
    BY DEF Closed, p
  <2>2. Lineage(m, c) \subseteq {c}
    BY <2>1, LineageLeast
  <2> QED
    BY <2>2
<1>3. p \in Types
  BY <1>1, <1>2
<1> DEFINE S == {c} \cup Lineage(m, p)
<1>4. p \in Lineage(m, p) /\ Closed(m, Lineage(m, p)) /\ Lineage(m, p) \subseteq Types
  BY <1>3, LineageHas
<1>5. Closed(m, S) /\ S \in SUBSET Types
  BY <1>4 DEF Closed, p
<1>6. Lineage(m, c) \subseteq S
  BY <1>5, LineageLeast
<1> QED
  BY <1>2, <1>3, <1>6 DEF p

(* Of two types of a chain, one is above the other.                        *)
LEMMA LineageLinear ==
  ASSUME NEW m \in Metamodel, NEW c \in Types, NEW a \in Lineage(m, c), NEW b \in Lineage(m, c)
  PROVE  a \in Lineage(m, b) \/ b \in Lineage(m, a)
<1> DEFINE S == {x \in Lineage(m, c) : x \in Lineage(m, b) \/ b \in Lineage(m, x)}
<1>1. Lineage(m, c) \subseteq Types /\ Closed(m, Lineage(m, c))
  BY LineageHas
<1>2. c \in S
  BY LineageHas
<1>3. Closed(m, S)
  <2> SUFFICES ASSUME NEW x \in S, ParentOf(m, x) # None PROVE ParentOf(m, x) \in S
    BY DEF Closed
  <2>1. x \in Types /\ b \in Types /\ ParentOf(m, x) \in Lineage(m, c)
    BY <1>1 DEF Closed
  <2>2. CASE x \in Lineage(m, b)
    <3>1. ParentOf(m, x) \in Lineage(m, b)
      BY <2>1, <2>2, LineageHas DEF Closed
    <3> QED
      BY <2>1, <3>1
  <2>3. CASE b \in Lineage(m, x) /\ x # b
    <3>1. b \in Lineage(m, ParentOf(m, x))
      BY <2>1, <2>3, LineageUp
    <3> QED
      BY <2>1, <3>1
  <2>4. CASE x = b
    BY <2>1, <2>2, <2>4, LineageHas
  <2> QED
    BY <2>2, <2>3, <2>4
<1>4. Lineage(m, c) \subseteq S
  BY <1>1, <1>2, <1>3, LineageLeast
<1> QED
  BY <1>4

(* Where no type is above itself, no two are above each other.             *)
LEMMA LineageOrder ==
  ASSUME NEW m \in Metamodel, Acyclic(m), NEW a \in Types, NEW b \in Types,
         a \in Lineage(m, b), b \in Lineage(m, a)
  PROVE  a = b
<1> SUFFICES ASSUME a # b PROVE FALSE
  OBVIOUS
<1>1. ParentOf(m, b) \in Types /\ ParentOf(m, b) # None /\ a \in Lineage(m, ParentOf(m, b))
  BY LineageUp
<1>2. b \in Lineage(m, ParentOf(m, b))
  BY <1>1, LineageWithin
<1> QED
  BY <1>1, <1>2 DEF Acyclic

(* Two metamodels that agree on the parents of a chain have that chain.    *)
LEMMA LineageSame ==
  ASSUME NEW m \in Metamodel, NEW w \in Metamodel, NEW c \in Types,
         \A a \in Lineage(m, c) : ParentOf(w, a) = ParentOf(m, a)
  PROVE  Lineage(w, c) = Lineage(m, c)
<1>1. /\ c \in Lineage(m, c) /\ Closed(m, Lineage(m, c)) /\ Lineage(m, c) \subseteq Types
      /\ c \in Lineage(w, c) /\ Closed(w, Lineage(w, c)) /\ Lineage(w, c) \subseteq Types
  BY LineageHas
<1>2. Closed(w, Lineage(m, c))
  BY <1>1 DEF Closed
<1>3. Lineage(w, c) \subseteq Lineage(m, c)
  BY <1>1, <1>2, LineageLeast
<1>4. Closed(m, Lineage(w, c))
  BY <1>1, <1>3 DEF Closed
<1>5. Lineage(m, c) \subseteq Lineage(w, c)
  BY <1>1, <1>4, LineageLeast
<1> QED
  BY <1>3, <1>5

(* On a chain that comes back to a type, the type is above every other.    *)
LEMMA CycleTurns ==
  ASSUME NEW m \in Metamodel, NEW c \in Types, ParentOf(m, c) # None,
         c \in Lineage(m, ParentOf(m, c)), NEW a \in Lineage(m, c)
  PROVE  a \in Types /\ c \in Lineage(m, a)
<1> DEFINE S == {x \in Lineage(m, c) : c \in Lineage(m, x)}
<1>1. c \in Lineage(m, c) /\ Lineage(m, c) \subseteq Types /\ Closed(m, Lineage(m, c))
  BY LineageHas
<1>2. Closed(m, S)
  <2> SUFFICES ASSUME NEW x \in S, ParentOf(m, x) # None PROVE ParentOf(m, x) \in S
    BY DEF Closed
  <2>1. x \in Types /\ ParentOf(m, x) \in Lineage(m, c)
    BY <1>1 DEF Closed
  <2>2. c \in Lineage(m, ParentOf(m, x))
    BY <2>1, LineageUp
  <2> QED
    BY <2>1, <2>2
<1>3. Lineage(m, c) \subseteq S
  BY <1>1, <1>2, LineageLeast
<1> QED
  BY <1>1, <1>3

-----------------------------------------------------------------------------
(* The field in force.                                                     *)

(* Of the types of a chain that define the field, one is the nearest.      *)
LEMMA NearestExists ==
  ASSUME NEW m \in Metamodel, NEW c \in Types, Definers(m, c) # {}
  PROVE  \E a \in Definers(m, c) : Definers(m, c) \subseteq Lineage(m, a)
<1> DEFINE D == Definers(m, c)
           S == {a \in Lineage(m, c) : D \subseteq Lineage(m, a)}
<1>1. c \in Lineage(m, c) /\ Lineage(m, c) \subseteq Types /\ Closed(m, Lineage(m, c))
  BY LineageHas
<1>2. D \subseteq Lineage(m, c) /\ \A a \in Lineage(m, c) : m.fields[a] # None => a \in D
  BY <1>1 DEF Definers
<1> HIDE DEF D
<1> SUFFICES ASSUME D \cap S = {} PROVE FALSE
  BY DEF D
<1>3. Closed(m, S)
  <2> SUFFICES ASSUME NEW x \in S, ParentOf(m, x) # None PROVE ParentOf(m, x) \in S
    BY DEF Closed
  <2>1. x \in Types /\ ParentOf(m, x) \in Lineage(m, c) /\ x \notin D
    BY <1>1 DEF Closed
  <2>2. ASSUME NEW d \in D PROVE d \in Lineage(m, ParentOf(m, x))
    BY <2>1, LineageUp
  <2> QED
    BY <2>1, <2>2
<1>4. Lineage(m, c) \subseteq S
  BY <1>1, <1>2, <1>3, LineageLeast
<1>5. PICK d \in D : TRUE
  BY DEF D
<1>6. d \in S
  BY <1>2, <1>4, <1>5
<1> QED
  BY <1>5, <1>6

(* Definer names it, and there is no other.                                *)
LEMMA DefinerIs ==
  ASSUME NEW m \in Metamodel, NEW c \in Types
  PROVE  /\ Definers(m, c) = {} => Definer(m, c) = None
         /\ Definers(m, c) # {} => /\ Definer(m, c) \in Definers(m, c)
                                   /\ Definers(m, c) \subseteq Lineage(m, Definer(m, c))
BY NearestExists, Zenon DEF Definer

LEMMA DefinerOnly ==
  ASSUME NEW m \in Metamodel, Acyclic(m), NEW c \in Types,
         NEW a \in Definers(m, c), Definers(m, c) \subseteq Lineage(m, a)
  PROVE  Definer(m, c) = a
<1> DEFINE b == Definer(m, c)
<1>1. b \in Definers(m, c) /\ Definers(m, c) \subseteq Lineage(m, b)
  BY DefinerIs
<1>2. a \in Types /\ b \in Types
  BY <1>1 DEF Definers
<1> HIDE DEF b
<1>3. a \in Lineage(m, b) /\ b \in Lineage(m, a)
  BY <1>1
<1> QED
  BY <1>2, <1>3, LineageOrder DEF b

(* A type inherits the field when a type above it defines it.              *)
LEMMA InheritedFrom ==
  ASSUME NEW m \in Metamodel, NEW c \in Types, NEW d \in Lineage(m, c), d # c, m.fields[d] # None
  PROVE  Inherited(m, c) # None
<1> DEFINE p == ParentOf(m, c)
<1>1. p \in Types /\ p # None /\ d \in Lineage(m, p)
  BY LineageUp
<1> HIDE DEF p
<1>2. d \in Definers(m, p) /\ d \in Types
  BY <1>1 DEF Definers, Lineage
<1>3. Definer(m, p) \in Definers(m, p)
  BY <1>1, <1>2, DefinerIs
<1>4. Definer(m, p) # None /\ m.fields[Definer(m, p)] # None
  BY <1>3, TemplatesAssumption DEF Definers
<1> QED
  BY <1>1, <1>4 DEF Inherited, Effective, p

-----------------------------------------------------------------------------
(* No type comes to be above itself.                                       *)

(* A chain of existing types has existing types only.                      *)
LEMMA LinkedChain ==
  ASSUME NEW m \in Metamodel, Linked(m), NEW c \in Types, m.types[c] # None
  PROVE  \A a \in Lineage(m, c) : a \in Types /\ m.types[a] # None
<1> DEFINE S == {a \in Types : m.types[a] # None}
<1>1. Closed(m, S)
  <2> SUFFICES ASSUME NEW x \in S, ParentOf(m, x) # None PROVE ParentOf(m, x) \in S
    BY DEF Closed
  <2>1. ParentOf(m, x) \in Types
    BY RowTypes
  <2>2. m.types[ParentOf(m, x)] # None
    BY DEF Linked, ParentOf
  <2> QED
    BY <2>1, <2>2
<1>2. Lineage(m, c) \subseteq S
  BY <1>1, LineageLeast
<1> QED
  BY <1>2

(* Metamodels with the same parents have the same cycles.                  *)
LEMMA SameParents ==
  ASSUME NEW m \in Metamodel, NEW w \in Metamodel, Acyclic(m),
         \A a \in Types : ParentOf(w, a) = ParentOf(m, a)
  PROVE  /\ Acyclic(w)
         /\ \A c \in Types : Lineage(w, c) = Lineage(m, c)
<1>1. ASSUME NEW c \in Types PROVE Lineage(w, c) = Lineage(m, c)
  BY LineageHas, LineageSame
<1>2. ASSUME NEW c \in Types, ParentOf(w, c) # None PROVE c \notin Lineage(w, ParentOf(w, c))
  <2>1. ParentOf(m, c) # None /\ ParentOf(m, c) \in Types /\ ParentOf(w, c) = ParentOf(m, c)
    BY <1>2, RowTypes
  <2>2. Lineage(w, ParentOf(w, c)) = Lineage(m, ParentOf(m, c))
    BY <1>1, <2>1
  <2> QED
    BY <2>1, <2>2 DEF Acyclic
<1> QED
  BY <1>1, <1>2 DEF Acyclic

(* A cycle of one metamodel is a cycle of another with its parents.        *)
LEMMA CycleCarries ==
  ASSUME NEW m \in Metamodel, NEW w \in Metamodel, Acyclic(m), NEW c \in Types,
         ParentOf(w, c) # None, c \in Lineage(w, ParentOf(w, c)),
         \A a \in Lineage(w, c) : ParentOf(m, a) = ParentOf(w, a)
  PROVE  FALSE
<1> DEFINE p == ParentOf(w, c)
<1>1. c \in Lineage(w, c) /\ Closed(w, Lineage(w, c)) /\ p \in Types
  BY LineageHas, RowTypes
<1>2. p \in Lineage(w, c)
  BY <1>1 DEF Closed
<1>3. Lineage(w, p) \subseteq Lineage(w, c)
  BY <1>2, LineageWithin
<1>4. Lineage(m, p) = Lineage(w, p)
  BY <1>1, <1>3, LineageSame
<1>5. ParentOf(m, c) = p
  BY <1>1
<1> QED
  BY <1>4, <1>5 DEF Acyclic

(* ParentAllowed: the new parent is not below the type.                    *)
LEMMA NewParent ==
  ASSUME NEW m \in Metamodel, NEW w \in Metamodel, Acyclic(m), NEW c \in Types,
         \A a \in Types : a # c => ParentOf(w, a) = ParentOf(m, a),
         ParentOf(w, c) # None => c \notin Lineage(m, ParentOf(w, c))
  PROVE  Acyclic(w)
<1> SUFFICES ASSUME NEW x \in Types, ParentOf(w, x) # None, x \in Lineage(w, ParentOf(w, x))
             PROVE  FALSE
  BY DEF Acyclic
<1>1. Lineage(w, x) \subseteq Types /\ x \in Lineage(w, x)
  BY LineageHas
<1>2. CASE c \notin Lineage(w, x)
  <2>1. \A a \in Lineage(w, x) : ParentOf(m, a) = ParentOf(w, a)
    BY <1>1, <1>2
  <2> QED
    BY <2>1, CycleCarries
<1>3. CASE c \in Lineage(w, x)
  <2> DEFINE p == ParentOf(w, c)
  <2>1. x \in Lineage(w, c)
    BY <1>3, CycleTurns
  <2>2. p \in Types /\ p # None /\ c \in Lineage(w, p)
    <3>1. CASE x = c
      BY <3>1, RowTypes
    <3>2. CASE x # c
      <4>1. p \in Types /\ p # None /\ x \in Lineage(w, p)
        BY <2>1, <3>2, LineageUp
      <4>2. Lineage(w, x) \subseteq Lineage(w, p)
        BY <4>1, LineageWithin
      <4> QED
        BY <1>3, <4>1, <4>2
    <3> QED
      BY <3>1, <3>2
  <2>3. c \notin Lineage(m, p)
    BY <2>2
  <2>4. Lineage(w, p) = Lineage(m, p)
    BY <2>2, <2>3, LineageHas, LineageSame
  <2> QED
    BY <2>2, <2>3, <2>4
<1> QED
  BY <1>2, <1>3

(* An upgrade: types are added above none of the old ones.                 *)
LEMMA AddedTypes ==
  ASSUME NEW r \in Metamodel, NEW to \in Metamodel, NEW w \in Metamodel,
         Linked(r), Acyclic(r), Acyclic(to),
         \A a \in Types : r.types[a] # None => w.types[a] = r.types[a],
         \A a \in Types : r.types[a] = None /\ w.types[a] # None
                          => ParentOf(w, a) = ParentOf(to, a)
  PROVE  /\ Acyclic(w)
         /\ \A c \in Types : r.types[c] # None => Lineage(w, c) = Lineage(r, c)
<1>1. ASSUME NEW c \in Types, r.types[c] # None
      PROVE  /\ Lineage(w, c) = Lineage(r, c)
             /\ \A a \in Lineage(w, c) : r.types[a] # None /\ ParentOf(r, a) = ParentOf(w, a)
  <2>1. \A a \in Lineage(r, c) : a \in Types /\ r.types[a] # None
    BY <1>1, LinkedChain
  <2>2. \A a \in Lineage(r, c) : ParentOf(w, a) = ParentOf(r, a)
    BY <2>1 DEF ParentOf
  <2>3. Lineage(w, c) = Lineage(r, c)
    BY <2>2, LineageSame
  <2> QED
    BY <2>1, <2>2, <2>3
<1>2. ASSUME NEW c \in Types, ParentOf(w, c) # None, c \in Lineage(w, ParentOf(w, c))
      PROVE  FALSE
  <2>1. CASE r.types[c] # None
    BY <1>1, <1>2, <2>1, CycleCarries
  <2>2. CASE r.types[c] = None
    <3>1. ASSUME NEW a \in Lineage(w, c)
          PROVE  a \in Types /\ r.types[a] = None
      <4>1. a \in Types /\ c \in Lineage(w, a)
        BY <1>2, CycleTurns
      <4> QED
        BY <1>1, <2>2, <4>1
    <3>2. ASSUME NEW a \in Lineage(w, c)
          PROVE  ParentOf(to, a) = ParentOf(w, a)
      <4>1. a \in Types /\ r.types[a] = None /\ c \in Lineage(w, a)
        BY <1>2, <3>1, CycleTurns
      <4>2. ParentOf(w, a) # None
        BY <1>2, <4>1, LineageUp
      <4>3. w.types[a] # None
        BY <4>2 DEF ParentOf
      <4> QED
        BY <4>1, <4>3
    <3> QED
      BY <1>2, <3>2, CycleCarries
  <2> QED
    BY <2>1, <2>2
<1> QED
  BY <1>1, <1>2 DEF Acyclic

-----------------------------------------------------------------------------
(* What the commands make of a metamodel.                                  *)

AllPublished(m) == \A c \in Types : m.types[c] # None => m.types[c].published

(* A metamodel or a row with one part replaced.                            *)
LEMMA Replaced ==
  ASSUME NEW m \in Metamodel, NEW g
  PROVE  /\ m = [types |-> m.types, fields |-> m.fields]
         /\ [m EXCEPT !.types = g] = [types |-> g, fields |-> m.fields]
         /\ [m EXCEPT !.fields = g] = [types |-> m.types, fields |-> g]
BY DEF Metamodel

LEMMA RowMarked ==
  ASSUME NEW r \in TypeRow, NEW b
  PROVE  [r EXCEPT !.published = b] = [parent |-> r.parent, published |-> b]
BY DEF TypeRow

(* MarkPublished changes the flags of the rows only.                       *)
LEMMA MarkedRows ==
  ASSUME NEW m \in Metamodel
  PROVE  /\ MarkPublished(m) \in Metamodel /\ AllPublished(MarkPublished(m))
         /\ MarkPublished(m).fields = m.fields
         /\ \A c \in Types : /\ MarkPublished(m).types[c] = None <=> m.types[c] = None
                             /\ ParentOf(MarkPublished(m), c) = ParentOf(m, c)
         /\ Linked(m) => Linked(MarkPublished(m))
         /\ AllPublished(m) => MarkPublished(m) = m
<1> DEFINE w == MarkPublished(m)
           row(c) == IF m.types[c] = None THEN None ELSE [m.types[c] EXCEPT !.published = TRUE]
<1>1. m.types \in [Types -> TypeRow \cup {None}] /\ m.fields \in [Types -> FieldRow \cup {None}]
      /\ m = [types |-> m.types, fields |-> m.fields]
  BY DEF Metamodel
<1>2. w = [types |-> [c \in Types |-> row(c)], fields |-> m.fields]
  BY Replaced, Zenon DEF MarkPublished
<1> HIDE DEF w
<1>3. ASSUME NEW c \in Types
      PROVE  /\ w.types[c] \in TypeRow \cup {None} /\ (w.types[c] = None <=> m.types[c] = None)
             /\ w.types[c] # None => /\ w.types[c].published
                                     /\ w.types[c].parent = m.types[c].parent
  <2>1. w.types[c] = row(c)
    BY <1>2
  <2>2. CASE m.types[c] = None
    BY <2>1, <2>2
  <2>3. CASE m.types[c] # None
    <3>1. m.types[c] \in TypeRow
      BY <1>1, <2>3
    <3>2. [m.types[c] EXCEPT !.published = TRUE] = [parent |-> m.types[c].parent, published |-> TRUE]
      BY <3>1, RowMarked
    <3>3. w.types[c] = [parent |-> m.types[c].parent, published |-> TRUE]
      BY <2>1, <2>3, <3>2
    <3>4. w.types[c] \in TypeRow
      BY <3>1, <3>3 DEF TypeRow
    <3>5. w.types[c] # None
      BY <3>4, NoneIsNoRow
    <3>6. w.types[c].published /\ w.types[c].parent = m.types[c].parent
      BY <3>3
    <3> QED
      BY <2>3, <3>4, <3>5, <3>6
  <2> QED
    BY <2>2, <2>3
<1>4. w \in Metamodel /\ w.fields = m.fields
  <2>1. [c \in Types |-> row(c)] \in [Types -> TypeRow \cup {None}]
    BY <1>2, <1>3
  <2> QED
    BY <1>1, <1>2, <2>1 DEF Metamodel
<1>5. \A c \in Types : ParentOf(w, c) = ParentOf(m, c)
  BY <1>3 DEF ParentOf
<1>6. Linked(m) => Linked(w)
  <2> SUFFICES ASSUME Linked(m), NEW c \in Types
               PROVE  /\ w.types[c] # None /\ w.types[c].parent # None
                         => w.types[w.types[c].parent] # None
                      /\ w.fields[c] # None => w.types[c] # None
    BY DEF Linked
  <2>1. ASSUME w.types[c] # None, w.types[c].parent # None
        PROVE  w.types[w.types[c].parent] # None
    <3>1. m.types[c] # None /\ w.types[c].parent = m.types[c].parent /\ w.types[c] \in TypeRow
      BY <1>3, <2>1
    <3>2. w.types[c].parent \in Types
      BY <2>1, <3>1 DEF TypeRow
    <3>3. m.types[w.types[c].parent] # None
      BY <2>1, <3>1 DEF Linked
    <3> QED
      BY <1>3, <3>2, <3>3
  <2>2. w.fields[c] # None => w.types[c] # None
    BY <1>3, <1>4 DEF Linked
  <2> QED
    BY <2>1, <2>2
<1>7. AllPublished(m) => w = m
  <2> SUFFICES ASSUME AllPublished(m) PROVE [c \in Types |-> row(c)] = m.types
    BY <1>1, <1>2
  <2>1. ASSUME NEW c \in Types PROVE row(c) = m.types[c]
    <3>1. CASE m.types[c] = None
      BY <3>1
    <3>2. CASE m.types[c] # None
      BY <1>1, <3>2 DEF AllPublished, TypeRow
    <3> QED
      BY <3>1, <3>2
  <2> QED
    BY <1>1, <2>1
<1>8. AllPublished(w)
  BY <1>3 DEF AllPublished
<1> QED
  BY <1>3, <1>4, <1>5, <1>6, <1>7, <1>8 DEF w

(* Blocked: what an upgrade that is not blocked may rely on.               *)
LEMMA NotBlocked ==
  ASSUME NEW from \in Metamodel, NEW to \in Metamodel, ~Blocked(from, to), NEW c \in Types
  PROVE  /\ from.types[c] # None => /\ to.types[c] # None
                                    /\ to.types[c].parent = from.types[c].parent
         /\ from.fields[c] # None => /\ to.fields[c] # None
                                     /\ to.fields[c].redefines = from.fields[c].redefines
                                     /\ from.fields[c].required \/ ~to.fields[c].required
                                     /\ from.fields[c].limit <= to.fields[c].limit
         /\ from.types[c] # None /\ c \in NewFields(from, to) => ~to.fields[c].required
BY DEF Blocked, TypeBlocks, Kept, FieldBlocks, Relaxed

(* Needed has types of the version, and with a type its parent.            *)
LEMMA NeededRows ==
  ASSUME NEW from \in Metamodel, NEW to \in Metamodel, Linked(to)
  PROVE  /\ \A c \in Needed(from, to) :
              /\ c \in Types /\ to.types[c] # None
              /\ to.types[c].parent # None => to.types[c].parent \in Needed(from, to)
         /\ NewTypes(from, to) \cup NewFields(from, to) \subseteq Needed(from, to)
<1> DEFINE new == NewTypes(from, to) \cup NewFields(from, to)
<1>1. \A c \in new : c \in Types /\ to.types[c] # None
  BY DEF NewTypes, NewFields, Linked
<1>2. Needed(from, to) = UNION {Lineage(to, c) : c \in new}
  BY DEF Needed
<1> HIDE DEF new
<1>3. ASSUME NEW a \in Needed(from, to)
      PROVE  /\ a \in Types /\ to.types[a] # None
             /\ to.types[a].parent # None => to.types[a].parent \in Needed(from, to)
  <2>1. PICK c \in new : a \in Lineage(to, c)
    BY <1>2
  <2>2. a \in Types /\ to.types[a] # None
    BY <1>1, <2>1, LinkedChain
  <2>3. Closed(to, Lineage(to, c))
    BY <1>1, <2>1, LineageHas
  <2>4. to.types[a].parent # None => to.types[a].parent \in Lineage(to, c)
    BY <2>1, <2>2, <2>3 DEF Closed, ParentOf
  <2> QED
    BY <1>2, <2>1, <2>2, <2>4
<1>4. ASSUME NEW c \in new PROVE c \in Needed(from, to)
  <2>1. c \in Lineage(to, c)
    BY <1>1, LineageHas
  <2> QED
    BY <1>2, <2>1
<1> QED
  BY <1>3, <1>4 DEF new

LEMMA RowLimited ==
  ASSUME NEW r \in FieldRow, NEW b \in Limits
  PROVE  [r EXCEPT !.limit = b]
         = [required |-> r.required, limit |-> b, redefines |-> r.redefines]
BY DEF FieldRow

LEMMA RowRelaxed ==
  ASSUME NEW r \in FieldRow, NEW a \in BOOLEAN, NEW b \in Limits
  PROVE  [r EXCEPT !.required = a, !.limit = b]
         = [required |-> a, limit |-> b, redefines |-> r.redefines]
<1> DEFINE q == [r EXCEPT !.required = a]
<1>1. q = [required |-> a, limit |-> r.limit, redefines |-> r.redefines]
  BY DEF FieldRow
<1>2. [r EXCEPT !.required = a, !.limit = b] = [q EXCEPT !.limit = b]
  BY DEF FieldRow
<1> HIDE DEF q
<1>3. q \in FieldRow /\ q.required = a /\ q.redefines = r.redefines
  BY <1>1 DEF FieldRow
<1>4. [q EXCEPT !.limit = b] = [required |-> q.required, limit |-> b, redefines |-> q.redefines]
  BY <1>3, RowLimited
<1> QED
  BY <1>2, <1>3, <1>4

(* applyTemplateVersion: what the workspace has after an upgrade.          *)
UpgradeMade(from, to, w) ==
  \A c \in Types :
    /\ runtime.types[c] # None => w.types[c] = runtime.types[c]
    /\ runtime.types[c] = None /\ c \in Needed(from, to) =>
         w.types[c] = [parent |-> to.types[c].parent, published |-> TRUE]
    /\ runtime.types[c] = None /\ c \notin Needed(from, to) => w.types[c] = None
    /\ c \in NewFields(from, to) => w.fields[c] = to.fields[c]
    /\ c \notin NewFields(from, to) /\ c \in Kept(from) /\ runtime.fields[c] # None =>
         w.fields[c] = [required |-> to.fields[c].required, limit |-> to.fields[c].limit,
                        redefines |-> runtime.fields[c].redefines]
    /\ c \notin NewFields(from, to) /\ (c \notin Kept(from) \/ runtime.fields[c] = None) =>
         w.fields[c] = runtime.fields[c]

LEMMA UpgradeRows ==
  ASSUME runtime \in Metamodel, NEW from \in Metamodel, NEW to \in Metamodel,
         Linked(runtime), Linked(to), ~Blocked(from, to),
         NEW w, w = Upgraded(from, to)
  PROVE  w \in Metamodel /\ Linked(w) /\ UpgradeMade(from, to, w)
<1> DEFINE type(c) == IF runtime.types[c] = None /\ c \in Needed(from, to)
                      THEN [parent |-> to.types[c].parent, published |-> TRUE]
                      ELSE runtime.types[c]
           field(c) == IF c \in NewFields(from, to) THEN to.fields[c]
                       ELSE IF c \in Kept(from) /\ runtime.fields[c] # None
                       THEN [runtime.fields[c] EXCEPT !.required = to.fields[c].required,
                                                      !.limit = to.fields[c].limit]
                       ELSE runtime.fields[c]
<1>1. w = [types |-> [c \in Types |-> type(c)], fields |-> [c \in Types |-> field(c)]]
  BY Zenon DEF Upgraded
<1>2. ASSUME NEW c \in Types PROVE w.types[c] = type(c) /\ w.fields[c] = field(c)
  <2> DEFINE T == [x \in Types |-> type(x)]
             F == [x \in Types |-> field(x)]
  <2>1. T[c] = type(c) /\ F[c] = field(c)
    BY Zenon
  <2>2. w = [types |-> T, fields |-> F]
    BY <1>1, Zenon
  <2> HIDE DEF T, F
  <2>3. w.types = T /\ w.fields = F
    BY <2>2
  <2> QED
    BY <2>1, <2>3, Zenon
<1>3. ASSUME NEW c \in Types, c \in Kept(from), runtime.fields[c] # None
      PROVE  [runtime.fields[c] EXCEPT !.required = to.fields[c].required,
                                       !.limit = to.fields[c].limit]
             = [required |-> to.fields[c].required, limit |-> to.fields[c].limit,
                redefines |-> runtime.fields[c].redefines]
  <2>1. runtime.fields[c] \in FieldRow /\ to.fields[c] \in FieldRow
    BY <1>3, NotBlocked DEF Metamodel, Kept
  <2>2. to.fields[c].required \in BOOLEAN /\ to.fields[c].limit \in Limits
    BY <2>1 DEF FieldRow
  <2> QED
    BY <2>1, <2>2, RowRelaxed
<1>4. ASSUME NEW c \in Types
      PROVE  /\ runtime.types[c] # None => w.types[c] = runtime.types[c]
             /\ runtime.types[c] = None /\ c \in Needed(from, to) =>
                  w.types[c] = [parent |-> to.types[c].parent, published |-> TRUE]
             /\ runtime.types[c] = None /\ c \notin Needed(from, to) => w.types[c] = None
             /\ c \in NewFields(from, to) => w.fields[c] = to.fields[c]
             /\ c \notin NewFields(from, to) /\ c \in Kept(from) /\ runtime.fields[c] # None =>
                  w.fields[c] = [required |-> to.fields[c].required, limit |-> to.fields[c].limit,
                                 redefines |-> runtime.fields[c].redefines]
             /\ c \notin NewFields(from, to) /\ (c \notin Kept(from) \/ runtime.fields[c] = None) =>
                  w.fields[c] = runtime.fields[c]
  BY <1>2, <1>3, Zenon
<1>5. ASSUME NEW c \in Types PROVE w.types[c] \in TypeRow \cup {None}
  <2>1. CASE runtime.types[c] = None /\ c \in Needed(from, to)
    <3>1. to.types[c] \in TypeRow
      BY <2>1, NeededRows DEF Metamodel
    <3>2. [parent |-> to.types[c].parent, published |-> TRUE] \in TypeRow
      BY <3>1 DEF TypeRow
    <3>3. w.types[c] = [parent |-> to.types[c].parent, published |-> TRUE]
      BY <1>4, <2>1, Zenon
    <3> QED
      BY <3>2, <3>3
  <2>2. CASE ~(runtime.types[c] = None /\ c \in Needed(from, to))
    BY <1>4, <2>2 DEF Metamodel
  <2> QED
    BY <2>1, <2>2
<1>6. ASSUME NEW c \in Types PROVE w.fields[c] \in FieldRow \cup {None}
  <2>1. CASE c \in NewFields(from, to)
    BY <1>4, <2>1 DEF Metamodel
  <2>2. CASE c \notin NewFields(from, to) /\ c \in Kept(from) /\ runtime.fields[c] # None
    <3>1. to.fields[c] \in FieldRow /\ runtime.fields[c] \in FieldRow
      BY <2>2, NotBlocked DEF Metamodel, Kept
    <3>2. [required |-> to.fields[c].required, limit |-> to.fields[c].limit,
           redefines |-> runtime.fields[c].redefines] \in FieldRow
      BY <3>1 DEF FieldRow
    <3>3. w.fields[c] = [required |-> to.fields[c].required, limit |-> to.fields[c].limit,
                         redefines |-> runtime.fields[c].redefines]
      BY <1>4, <2>2, Zenon
    <3> QED
      BY <3>2, <3>3
  <2>3. CASE c \notin NewFields(from, to) /\ (c \notin Kept(from) \/ runtime.fields[c] = None)
    BY <1>4, <2>3 DEF Metamodel
  <2> QED
    BY <2>1, <2>2, <2>3
<1>7. w \in Metamodel
  <2>1. [c \in Types |-> type(c)] \in [Types -> TypeRow \cup {None}]
    BY <1>2, <1>5, Zenon
  <2>2. [c \in Types |-> field(c)] \in [Types -> FieldRow \cup {None}]
    BY <1>2, <1>6, Zenon
  <2> HIDE DEF type, field
  <2> QED
    BY <1>1, <2>1, <2>2 DEF Metamodel
<1> HIDE DEF type, field
<1>8. Linked(w)
  <2> SUFFICES ASSUME NEW c \in Types
               PROVE  /\ w.types[c] # None /\ w.types[c].parent # None
                         => w.types[w.types[c].parent] # None
                      /\ w.fields[c] # None => w.types[c] # None
    BY DEF Linked
  <2>1. ASSUME NEW a \in Types, runtime.types[a] # None \/ a \in Needed(from, to)
        PROVE  w.types[a] # None
    <3>1. CASE runtime.types[a] # None
      BY <1>4, <3>1
    <3>2. CASE runtime.types[a] = None /\ a \in Needed(from, to)
      <4>1. to.types[a] \in TypeRow
        BY <3>2, NeededRows DEF Metamodel
      <4>2. [parent |-> to.types[a].parent, published |-> TRUE] \in TypeRow
        BY <4>1 DEF TypeRow
      <4> QED
        BY <1>4, <3>2, <4>2, NoneIsNoRow
    <3> QED
      BY <2>1, <3>1, <3>2
  <2>2. ASSUME w.types[c] # None, w.types[c].parent # None
        PROVE  w.types[w.types[c].parent] # None
    <3>1. w.types[c].parent \in Types
      BY <1>5, <2>2 DEF TypeRow
    <3>2. CASE runtime.types[c] # None
      <4>1. w.types[c].parent = runtime.types[c].parent
        BY <1>4, <3>2
      <4>2. runtime.types[w.types[c].parent] # None
        BY <2>2, <3>2, <4>1 DEF Linked
      <4> QED
        BY <2>1, <3>1, <4>2
    <3>3. CASE runtime.types[c] = None
      <4>1. c \in Needed(from, to)
        BY <1>4, <2>2, <3>3, Zenon
      <4>3. w.types[c] = [parent |-> to.types[c].parent, published |-> TRUE]
        BY <1>4, <3>3, <4>1, Zenon
      <4>2. w.types[c].parent \in Needed(from, to)
        BY <2>2, <4>1, <4>3, NeededRows
      <4> QED
        BY <2>1, <3>1, <4>2
    <3> QED
      BY <3>2, <3>3
  <2>3. ASSUME w.fields[c] # None PROVE w.types[c] # None
    <3>1. CASE c \in NewFields(from, to)
      BY <2>1, <3>1, NeededRows
    <3>2. CASE c \notin NewFields(from, to)
      <4>1. runtime.fields[c] # None
        BY <1>4, <2>3, <3>2
      <4> QED
        BY <2>1, <4>1 DEF Linked
    <3> QED
      BY <3>1, <3>2
  <2> QED
    BY <2>2, <2>3
<1>9. UpgradeMade(from, to, w)
  BY <1>4, Zenon DEF UpgradeMade
<1> QED
  BY <1>7, <1>8, <1>9

-----------------------------------------------------------------------------
(* An upgrade: the workspace beside the version it is at.                  *)

(* The version has the types and fields of the workspace, with their       *)
(* constraints; it may have more, and have other parents for those that    *)
(* were added to it when it was withdrawn.                                 *)
Embeds(r, m) ==
  \A c \in Types :
    /\ r.types[c] # None => m.types[c] # None
    /\ r.fields[c] # None => /\ m.fields[c] # None
                             /\ m.fields[c].required = r.fields[c].required
                             /\ m.fields[c].limit = r.fields[c].limit

LEMMA UpgradeEmbeds ==
  ASSUME runtime \in Metamodel, NEW from \in Metamodel, NEW to \in Metamodel,
         Linked(runtime), Linked(to), ~Blocked(from, to), Embeds(runtime, from),
         NEW w, w = Upgraded(from, to)
  PROVE  Embeds(w, to)
<1> SUFFICES ASSUME NEW c \in Types
             PROVE  /\ w.types[c] # None => to.types[c] # None
                    /\ w.fields[c] # None => /\ to.fields[c] # None
                                             /\ to.fields[c].required = w.fields[c].required
                                             /\ to.fields[c].limit = w.fields[c].limit
  BY DEF Embeds
<1>0. w \in Metamodel /\ UpgradeMade(from, to, w)
  BY UpgradeRows
<1>1. ASSUME w.types[c] # None PROVE to.types[c] # None
  <2>1. CASE runtime.types[c] # None
    BY <2>1, NotBlocked DEF Embeds
  <2>2. CASE runtime.types[c] = None
    <3>1. c \in Needed(from, to)
      BY <1>1, <2>2, <1>0 DEF UpgradeMade
    <3> QED
      BY <3>1, NeededRows
  <2> QED
    BY <2>1, <2>2
<1>2. ASSUME w.fields[c] # None
      PROVE  /\ to.fields[c] # None
             /\ to.fields[c].required = w.fields[c].required
             /\ to.fields[c].limit = w.fields[c].limit
  <2>1. CASE c \in NewFields(from, to)
    <3>1. w.fields[c] = to.fields[c]
      BY <2>1, <1>0 DEF UpgradeMade
    <3> QED
      BY <1>2, <3>1
  <2>2. CASE c \notin NewFields(from, to)
    <3>1. runtime.fields[c] # None
      BY <1>2, <2>2, <1>0 DEF UpgradeMade
    <3>2. c \in Kept(from)
      BY <3>1 DEF Embeds, Kept
    <3>3. w.fields[c] = [required |-> to.fields[c].required, limit |-> to.fields[c].limit,
                         redefines |-> runtime.fields[c].redefines]
      BY <2>2, <3>1, <3>2, <1>0 DEF UpgradeMade
    <3>4. to.fields[c] # None
      BY <3>2, NotBlocked DEF Kept
    <3> QED
      BY <3>3, <3>4
  <2> QED
    BY <2>1, <2>2
<1> QED
  BY <1>1, <1>2

(* Where every type is published, an upgrade from one version to another   *)
(* makes the other of a workspace that is the one.                         *)
LEMMA UpgradeIsVersion ==
  ASSUME runtime \in Metamodel, NEW from \in Metamodel, NEW to \in Metamodel,
         Linked(runtime), Linked(to), ~Blocked(from, to), runtime = from,
         AllPublished(from), AllPublished(to),
         NEW w, w = Upgraded(from, to)
  PROVE  w = to
<1>0. w \in Metamodel /\ UpgradeMade(from, to, w)
  BY UpgradeRows
<1>1. w \in Metamodel
  BY <1>0
<1>2. ASSUME NEW c \in Types PROVE w.types[c] = to.types[c]
  <2>1. CASE from.types[c] # None
    <3>1. w.types[c] = from.types[c]
      BY <2>1, <1>0 DEF UpgradeMade
    <3>2. to.types[c] # None /\ to.types[c].parent = from.types[c].parent
      BY <2>1, NotBlocked
    <3>3. from.types[c] \in TypeRow /\ to.types[c] \in TypeRow
          /\ from.types[c].published /\ to.types[c].published
      BY <2>1, <3>2 DEF Metamodel, AllPublished
    <3> QED
      BY <3>1, <3>2, <3>3 DEF TypeRow
  <2>2. CASE from.types[c] = None /\ to.types[c] = None
    <3>1. c \notin Needed(from, to)
      BY <2>2, NeededRows
    <3> QED
      BY <2>2, <3>1, <1>0 DEF UpgradeMade
  <2>3. CASE from.types[c] = None /\ to.types[c] # None
    <3>1. c \in Needed(from, to)
      BY <2>3, NeededRows DEF NewTypes
    <3>2. w.types[c] = [parent |-> to.types[c].parent, published |-> TRUE]
      BY <2>3, <3>1, <1>0 DEF UpgradeMade
    <3>3. to.types[c] \in TypeRow /\ to.types[c].published
      BY <2>3 DEF Metamodel, AllPublished
    <3> QED
      BY <3>2, <3>3 DEF TypeRow
  <2> QED
    BY <2>1, <2>2, <2>3
<1>3. ASSUME NEW c \in Types PROVE w.fields[c] = to.fields[c]
  <2>1. CASE from.fields[c] # None
    <3>1. c \notin NewFields(from, to) /\ c \in Kept(from)
      BY <2>1 DEF NewFields, Kept
    <3>2. w.fields[c] = [required |-> to.fields[c].required, limit |-> to.fields[c].limit,
                         redefines |-> from.fields[c].redefines]
      BY <2>1, <3>1, <1>0 DEF UpgradeMade
    <3>3. to.fields[c] \in FieldRow /\ to.fields[c].redefines = from.fields[c].redefines
      BY <2>1, NotBlocked DEF Metamodel
    <3> QED
      BY <3>2, <3>3 DEF FieldRow
  <2>2. CASE from.fields[c] = None /\ to.fields[c] # None
    BY <2>2, <1>0 DEF NewFields, UpgradeMade
  <2>3. CASE from.fields[c] = None /\ to.fields[c] = None
    <3>1. c \notin NewFields(from, to) /\ c \notin Kept(from)
      BY <2>3 DEF NewFields, Kept
    <3> QED
      BY <2>3, <3>1, <1>0 DEF UpgradeMade
  <2> QED
    BY <2>1, <2>2, <2>3
<1>4. w.types = to.types /\ w.fields = to.fields
  BY <1>1, <1>2, <1>3 DEF Metamodel
<1> QED
  BY <1>1, <1>4, Replaced

(* The chains of the workspace stay, and none comes to be a cycle.         *)
LEMMA UpgradeChains ==
  ASSUME runtime \in Metamodel, NEW from \in Metamodel, NEW to \in Metamodel, NEW w \in Metamodel,
         Linked(runtime), Linked(to), Acyclic(runtime), Acyclic(to), UpgradeMade(from, to, w)
  PROVE  /\ Acyclic(w)
         /\ \A c \in Types : runtime.types[c] # None => Lineage(w, c) = Lineage(runtime, c)
<1>1. \A a \in Types : runtime.types[a] # None => w.types[a] = runtime.types[a]
  BY DEF UpgradeMade
<1>2. ASSUME NEW a \in Types, runtime.types[a] = None, w.types[a] # None
      PROVE  ParentOf(w, a) = ParentOf(to, a)
  <2>1. a \in Needed(from, to)
    BY <1>2 DEF UpgradeMade
  <2>2. w.types[a] = [parent |-> to.types[a].parent, published |-> TRUE]
    BY <1>2, <2>1 DEF UpgradeMade
  <2>3. to.types[a] # None
    BY <2>1, NeededRows
  <2> QED
    BY <1>2, <2>2, <2>3 DEF ParentOf
<1> QED
  BY <1>1, <1>2, AddedTypes

(* What an object may have before an upgrade, it may have after, unless a  *)
(* new field has come over one that a type of its chain inherits: a field  *)
(* in force stays so and is relaxed, and one that came where there was     *)
(* none is not required.                                                   *)
LEMMA UpgradeValid ==
  ASSUME runtime \in Metamodel, NEW from \in Metamodel, NEW to \in Metamodel,
         Linked(runtime), Linked(to), Acyclic(runtime), Acyclic(to),
         ~Blocked(from, to), InOrder(from, to), Embeds(runtime, from),
         NEW w, w = Upgraded(from, to),
         NEW c \in Types, runtime.types[c] # None, NEW value \in Values,
         Valid(runtime, c, value),
         \A a \in Lineage(w, c) : a \in NewFields(from, to) => Inherited(runtime, a) = None
  PROVE  Valid(w, c, value)
<1> DEFINE L == Lineage(runtime, c)
           D == Definers(runtime, c)
           E == Definers(w, c)
           d == Definer(runtime, c)
           e == Definer(w, c)
<1>0. w \in Metamodel /\ UpgradeMade(from, to, w)
  BY UpgradeRows
<1>1. w \in Metamodel
  BY <1>0
<1>3. Acyclic(w) /\ \A a \in Types : runtime.types[a] # None => Lineage(w, a) = Lineage(runtime, a)
  BY <1>0, UpgradeChains
<1>4. /\ Lineage(w, c) = L
      /\ \A a \in L : a \in Types /\ runtime.types[a] # None /\ Lineage(w, a) = Lineage(runtime, a)
  BY <1>3, LinkedChain
<1>5. ASSUME NEW a \in L
      PROVE  w.fields[a] # None <=> runtime.fields[a] # None \/ a \in NewFields(from, to)
  <2>1. a \in Types
    BY <1>4
  <2>2. CASE a \in NewFields(from, to)
    BY <2>1, <2>2, <1>0 DEF NewFields, UpgradeMade
  <2>3. CASE a \notin NewFields(from, to) /\ runtime.fields[a] = None
    BY <2>1, <2>3, <1>0 DEF UpgradeMade
  <2>4. CASE a \notin NewFields(from, to) /\ runtime.fields[a] # None
    <3>1. a \in Kept(from) /\ runtime.fields[a] \in FieldRow
      BY <2>1, <2>4 DEF Embeds, Kept, Metamodel
    <3>2. to.fields[a] \in FieldRow
      BY <3>1, NotBlocked DEF Kept, Metamodel
    <3>3. w.fields[a] = [required |-> to.fields[a].required, limit |-> to.fields[a].limit,
                         redefines |-> runtime.fields[a].redefines]
      BY <2>1, <2>4, <3>1, <1>0 DEF UpgradeMade
    <3>4. w.fields[a] \in FieldRow
      BY <3>1, <3>2, <3>3 DEF FieldRow
    <3> QED
      BY <2>4, <3>4, NoneIsNoRow
  <2> QED
    BY <2>2, <2>3, <2>4
<1>6. /\ D = {a \in L : runtime.fields[a] # None}
      /\ E = {a \in L : w.fields[a] # None}
  BY <1>4 DEF Definers
<1>7. \A a \in L : a \in NewFields(from, to) => runtime.fields[a] = None /\ Inherited(runtime, a) = None
  BY <1>4 DEF InOrder
<1>8. CASE D # {}
  <2>1. d \in D /\ D \subseteq Lineage(runtime, d)
    BY <1>8, DefinerIs
  <2>2. d \in L /\ d \in Types /\ runtime.fields[d] # None /\ d \notin NewFields(from, to) /\ d # None
    BY <1>4, <1>6, <1>7, <2>1, TemplatesAssumption
  <2> HIDE DEF d
  <2>3. ASSUME NEW a \in E PROVE a \in Lineage(runtime, d)
    <3>1. CASE a \in D
      BY <2>1, <3>1
    <3>2. CASE a \notin D
      <4>1. a \in L /\ a \in Types /\ a \in NewFields(from, to) /\ Inherited(runtime, a) = None
        BY <1>4, <1>5, <1>6, <1>7, <3>2
      <4>2. d \notin Lineage(runtime, a)
        <5> SUFFICES ASSUME d \in Lineage(runtime, a) PROVE FALSE
          OBVIOUS
        <5>1. Inherited(runtime, a) # None
          BY <2>2, <4>1, InheritedFrom
        <5> QED
          BY <4>1, <5>1
      <4> QED
        BY <2>2, <4>1, <4>2, LineageLinear
    <3> QED
      BY <3>1, <3>2
  <2>4. d \in E /\ E \subseteq Lineage(w, d)
    BY <1>4, <1>5, <1>6, <2>1, <2>2, <2>3
  <2>5. Definer(w, c) = d
    BY <1>1, <1>3, <2>4, DefinerOnly
  <2>6. Effective(w, c) = w.fields[d] /\ Effective(runtime, c) = runtime.fields[d]
    BY <2>2, <2>5 DEF Effective, d
  <2>7. d \in Kept(from) /\ from.fields[d] # None
        /\ from.fields[d].required = runtime.fields[d].required
        /\ from.fields[d].limit = runtime.fields[d].limit
    BY <2>2 DEF Embeds, Kept
  <2>8. w.fields[d] = [required |-> to.fields[d].required, limit |-> to.fields[d].limit,
                       redefines |-> runtime.fields[d].redefines]
    BY <2>2, <2>7, <1>0 DEF UpgradeMade
  <2>9. /\ runtime.fields[d].required \/ ~to.fields[d].required
        /\ runtime.fields[d].limit <= to.fields[d].limit /\ to.fields[d] # None
    BY <2>2, <2>7, NotBlocked
  <2>10. runtime.fields[d].limit \in Nat /\ to.fields[d].limit \in Nat /\ value \in Nat
    <3>1. runtime.fields[d] \in FieldRow /\ to.fields[d] \in FieldRow
      BY <2>2, <2>9 DEF Metamodel
    <3> QED
      BY <3>1, TemplatesAssumption DEF FieldRow, Limits, NoLimit, Values, NoValue
  <2>11. (runtime.fields[d].required => value # NoValue) /\ value <= runtime.fields[d].limit
    BY <2>2, <2>6 DEF Valid
  <2>12. value <= to.fields[d].limit
    BY <2>9, <2>10, <2>11
  <2>13. w.fields[d].required = to.fields[d].required /\ w.fields[d].limit = to.fields[d].limit
    BY <2>8
  <2>14. w.fields[d] # None
    BY <1>5, <2>2
  <2> QED
    BY <2>6, <2>9, <2>11, <2>12, <2>13, <2>14 DEF Valid
<1>9. CASE D = {}
  <2>1. value = NoValue
    BY <1>9, DefinerIs DEF Valid, Effective
  <2>2. CASE E = {}
    BY <1>1, <2>1, <2>2, DefinerIs DEF Valid, Effective
  <2>3. CASE E # {}
    <3>1. e \in E
      BY <1>1, <2>3, DefinerIs
    <3>2. e \in L /\ e \in Types /\ e # None /\ e \in NewFields(from, to) /\ w.fields[e] # None
      BY <1>4, <1>5, <1>6, <1>9, <3>1, TemplatesAssumption
    <3>3. Effective(w, c) = w.fields[e]
      BY <3>2 DEF Effective
    <3> HIDE DEF e
    <3>4. w.fields[e] = to.fields[e]
      BY <3>2, <1>0 DEF UpgradeMade
    <3>5. from.types[e] # None
      BY <1>4, <3>2 DEF Embeds
    <3>6. ~to.fields[e].required
      BY <3>2, <3>5, NotBlocked
    <3>7. to.fields[e] \in FieldRow
      BY <3>2, <3>4 DEF Metamodel
    <3>8. NoValue <= to.fields[e].limit
      BY <3>7, TemplatesAssumption DEF FieldRow, Limits, NoLimit, NoValue
    <3> QED
      BY <2>1, <3>2, <3>3, <3>4, <3>6, <3>8 DEF Valid
  <2> QED
    BY <2>2, <2>3
<1> QED
  BY <1>8, <1>9

-----------------------------------------------------------------------------
(* The inductive invariant.                                                *)

Released(v) == status[v] \in {"published", "withdrawn"}

(* No type of a version or of the workspace is above itself.               *)
NoCycles == Acyclic(runtime) /\ \A v \in Versions : Acyclic(template[v])

(* As long as no withdrawn version was edited, what is released stands.    *)
Settled == edited = 0 => \A v \in Versions : Released(v) => AllPublished(template[v])

(* The workspace is at a released version, which embeds it.                *)
AtVersion == at # None => Released(at) /\ Embeds(runtime, template[at])

(* Before the workspace is made it has nothing.                            *)
Unmade == at = None => runtime = Empty /\ object = None

(* An object is of a type of the workspace.                                *)
ObjectTyped == object # None => runtime.types[object.type] # None

TInv ==
  /\ TypeOK /\ NoCycles /\ Settled /\ AtVersion /\ Unmade /\ ObjectTyped
  /\ ObjectsStayValid /\ RuntimeIsVersion

(* Where the workspace does not change, its objects stay as valid.         *)
LEMMA ObjectsUntouched ==
  ASSUME ObjectsStayValid, ObjectTyped, UNCHANGED << runtime, object, narrowed >>
  PROVE  ObjectsStayValid' /\ ObjectTyped'
<1>1. ObjectTyped'
  BY DEF ObjectTyped
<1>2. ObjectsStayValid'
  BY DEF ObjectsStayValid, Valid, Effective, Definer
<1> QED
  BY <1>1, <1>2

(* At the beginning there is nothing.                                      *)
LEMMA EmptyRows ==
  /\ Empty \in Metamodel /\ Linked(Empty) /\ Acyclic(Empty) /\ AllPublished(Empty)
  /\ \A c \in Types : Empty.types[c] = None /\ Empty.fields[c] = None
<1>1. \A c \in Types : Empty.types[c] = None /\ Empty.fields[c] = None
  BY DEF Empty
<1>2. Empty \in Metamodel
  BY DEF Empty, Metamodel
<1> QED
  BY <1>1, <1>2 DEF Linked, Acyclic, ParentOf, AllPublished

LEMMA TInit == Init => TInv
<1> SUFFICES ASSUME Init PROVE TInv
  OBVIOUS
<1>1. TypeOK
  BY EmptyRows, TemplatesAssumption DEF Init, TypeOK, Statuses
<1>2. NoCycles /\ Settled
  BY EmptyRows DEF Init, NoCycles, Settled, Released
<1>3. AtVersion /\ Unmade /\ ObjectTyped /\ ObjectsStayValid /\ RuntimeIsVersion
  BY DEF Init, AtVersion, Unmade, ObjectTyped, ObjectsStayValid, RuntimeIsVersion
<1> QED
  BY <1>1, <1>2, <1>3 DEF TInv

-----------------------------------------------------------------------------
(* The steps: drafting.                                                    *)

(* What stays in the metamodel of a version: its types, and its fields.    *)
Grows(m, w) ==
  \A c \in Types : /\ m.types[c] # None => w.types[c] # None
                   /\ m.fields[c] # None => w.fields[c] = m.fields[c]

(* A definition is added to a version that is not published.               *)
LEMMA DraftStep ==
  ASSUME TInv, NEW v \in Versions, Mutable(v), NEW w \in Metamodel,
         Linked(w), Acyclic(w), Grows(template[v], w),
         template' = [template EXCEPT ![v] = w], CountEdit(v),
         UNCHANGED << status, runtime, at, object, narrowed >>
  PROVE  TInv'
<1> USE DEF TInv
<1>1. /\ template \in [Versions -> Metamodel] /\ edited \in 0..MaxEdits
      /\ template'[v] = w /\ \A u \in Versions : u # v => template'[u] = template[u]
  BY DEF TypeOK
<1>2. edited' \in 0..MaxEdits /\ (status[v] = "draft" \/ edited' # 0) /\ (edited' = 0 => edited = 0)
  BY <1>1, TemplatesAssumption DEF CountEdit
<1>3. TypeOK'
  BY <1>1, <1>2 DEF TypeOK
<1>4. NoCycles'
  BY <1>1 DEF NoCycles
<1>5. Settled'
  <2> SUFFICES ASSUME edited' = 0, NEW u \in Versions, status[u] \in {"published", "withdrawn"}
               PROVE  AllPublished(template'[u])
    BY DEF Settled, Released
  <2>1. u # v
    BY <1>2
  <2> QED
    BY <1>1, <1>2, <2>1 DEF Settled, Released
<1>6. AtVersion'
  <2> SUFFICES ASSUME at # None PROVE Released(at) /\ Embeds(runtime, template'[at])
    BY DEF AtVersion, Released
  <2>1. at \in Versions /\ Released(at) /\ Embeds(runtime, template[at])
    BY DEF TypeOK, AtVersion
  <2>2. CASE at # v
    BY <1>1, <2>1, <2>2
  <2>3. CASE at = v
    BY <1>1, <2>1, <2>3 DEF Embeds, Grows
  <2> QED
    BY <2>1, <2>2, <2>3
<1>7. ObjectsStayValid' /\ ObjectTyped'
  BY ObjectsUntouched
<1>8. RuntimeIsVersion'
  <2> SUFFICES ASSUME at # None, edited' = 0 PROVE runtime = template'[at]
    BY DEF RuntimeIsVersion
  <2>1. at \in Versions /\ at # v
    BY <1>2 DEF TypeOK, AtVersion, Released
  <2> QED
    BY <1>1, <1>2, <2>1 DEF RuntimeIsVersion
<1>9. Unmade'
  BY DEF Unmade
<1> QED
  BY <1>3, <1>4, <1>5, <1>6, <1>7, <1>8, <1>9

LEMMA DefineObjectTypeStep ==
  ASSUME TInv, NEW v \in Versions, NEW c \in Types, NEW p \in Types \cup {None},
         DefineObjectType(v, c, p)
  PROVE  TInv'
<1>0. PICK row \in TypeRow : row = [parent |-> p, published |-> FALSE]
  BY DEF TypeRow
<1> DEFINE m == template[v]
           w == [types |-> [m.types EXCEPT ![c] = row], fields |-> m.fields]
<1>1. m \in Metamodel /\ Linked(m) /\ Acyclic(m) /\ template \in [Versions -> Metamodel]
  BY DEF TInv, TypeOK, NoCycles
<1>2. row # None /\ row.parent = p
  BY <1>0, NoneIsNoRow
<1>3. template' = [template EXCEPT ![v] = w]
  <2>1. template' = [template EXCEPT ![v].types[c] = row]
    BY <1>0 DEF DefineObjectType
  <2>2. [template EXCEPT ![v].types[c] = row][v] = w
    BY <1>1 DEF Metamodel
  <2>3. [template EXCEPT ![v].types[c] = row]
        = [template EXCEPT ![v] = [template EXCEPT ![v].types[c] = row][v]]
    BY <1>1 DEF Metamodel
  <2> QED
    BY <2>1, <2>2, <2>3
<1>4. m.types \in [Types -> TypeRow \cup {None}] /\ m.fields \in [Types -> FieldRow \cup {None}]
  BY <1>1 DEF Metamodel
<1>5. /\ w \in Metamodel /\ w.fields = m.fields /\ w.types[c] = row
      /\ \A a \in Types : a # c => w.types[a] = m.types[a]
  BY <1>2, <1>4 DEF Metamodel
<1>6. (p # None => m.types[p] # None /\ c \notin Lineage(m, p)) /\ Mutable(v) /\ CountEdit(v)
      /\ UNCHANGED << status, runtime, at, object, narrowed >>
  BY DEF DefineObjectType, ParentAllowed
<1> HIDE DEF w, m
<1>7. Linked(w)
  <2> SUFFICES ASSUME NEW a \in Types
               PROVE  /\ w.types[a] # None /\ w.types[a].parent # None
                         => w.types[w.types[a].parent] # None
                      /\ w.fields[a] # None => w.types[a] # None
    BY DEF Linked
  <2>1. \A x \in Types : m.types[x] # None => w.types[x] # None
    BY <1>2, <1>5
  <2>2. ASSUME w.types[a] # None, w.types[a].parent # None PROVE w.types[w.types[a].parent] # None
    <3>1. w.types[a].parent \in Types
      BY <1>5, <2>2 DEF Metamodel, TypeRow
    <3>2. CASE a = c
      BY <1>2, <1>5, <1>6, <2>1, <2>2, <3>1, <3>2
    <3>3. CASE a # c
      BY <1>1, <1>5, <2>1, <2>2, <3>1, <3>3 DEF Linked
    <3> QED
      BY <3>2, <3>3
  <2> QED
    BY <1>1, <1>5, <2>1, <2>2 DEF Linked
<1>8. Acyclic(w)
  <2>1. ParentOf(w, c) = p /\ \A a \in Types : a # c => ParentOf(w, a) = ParentOf(m, a)
    BY <1>2, <1>5 DEF ParentOf
  <2> QED
    BY <1>1, <1>5, <1>6, <2>1, NewParent
<1>9. Grows(m, w)
  BY <1>2, <1>5 DEF Grows
<1> QED
  BY <1>3, <1>5, <1>6, <1>7, <1>8, <1>9, DraftStep DEF m

LEMMA DefineFieldDefStep ==
  ASSUME TInv, NEW v \in Versions, NEW c \in Types, NEW d \in Definitions,
         DefineFieldDef(v, c, d)
  PROVE  TInv'
<1> DEFINE m == template[v]
           f == [required |-> d.required, limit |-> d.limit, redefines |-> Inherited(m, c) # None]
           w == [types |-> m.types, fields |-> [m.fields EXCEPT ![c] = f]]
<1>1. m \in Metamodel /\ Linked(m) /\ Acyclic(m) /\ template \in [Versions -> Metamodel]
  BY DEF TInv, TypeOK, NoCycles
<1>2. f \in FieldRow
  BY TemplatesAssumption DEF FieldRow, Limits, NoLimit
<1>3. template' = [template EXCEPT ![v] = w]
  <2>1. template' = [template EXCEPT ![v].fields[c] = f]
    BY DEF DefineFieldDef
  <2> HIDE DEF f
  <2>2. [template EXCEPT ![v].fields[c] = f][v] = w
    BY <1>1 DEF Metamodel
  <2>3. [template EXCEPT ![v].fields[c] = f]
        = [template EXCEPT ![v] = [template EXCEPT ![v].fields[c] = f][v]]
    BY <1>1 DEF Metamodel
  <2> QED
    BY <2>1, <2>2, <2>3
<1>4. m.types[c] # None /\ m.fields[c] = None /\ Mutable(v) /\ CountEdit(v)
      /\ UNCHANGED << status, runtime, at, object, narrowed >>
  BY DEF DefineFieldDef
<1> HIDE DEF f
<1>5. m.types \in [Types -> TypeRow \cup {None}] /\ m.fields \in [Types -> FieldRow \cup {None}]
  BY <1>1 DEF Metamodel
<1>6. /\ w \in Metamodel /\ w.types = m.types /\ w.fields[c] = f
      /\ \A a \in Types : a # c => w.fields[a] = m.fields[a]
  BY <1>2, <1>5 DEF Metamodel
<1> HIDE DEF w, m
<1>7. Linked(w)
  BY <1>1, <1>4, <1>6 DEF Linked
<1>8. Acyclic(w)
  BY <1>1, <1>6, SameParents DEF ParentOf
<1>9. Grows(m, w)
  BY <1>4, <1>6 DEF Grows
<1> QED
  BY <1>3, <1>4, <1>6, <1>7, <1>8, <1>9, DraftStep DEF m

-----------------------------------------------------------------------------
(* The steps: the life of a version.                                       *)

(* A change of status that releases no version and takes none back.        *)
LEMMA StatusStep ==
  ASSUME TInv, NEW v \in Versions, NEW to \in Statuses,
         to \in {"published", "withdrawn"} <=> Released(v),
         status' = [status EXCEPT ![v] = to],
         UNCHANGED << template, runtime, at, object, edited, narrowed >>
  PROVE  TInv'
<1> USE DEF TInv
<1>1. status \in [Versions -> Statuses] /\ status' \in [Versions -> Statuses]
  BY DEF TypeOK
<1>2. \A u \in Versions : Released(u)' <=> Released(u)
  BY <1>1 DEF Released
<1>3. TypeOK'
  BY <1>1 DEF TypeOK
<1>4. NoCycles'
  BY DEF NoCycles
<1>5. Settled'
  BY <1>2 DEF Settled
<1>6. AtVersion'
  BY <1>2 DEF AtVersion, TypeOK
<1>7. ObjectsStayValid' /\ ObjectTyped'
  BY ObjectsUntouched
<1>8. RuntimeIsVersion'
  BY DEF RuntimeIsVersion
<1>9. Unmade'
  BY DEF Unmade
<1> QED
  BY <1>3, <1>4, <1>5, <1>6, <1>7, <1>8, <1>9

LEMMA PublishStep ==
  ASSUME TInv, NEW v \in Versions, PublishTemplateVersion(v)
  PROVE  TInv'
<1> USE DEF TInv
<1> DEFINE w == MarkPublished(template[v])
<1>1. /\ status' = [status EXCEPT ![v] = "published"]
      /\ template' = [template EXCEPT ![v] = w]
      /\ UNCHANGED << runtime, at, object, edited, narrowed >>
  BY DEF PublishTemplateVersion
<1>2. status \in [Versions -> Statuses] /\ template \in [Versions -> Metamodel]
      /\ template[v] \in Metamodel /\ Linked(template[v]) /\ Acyclic(template[v])
  BY DEF TypeOK, NoCycles
<1>3. /\ w \in Metamodel /\ Linked(w) /\ AllPublished(w) /\ w.fields = template[v].fields
      /\ \A c \in Types : /\ w.types[c] = None <=> template[v].types[c] = None
                          /\ ParentOf(w, c) = ParentOf(template[v], c)
      /\ AllPublished(template[v]) => w = template[v]
  BY <1>2, MarkedRows
<1>4. Acyclic(w)
  BY <1>2, <1>3, SameParents
<1> HIDE DEF w
<1>5. /\ template'[v] = w /\ status'[v] = "published"
      /\ \A u \in Versions : u # v => template'[u] = template[u] /\ status'[u] = status[u]
  BY <1>1, <1>2
<1>6. TypeOK'
  <2>1. status' \in [Versions -> Statuses] /\ template' \in [Versions -> Metamodel]
    BY <1>1, <1>2, <1>3 DEF Statuses
  <2>2. \A u \in Versions : Linked(template'[u])
    BY <1>3, <1>5 DEF TypeOK
  <2> QED
    BY <1>1, <2>1, <2>2 DEF TypeOK
<1>7. NoCycles'
  BY <1>1, <1>4, <1>5 DEF NoCycles
<1>8. Settled'
  BY <1>1, <1>3, <1>5 DEF Settled, Released
<1>9. AtVersion'
  <2> SUFFICES ASSUME at # None
               PROVE  status'[at] \in {"published", "withdrawn"} /\ Embeds(runtime, template'[at])
    BY <1>1 DEF AtVersion, Released
  <2>1. at \in Versions /\ Released(at) /\ Embeds(runtime, template[at])
    BY DEF TypeOK, AtVersion
  <2>2. CASE at # v
    BY <1>5, <2>1, <2>2 DEF Released
  <2>3. CASE at = v
    BY <1>3, <1>5, <2>1, <2>3 DEF Embeds
  <2> QED
    BY <2>2, <2>3
<1>10. ObjectsStayValid' /\ ObjectTyped'
  BY <1>1, ObjectsUntouched
<1>11. RuntimeIsVersion'
  <2> SUFFICES ASSUME at # None, edited = 0 PROVE runtime = template'[at]
    BY <1>1 DEF RuntimeIsVersion
  <2>1. at \in Versions /\ Released(at) /\ runtime = template[at] /\ AllPublished(template[at])
    BY DEF TypeOK, AtVersion, RuntimeIsVersion, Settled
  <2>2. CASE at # v
    BY <1>5, <2>1, <2>2
  <2>3. CASE at = v
    BY <1>3, <1>5, <2>1, <2>3
  <2> QED
    BY <2>2, <2>3
<1>12. Unmade'
  BY <1>1 DEF Unmade
<1> QED
  BY <1>6, <1>7, <1>8, <1>9, <1>10, <1>11, <1>12

LEMMA CreateVersionStep ==
  ASSUME TInv, NEW v \in Versions, CreateTemplateVersion(v)
  PROVE  TInv'
<1>1. "draft" \in Statuses /\ ~("draft" \in {"published", "withdrawn"}) /\ ~Released(v)
  BY DEF Statuses, Released, CreateTemplateVersion
<1> QED
  BY <1>1, StatusStep DEF CreateTemplateVersion

LEMMA SetStatusStep ==
  ASSUME TInv, NEW v \in Versions, WithdrawTemplateVersion(v) \/ RestoreTemplateVersion(v)
  PROVE  TInv'
<1>1. /\ Released(v) /\ UNCHANGED << template, runtime, at, object, edited, narrowed >>
      /\ \E to \in {"published", "withdrawn"} : status' = [status EXCEPT ![v] = to]
  BY DEF Released, WithdrawTemplateVersion, RestoreTemplateVersion, SetStatus
<1>2. PICK to \in {"published", "withdrawn"} : status' = [status EXCEPT ![v] = to]
  BY <1>1
<1>3. to \in Statuses
  BY DEF Statuses
<1> QED
  BY <1>1, <1>2, <1>3, StatusStep

-----------------------------------------------------------------------------
(* The steps: the workspace and its objects.                               *)

(* A workspace is made from a published version; no object is in it yet.   *)
LEMMA InstantiateStep ==
  ASSUME TInv, NEW v \in Versions, InstantiateWorkspace(v)
  PROVE  TInv'
<1> USE DEF TInv
<1> DEFINE w == MarkPublished(template[v])
<1>1. /\ at = None /\ status[v] = "published" /\ runtime' = w /\ at' = v
      /\ UNCHANGED << status, template, object, edited, narrowed >>
  BY DEF InstantiateWorkspace
<1>2. template[v] \in Metamodel /\ Linked(template[v]) /\ Acyclic(template[v])
      /\ v # None /\ object = None
  BY <1>1, TemplatesAssumption DEF TypeOK, NoCycles, Unmade
<1>3. /\ w \in Metamodel /\ Linked(w) /\ w.fields = template[v].fields
      /\ \A c \in Types : /\ w.types[c] = None <=> template[v].types[c] = None
                          /\ ParentOf(w, c) = ParentOf(template[v], c)
      /\ AllPublished(template[v]) => w = template[v]
  BY <1>2, MarkedRows
<1>4. Acyclic(w)
  BY <1>2, <1>3, SameParents
<1> HIDE DEF w
<1>5. TypeOK'
  BY <1>1, <1>3 DEF TypeOK
<1>6. NoCycles' /\ Settled'
  BY <1>1, <1>4 DEF NoCycles, Settled, Released
<1>7. AtVersion'
  <2>1. Embeds(w, template[v])
    BY <1>3 DEF Embeds
  <2> QED
    BY <1>1, <2>1 DEF AtVersion, Released
<1>8. RuntimeIsVersion'
  BY <1>1, <1>3 DEF RuntimeIsVersion, Settled, Released
<1>9. Unmade' /\ ObjectTyped' /\ ObjectsStayValid'
  BY <1>1, <1>2 DEF Unmade, ObjectTyped, ObjectsStayValid
<1> QED
  BY <1>5, <1>6, <1>7, <1>8, <1>9

(* An upgrade.                                                             *)
LEMMA ApplyStep ==
  ASSUME TInv, NEW v \in Versions, ApplyTemplateVersion(v)
  PROVE  TInv'
<1> USE DEF TInv
<1>1. PICK from \in Metamodel, to \in Metamodel :
        /\ from = template[at] /\ to = template[v] /\ at \in Versions
        /\ Linked(to) /\ Acyclic(to) /\ Embeds(runtime, from) /\ at # None
        /\ runtime \in Metamodel /\ Linked(runtime) /\ Acyclic(runtime)
  BY DEF ApplyTemplateVersion, TypeOK, NoCycles, AtVersion
<1>2. PICK w : w = Upgraded(from, to)
  OBVIOUS
<1>3. /\ status[v] = "published" /\ ~Blocked(from, to) /\ InOrder(from, to)
      /\ runtime' = w /\ at' = v
      /\ narrowed' = narrowed \cup {c \in NewFields(from, to) : Inherited(runtime, c) # None}
      /\ UNCHANGED << status, template, object, edited >>
  BY <1>1, <1>2 DEF ApplyTemplateVersion
<1>4. w \in Metamodel /\ Linked(w) /\ UpgradeMade(from, to, w) /\ Embeds(w, to)
  BY <1>1, <1>2, <1>3, UpgradeRows, UpgradeEmbeds
<1>5. Acyclic(w) /\ \A c \in Types : runtime.types[c] # None => Lineage(w, c) = Lineage(runtime, c)
  BY <1>1, <1>4, UpgradeChains
<1>6. TypeOK'
  <2>1. narrowed' \subseteq Types
    BY <1>3 DEF TypeOK, NewFields
  <2> QED
    BY <1>3, <1>4, <2>1 DEF TypeOK
<1>7. NoCycles' /\ Settled'
  BY <1>3, <1>5 DEF NoCycles, Settled, Released
<1>8. AtVersion'
  BY <1>1, <1>3, <1>4 DEF AtVersion, Released
<1>9. RuntimeIsVersion'
  <2> SUFFICES ASSUME edited = 0 PROVE w = to
    BY <1>1, <1>3 DEF RuntimeIsVersion
  <2>1. AllPublished(from) /\ AllPublished(to) /\ runtime = from
    BY <1>1, <1>3 DEF Settled, AtVersion, Released, RuntimeIsVersion
  <2> QED
    BY <1>1, <1>2, <1>3, <2>1, UpgradeIsVersion
<1>10. Unmade'
  BY <1>3, TemplatesAssumption DEF Unmade
<1>11. ObjectTyped'
  BY <1>3, <1>4 DEF ObjectTyped, UpgradeMade, TypeOK, Object
<1>12. ObjectsStayValid'
  <2> SUFFICES ASSUME object # None, Lineage(w, object.type) \cap narrowed' = {}
               PROVE  Valid(w, object.type, object.value)
    BY <1>3 DEF ObjectsStayValid
  <2>1. PICK c \in Types, value \in Values : c = object.type /\ value = object.value
    BY DEF TypeOK, Object
  <2>2. runtime.types[c] # None
    BY <2>1 DEF ObjectTyped
  <2>3. Lineage(w, c) = Lineage(runtime, c) /\ Lineage(runtime, c) \cap narrowed = {}
    BY <1>3, <1>5, <2>1, <2>2
  <2>4. Valid(runtime, c, value)
    BY <2>1, <2>3 DEF ObjectsStayValid
  <2>5. \A a \in Lineage(w, c) : a \in NewFields(from, to) => Inherited(runtime, a) = None
    BY <1>3, <2>1
  <2>6. Valid(w, c, value)
    BY <1>1, <1>2, <1>3, <2>2, <2>4, <2>5, UpgradeValid
  <2> QED
    BY <2>1, <2>6
<1> QED
  BY <1>6, <1>7, <1>8, <1>9, <1>10, <1>11, <1>12

(* The value is checked against the field in force.                        *)
LEMMA DefinerType ==
  ASSUME NEW m \in Metamodel, NEW c \in Types
  PROVE  Definer(m, c) \in Types \cup {None}
BY DefinerIs DEF Definers

LEMMA CreateObjectStep ==
  ASSUME TInv, NEW c \in Types, NEW value \in Values, CreateObject(c, value)
  PROVE  TInv'
<1> USE DEF TInv
<1>1. PICK owner : owner = IF value = NoValue THEN None ELSE Definer(runtime, c)
  OBVIOUS
<1>2. /\ object = None /\ runtime.types[c] # None /\ Valid(runtime, c, value)
      /\ object' = [type |-> c, value |-> value, told |-> value, owner |-> owner]
      /\ UNCHANGED << status, template, runtime, at, edited, narrowed >>
  BY <1>1, Zenon DEF CreateObject
<1>3. owner \in Types \cup {None}
  BY <1>1, DefinerType DEF TypeOK
<1>4. object' \in Object /\ object'.type = c /\ object'.value = value
  BY <1>2, <1>3 DEF Object
<1>5. TypeOK'
  BY <1>2, <1>4 DEF TypeOK
<1>6. NoCycles' /\ Settled' /\ AtVersion' /\ RuntimeIsVersion'
  BY <1>2 DEF NoCycles, Settled, AtVersion, Released, RuntimeIsVersion
<1>7. Unmade'
  <2>1. at # None
    BY <1>2, EmptyRows DEF Unmade
  <2> QED
    BY <1>2, <2>1 DEF Unmade
<1>8. ObjectTyped' /\ ObjectsStayValid'
  BY <1>2, <1>4 DEF ObjectTyped, ObjectsStayValid
<1> QED
  BY <1>5, <1>6, <1>7, <1>8

LEMMA UpdateFieldsStep ==
  ASSUME TInv, NEW value \in Values, UpdateFields(value)
  PROVE  TInv'
<1> USE DEF TInv
<1>1. PICK field : field = Definer(runtime, object.type)
  OBVIOUS
<1>2. /\ object # None /\ field # None /\ Valid(runtime, object.type, value)
      /\ object' = [object EXCEPT !.told = value,
                                  !.value = IF object.owner \in {None, field} THEN value ELSE @,
                                  !.owner = IF @ = None THEN field ELSE @]
      /\ UNCHANGED << status, template, runtime, at, edited, narrowed >>
  BY <1>1 DEF UpdateFields
<1>3. object \in Object /\ runtime \in Metamodel
  BY <1>2 DEF TypeOK
<1>4. field \in Types \cup {None}
  BY <1>1, <1>3, DefinerType DEF Object
<1>5. /\ object' \in Object /\ object'.type = object.type
      /\ object'.value \in {value, object.value}
  <2>1. PICK stored \in Values : /\ stored \in {value, object.value}
                                 /\ stored = IF object.owner \in {None, field}
                                             THEN value ELSE object.value
    BY <1>3 DEF Object
  <2>2. PICK owner \in Types \cup {None} :
          owner = IF object.owner = None THEN field ELSE object.owner
    BY <1>3, <1>4 DEF Object
  <2>3. object' = [object EXCEPT !.told = value, !.value = stored, !.owner = owner]
    BY <1>2, <2>1, <2>2
  <2>4. object' = [type |-> object.type, value |-> stored, owner |-> owner, told |-> value]
    BY <1>3, <2>3 DEF Object
  <2> QED
    BY <1>3, <2>1, <2>2, <2>4 DEF Object
<1>6. TypeOK'
  BY <1>2, <1>5 DEF TypeOK
<1>7. NoCycles' /\ Settled' /\ AtVersion' /\ RuntimeIsVersion'
  BY <1>2 DEF NoCycles, Settled, AtVersion, Released, RuntimeIsVersion
<1>8. Unmade'
  BY <1>2 DEF Unmade
<1>9. ObjectTyped'
  BY <1>2, <1>5 DEF ObjectTyped
<1>10. ObjectsStayValid'
  <2> SUFFICES ASSUME Lineage(runtime, object.type) \cap narrowed = {}
               PROVE  Valid(runtime, object.type, object'.value)
    BY <1>2, <1>5 DEF ObjectsStayValid
  <2>1. Valid(runtime, object.type, object.value)
    BY <1>2 DEF ObjectsStayValid
  <2> QED
    BY <1>2, <1>5, <2>1
<1> QED
  BY <1>6, <1>7, <1>8, <1>9, <1>10

-----------------------------------------------------------------------------
(* The theorems.                                                           *)

(* Each step of a version, the workspace or an object keeps TInv, whatever *)
(* was drafted, published, withdrawn, edited or upgraded before.           *)
LEMMA TStep == TInv /\ [Next]_vars => TInv'
<1> SUFFICES ASSUME TInv, [Next]_vars PROVE TInv'
  OBVIOUS
<1>1. ASSUME NEW v \in Versions, CreateTemplateVersion(v) PROVE TInv'
  BY <1>1, CreateVersionStep
<1>2. ASSUME NEW v \in Versions, NEW c \in Types, NEW p \in Types \cup {None},
             DefineObjectType(v, c, p)
      PROVE  TInv'
  BY <1>2, DefineObjectTypeStep
<1>3. ASSUME NEW v \in Versions, NEW c \in Types, NEW d \in Definitions, DefineFieldDef(v, c, d)
      PROVE  TInv'
  BY <1>3, DefineFieldDefStep
<1>4. ASSUME NEW v \in Versions, PublishTemplateVersion(v) PROVE TInv'
  BY <1>4, PublishStep
<1>5. ASSUME NEW v \in Versions, WithdrawTemplateVersion(v) \/ RestoreTemplateVersion(v)
      PROVE  TInv'
  BY <1>5, SetStatusStep
<1>6. ASSUME NEW v \in Versions, InstantiateWorkspace(v) PROVE TInv'
  BY <1>6, InstantiateStep
<1>7. ASSUME NEW v \in Versions, ApplyTemplateVersion(v) PROVE TInv'
  BY <1>7, ApplyStep
<1>8. ASSUME NEW c \in Types, NEW value \in Values, CreateObject(c, value) PROVE TInv'
  BY <1>8, CreateObjectStep
<1>9. ASSUME NEW value \in Values, UpdateFields(value) PROVE TInv'
  BY <1>9, UpdateFieldsStep
<1>10. CASE UNCHANGED vars
  <2>1. ObjectsStayValid' /\ ObjectTyped'
    BY <1>10, ObjectsUntouched DEF TInv, vars
  <2>2. /\ TypeOK' /\ NoCycles' /\ Settled' /\ AtVersion' /\ Unmade' /\ RuntimeIsVersion'
    BY <1>10 DEF TInv, vars, TypeOK, NoCycles, Settled, AtVersion, Released, Unmade,
                 RuntimeIsVersion
  <2> QED
    BY <2>1, <2>2 DEF TInv
<1> QED
  BY <1>1, <1>2, <1>3, <1>4, <1>5, <1>6, <1>7, <1>8, <1>9, <1>10, Zenon DEF Next

THEOREM TemplatesInvariance == Spec => []TInv
<1> QED
  BY TInit, TStep, PTL DEF Spec

(* Rows are of their types and no reference leads nowhere, in any version  *)
(* and in the workspace (copyObjectTypes, ensureRuntimeObjectType).        *)
THEOREM TemplatesTypeOK == Spec => []TypeOK
<1>1. TInv => TypeOK
  BY DEF TInv
<1> QED
  BY <1>1, TemplatesInvariance, PTL

(* No type comes to be above itself, in any version and in the workspace   *)
(* (DefineObjectTypeHandler.validate, ensureRuntimeObjectType).            *)
THEOREM TypesAreTrees == Spec => []NoCycles
<1>1. TInv => NoCycles
  BY DEF TInv
<1> QED
  BY <1>1, TemplatesInvariance, PTL

(* Objects satisfy the constraints in force after any upgrades, except     *)
(* where one has put a field over one they inherit                         *)
(* (planTemplateVersionApply, resolveEffectiveFields).                     *)
THEOREM ObjectsValid == Spec => []ObjectsStayValid
<1>1. TInv => ObjectsStayValid
  BY DEF TInv
<1> QED
  BY <1>1, TemplatesInvariance, PTL

(* A workspace led to a version through others is what one made from it    *)
(* would be, as long as no withdrawn version was edited                    *)
(* (instantiateTemplateVersion, applyTemplateVersion).                     *)
THEOREM RuntimeMatches == Spec => []RuntimeIsVersion
<1>1. TInv => RuntimeIsVersion
  BY DEF TInv
<1> QED
  BY <1>1, TemplatesInvariance, PTL

=============================================================================
