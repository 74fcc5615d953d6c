------------------------ MODULE ModelRegistryProofs ------------------------
(***************************************************************************)
(* ModelRegistry, for every set of paths and entries.                      *)
(*                                                                         *)
(* AllOrNothing and RefusesForCause are not inductive: what a server that  *)
(* serves has read was read while it was loading.  Reading is what holds   *)
(* in between: the registry is what has been read, and nothing else.       *)
(***************************************************************************)
EXTENDS ModelRegistry, TLAPS

(* What the loop of load_model_registry keeps to from file to file.        *)
Reading ==
    phase = "loading" =>
        /\ Todo # {}
        /\ \A f \in found \ Todo :
              /\ read[f] \in Entries /\ Valid(read[f])
              /\ registry[Identity(read[f])] = read[f]
              /\ \A g \in found \ Todo : ~Twins(f, g)
        /\ \A e \in Registered : \E f \in found : e = read[f]

(* Every entry is registered under its own identity.                       *)
Keyed == \A i \in Identities : registry[i] # None => Identity(registry[i]) = i

IInv == TypeOK /\ Keyed /\ Reading /\ AllOrNothing /\ RefusesForCause

(* Every entry has an identity the registry knows.                         *)
LEMMA IdentityType == \A e \in Entries : Identity(e) \in Identities
BY DEF Identities

(* No entry of an empty registry.                                          *)
LEMMA EmptyType ==
    /\ Empty \in [Identities -> Entries \cup {None}]
    /\ \A i \in Identities : Empty[i] = None
BY DEF Empty

(* Start, LoadFile, ... keep the types.                                    *)
LEMMA TypeInductive == TypeOK /\ [Next]_vars => TypeOK'
<1> SUFFICES ASSUME TypeOK, [Next]_vars PROVE TypeOK'
    OBVIOUS
<1> USE DEF TypeOK
<1>1. CASE Start
    BY <1>1, EmptyType DEF Start
<1>2. ASSUME NEW f \in Files, LoadFile(f) PROVE TypeOK'
    <2>1. disk[f] \in Entries /\ Identity(disk[f]) \in Identities
        BY <1>2, IdentityType DEF LoadFile, Accepts
    <2> QED BY <1>2, <2>1 DEF LoadFile
<1>3. ASSUME NEW f \in Files, RefuseFile(f) PROVE TypeOK'
    BY <1>3, EmptyType DEF RefuseFile
<1>4. CASE Stop
    BY <1>4, EmptyType DEF Stop
<1>5. ASSUME NEW f \in Files, NEW e \in Entries \cup {None}, Edit(f, e)
      PROVE TypeOK'
    BY <1>5 DEF Edit
<1>6. CASE UNCHANGED vars
    BY <1>6 DEF vars
<1> QED BY <1>1, <1>2, <1>3, <1>4, <1>5, <1>6 DEF Next

(* A file that is read fits in with those read before it.                  *)
LEMMA LoadExtends ==
    ASSUME IInv, NEW f \in Files, LoadFile(f)
    PROVE  /\ \A g \in (found \ Todo) \cup {f} :
                 /\ read'[g] \in Entries /\ Valid(read'[g])
                 /\ registry'[Identity(read'[g])] = read'[g]
                 /\ \A h \in (found \ Todo) \cup {f} : ~Twins(g, h)'
           /\ \A e \in Registered' : \E g \in found : e = read'[g]
<1> DEFINE Done == found \ Todo
<1>1. /\ f \in found /\ f \notin Done
      /\ disk[f] \in Entries /\ Valid(disk[f])
      /\ Identity(disk[f]) \in Identities
      /\ registry[Identity(disk[f])] = None
      /\ read' = [read EXCEPT ![f] = disk[f]]
      /\ registry' = [registry EXCEPT ![Identity(disk[f])] = disk[f]]
      /\ Done \subseteq Files
    BY IdentityType DEF IInv, TypeOK, LoadFile, Accepts, Todo
<1>2. \A g \in Done :
         /\ read[g] \in Entries /\ Valid(read[g])
         /\ registry[Identity(read[g])] = read[g]
         /\ \A h \in Done : ~Twins(g, h)
    BY DEF IInv, Reading, LoadFile
<1>3. \A g \in Done : read'[g] = read[g]
    BY <1>1 DEF IInv, TypeOK
<1>4. read'[f] = disk[f]
    BY <1>1 DEF IInv, TypeOK
<1>5. registry'[Identity(disk[f])] = disk[f]
    BY <1>1 DEF IInv, TypeOK
<1>6. \A g \in Done : Identity(read[g]) # Identity(disk[f])
    BY <1>1, <1>2, MarkerAssumption
<1>7. \A g \in Done : registry'[Identity(read[g])] = read[g]
    BY <1>1, <1>2, <1>6, IdentityType DEF IInv, TypeOK
<1>8. \A g, h \in Done \cup {f} : ~Twins(g, h)'
    BY <1>2, <1>3, <1>4, <1>6 DEF Twins
<1>9. \A e \in Registered' : e \in Registered \/ e = disk[f]
    BY <1>1 DEF Registered, IInv, TypeOK
<1>10. ASSUME NEW e \in Registered PROVE \E g \in found : e = read'[g]
    <2>1. PICK g \in found : e = read[g]
        BY DEF IInv, Reading, LoadFile
    <2>2. e \in Entries /\ e # Unread
        BY MarkerAssumption DEF Registered, IInv, TypeOK
    <2>3. g # f
        BY <2>1, <2>2 DEF LoadFile, Todo
    <2> QED BY <1>1, <2>1, <2>3 DEF IInv, TypeOK
<1> QED BY <1>1, <1>2, <1>3, <1>4, <1>5, <1>7, <1>8, <1>9, <1>10

(* The inductive invariant.                                                *)
LEMMA Inductive == Spec => []IInv
<1>1. ASSUME Init PROVE IInv
    BY <1>1, EmptyType DEF Init, IInv, TypeOK, Keyed, Reading, AllOrNothing, RefusesForCause
<1>2. ASSUME IInv, [Next]_vars PROVE IInv'
    <2>0. TypeOK'
        BY <1>2, TypeInductive DEF IInv
    <2>9. Keyed'
        <3>1. CASE UNCHANGED registry
            BY <1>2, <3>1 DEF IInv, Keyed
        <3>2. CASE registry' = Empty
            BY <3>2, EmptyType DEF Keyed
        <3>3. ASSUME NEW f \in Files, LoadFile(f) PROVE Keyed'
            BY <1>2, <3>3 DEF LoadFile, IInv, TypeOK, Keyed
        <3> QED BY <1>2, <3>1, <3>2, <3>3
                DEF Next, Start, RefuseFile, Stop, Edit, vars
    <2>1. CASE Start
        <3>1. found' \subseteq Files /\ read' = [f \in Files |-> Unread]
            BY <2>1 DEF Start
        <3>2. Registered' = {}
            BY <2>1, EmptyType DEF Start, Registered
        <3>3. Todo' = found'
            BY <3>1 DEF Todo
        <3> QED BY <2>0, <2>9, <2>1, <3>2, <3>3
                DEF Start, IInv, Reading, AllOrNothing, RefusesForCause
    <2>2. ASSUME NEW f \in Files, LoadFile(f) PROVE IInv'
        <3>1. Todo' = Todo \ {f} /\ f \in Todo /\ found' = found
            <4>1. disk[f] \in Entries /\ disk[f] # Unread
                BY <1>2, <2>2, MarkerAssumption DEF IInv, TypeOK, LoadFile, Accepts
            <4> QED BY <1>2, <2>2, <4>1 DEF IInv, TypeOK, LoadFile, Todo
        <3>2. Todo \subseteq found /\ found' \ Todo' = (found \ Todo) \cup {f}
            BY <3>1 DEF Todo
        <3>3. Reading'
            BY <1>2, <2>2, <3>1, <3>2, LoadExtends DEF Reading, LoadFile
        <3>4. AllOrNothing'
            <4> SUFFICES ASSUME Todo = {f}, phase' = "serving" PROVE AllOrNothing'
                BY <2>2 DEF AllOrNothing, LoadFile
            <4>1. found' = (found \ Todo) \cup {f}
                BY <3>1, <3>2
            <4> QED BY <1>2, <2>2, <3>1, <4>1, LoadExtends DEF AllOrNothing
        <3>5. RefusesForCause'
            BY <2>2 DEF LoadFile, RefusesForCause
        <3> QED BY <2>0, <2>9, <3>3, <3>4, <3>5 DEF IInv
    <2>3. ASSUME NEW f \in Files, RefuseFile(f) PROVE IInv'
        <3>1. Reading' /\ AllOrNothing'
            BY <2>3 DEF RefuseFile, Reading, AllOrNothing
        <3>2. read'[f] = disk[f] /\ f \in found' /\ found' = found /\ f \in Todo
            BY <1>2, <2>3 DEF RefuseFile, IInv, TypeOK, Todo
        <3>3. ASSUME disk[f] = None \/ (disk[f] \in Entries /\ ~Valid(disk[f]))
              PROVE  RefusesForCause'
            BY <3>2, <3>3 DEF RefusesForCause
        <3>4. ASSUME disk[f] \in Entries, registry[Identity(disk[f])] # None
              PROVE  RefusesForCause'
            <4>1. registry[Identity(disk[f])] \in Registered
                BY <3>4, IdentityType DEF Registered
            <4>2. PICK g \in found : registry[Identity(disk[f])] = read[g]
                BY <1>2, <2>3, <4>1 DEF IInv, Reading, RefuseFile
            <4>3. read[g] \in Entries /\ read[g] # Unread
                BY <1>2, <3>4, <4>2, IdentityType, MarkerAssumption DEF IInv, TypeOK
            <4>4. g \in found \ Todo /\ g # f
                BY <3>2, <4>3 DEF Todo
            <4>6. read'[g] = read[g]
                BY <1>2, <2>3, <4>4 DEF RefuseFile, IInv, TypeOK
            <4>7. Identity(read[g]) = Identity(disk[f])
                BY <1>2, <3>4, <4>2, IdentityType DEF IInv, Keyed
            <4> QED BY <3>2, <3>4, <4>3, <4>4, <4>6, <4>7 DEF RefusesForCause, Twins
        <3>5. RefusesForCause'
            BY <1>2, <2>3, <3>3, <3>4 DEF RefuseFile, Accepts, IInv, TypeOK
        <3> QED BY <2>0, <2>9, <3>1, <3>5 DEF IInv
    <2>4. CASE Stop
        BY <2>0, <2>9, <2>4 DEF Stop, IInv, Reading, AllOrNothing, RefusesForCause
    <2>5. CASE UNCHANGED <<phase, found, read, registry>>
        BY <1>2, <2>0, <2>9, <2>5
        DEF IInv, Reading, AllOrNothing, RefusesForCause, Registered, Todo, Twins
    <2>6. ASSUME NEW f \in Files, NEW e \in Entries \cup {None}, Edit(f, e)
          PROVE IInv'
        BY <2>5, <2>6 DEF Edit
    <2>7. CASE UNCHANGED vars
        BY <2>5, <2>7 DEF vars
    <2> QED BY <1>2, <2>1, <2>2, <2>3, <2>4, <2>6, <2>7 DEF Next
<1> QED BY <1>1, <1>2, PTL DEF Spec

(* Types of the registry, for every set of paths and entries.              *)
THEOREM TypeCorrect == Spec => []TypeOK
BY Inductive, PTL DEF IInv

(* A registry that is served is exactly the valid files of the listing,    *)
(* whatever is edited meanwhile and in whatever order they are read.       *)
THEOREM RegistryIsAllOrNothing == Spec => []AllOrNothing
BY Inductive, PTL DEF IInv

(* A start only fails for a cause, whatever the order of the listing.      *)
THEOREM RefusalHasCause == Spec => []RefusesForCause
BY Inductive, PTL DEF IInv

(* A served model has more moduli than its polynomial has degree.          *)
THEOREM ChainIsLongEnough == Spec => []LevelsSuffice
<1>1. ASSUME AllOrNothing, TypeOK PROVE LevelsSuffice
    <2> SUFFICES ASSUME phase = "serving", NEW e \in Registered,
                        e.coefficients # NoBlock
                 PROVE  e.chain > Degree(e.coefficients)
        BY DEF LevelsSuffice
    <2>1. e \in Entries /\ Valid(e)
        BY <1>1 DEF AllOrNothing
    <2>2. e.chain \in Nat /\ e.depth \in Int
        BY <2>1, EntryAssumption
    <2>3. e.depth <= e.chain - 1 /\ e.depth >= RequiredDepth(e.coefficients)
        BY <2>1 DEF Valid, Semantic, DepthOk
    <2>4. RequiredDepth(e.coefficients) >= Degree(e.coefficients)
        BY DEF RequiredDepth, Degree
    <2>5. RequiredDepth(e.coefficients) \in Nat /\ Degree(e.coefficients) \in Nat
        BY DEF RequiredDepth, Degree
    <2> QED BY <2>2, <2>3, <2>4, <2>5
<1> QED BY <1>1, Inductive, PTL DEF IInv
-----------------------------------------------------------------------------
(* What AllOrNothing comes to: the registry that is served is a function   *)
(* of what was read, and not of the order it was read in.                  *)
THEOREM OrderDoesNotMatter ==
    Spec => [](phase = "serving" =>
                 registry = [i \in Identities |->
                    IF \E f \in found : Identity(read[f]) = i
                    THEN read[CHOOSE f \in found : Identity(read[f]) = i]
                    ELSE None])
<1>1. ASSUME IInv, phase = "serving"
      PROVE  registry = [i \in Identities |->
                    IF \E f \in found : Identity(read[f]) = i
                    THEN read[CHOOSE f \in found : Identity(read[f]) = i]
                    ELSE None]
    <2>0. AllOrNothing /\ Keyed /\ registry \in [Identities -> Entries \cup {None}]
        BY <1>1 DEF IInv, TypeOK
    <2>1. ASSUME NEW i \in Identities, \E f \in found : Identity(read[f]) = i
          PROVE  registry[i] = read[CHOOSE f \in found : Identity(read[f]) = i]
        <3> DEFINE g == CHOOSE f \in found : Identity(read[f]) = i
        <3>1. g \in found /\ Identity(read[g]) = i
            BY <2>1
        <3> QED BY <3>1, <2>0, <1>1 DEF AllOrNothing
    <2>2. ASSUME NEW i \in Identities, ~\E f \in found : Identity(read[f]) = i
          PROVE  registry[i] = None
        <3> SUFFICES ASSUME registry[i] # None PROVE FALSE
            OBVIOUS
        <3>1. registry[i] \in Registered /\ Identity(registry[i]) = i
            BY <2>0 DEF Registered, Keyed
        <3>2. PICK f \in found : registry[i] = read[f]
            BY <3>1, <2>0, <1>1 DEF AllOrNothing
        <3> QED BY <3>1, <3>2, <2>2
    <2> QED BY <2>0, <2>1, <2>2
<1> QED BY <1>1, Inductive, PTL

(* Every file a start lists is valid, and no two name one model.           *)
GoodDirectory ==
    LET files == {f \in Files : disk[f] # None} IN
    /\ files # {}
    /\ \A f \in files : Valid(disk[f])
    /\ \A f, g \in files : Identity(disk[f]) = Identity(disk[g]) => f = g

(* While nobody edits the directory, what is listed is what is there, and  *)
(* what is read is what was listed.                                        *)
Unedited ==
    edits = 0 /\ phase # "down" =>
        /\ found = {f \in Files : disk[f] # None}
        /\ \A f \in found : read[f] \in {Unread, disk[f]}

LEMMA UneditedInductive == TypeOK /\ Unedited /\ [Next]_vars => Unedited'
<1> SUFFICES ASSUME TypeOK, Unedited, [Next]_vars PROVE Unedited'
    OBVIOUS
<1>1. CASE Start
    BY <1>1 DEF Start, Unedited
<1>2. ASSUME NEW f \in Files, LoadFile(f) \/ RefuseFile(f) PROVE Unedited'
    <2>1. /\ read' = [read EXCEPT ![f] = disk[f]] /\ phase = "loading"
          /\ UNCHANGED <<disk, found, edits>>
        BY <1>2 DEF LoadFile, RefuseFile
    <2>2. \A g \in Files : read'[g] = IF g = f THEN disk[f] ELSE read[g]
        BY <2>1 DEF TypeOK
    <2> QED BY <2>1, <2>2 DEF Unedited, TypeOK
<1>3. CASE Stop
    BY <1>3 DEF Stop, Unedited
<1>4. ASSUME NEW f \in Files, NEW e \in Entries \cup {None}, Edit(f, e)
      PROVE  Unedited'
    <2>1. edits \in Nat /\ edits' = edits + 1
        BY <1>4 DEF Edit, TypeOK
    <2>2. edits' # 0
        BY <2>1
    <2> QED BY <2>2 DEF Unedited
<1>5. CASE UNCHANGED vars
    BY <1>5 DEF vars, Unedited
<1> QED BY <1>1, <1>2, <1>3, <1>4, <1>5 DEF Next

(* The directory alone decides whether the server starts: over a good one  *)
(* no start fails, over any other none serves, whatever the order of the   *)
(* listing.  Edits are what AllOrNothing and RefusesForCause are for.      *)
THEOREM FilesDecide ==
    Spec => [](edits = 0 =>
                 /\ phase = "failed" => ~GoodDirectory
                 /\ phase = "serving" => GoodDirectory)
<1>1. Init => Unedited
    BY DEF Init, Unedited
<1>2. ASSUME IInv, Unedited, edits = 0, phase = "failed" PROVE ~GoodDirectory
    <2>1. /\ found = {f \in Files : disk[f] # None}
          /\ \A f \in found : read[f] \in {Unread, disk[f]}
        BY <1>2 DEF Unedited
    <2>2. CASE found = {}
        BY <2>1, <2>2 DEF GoodDirectory
    <2>3. ASSUME NEW f \in found, read[f] = None PROVE FALSE
        BY <2>1, <2>3, MarkerAssumption
    <2>4. ASSUME NEW f \in found, read[f] \in Entries, ~Valid(read[f])
          PROVE  ~GoodDirectory
        <3>1. read[f] = disk[f]
            BY <2>1, <2>4, MarkerAssumption
        <3> QED BY <2>1, <2>4, <3>1 DEF GoodDirectory
    <2>5. ASSUME NEW f \in found, NEW g \in found, read[f] \in Entries,
                 read[g] \in Entries, Twins(f, g)
          PROVE  ~GoodDirectory
        <3>1. read[f] = disk[f] /\ read[g] = disk[g]
            BY <2>1, <2>5, MarkerAssumption
        <3> QED BY <2>1, <2>5, <3>1 DEF GoodDirectory, Twins
    <2> QED BY <1>2, <2>2, <2>3, <2>4, <2>5 DEF IInv, RefusesForCause
<1>3. ASSUME IInv, Unedited, edits = 0, phase = "serving" PROVE GoodDirectory
    <2>1. /\ found = {f \in Files : disk[f] # None}
          /\ \A f \in found : read[f] \in {Unread, disk[f]}
        BY <1>3 DEF Unedited
    <2>2. /\ found # {}
          /\ \A f \in found : read[f] \in Entries /\ Valid(read[f])
          /\ \A f, g \in found : ~Twins(f, g)
        BY <1>3 DEF IInv, AllOrNothing
    <2>3. \A f \in found : read[f] = disk[f]
        BY <2>1, <2>2, MarkerAssumption
    <2>4. \A f, g \in found : Identity(disk[f]) = Identity(disk[g]) => f = g
        BY <2>2, <2>3 DEF Twins
    <2> QED BY <2>1, <2>2, <2>3, <2>4 DEF GoodDirectory
<1>4. IInv /\ Unedited /\ [Next]_vars => Unedited'
    BY UneditedInductive DEF IInv
<1> QED BY <1>1, <1>2, <1>3, <1>4, Inductive, PTL DEF Spec

(* The limits LimitEnforced is refuted by are those written as a float,    *)
(* and no others: any other limit is at most the degree and 1024, and one  *)
(* sample more is refused.                                                 *)
THEOREM OnlyFloatsAreNoLimit ==
    Spec => [](phase = "serving" => \A e \in Registered :
                 /\ e.batch \in 1 .. 1024 /\ e.batch <= e.degree
                 /\ \A n \in Nat : n > e.batch =>
                       (LimitRefuses(e, n) <=> "batch" \notin e.floats))
<1>1. ASSUME AllOrNothing, phase = "serving", NEW e \in Registered
      PROVE  /\ e.batch \in 1 .. 1024 /\ e.batch <= e.degree
             /\ \A n \in Nat : n > e.batch =>
                   (LimitRefuses(e, n) <=> "batch" \notin e.floats)
    <2>1. e \in Entries /\ Valid(e)
        BY <1>1 DEF AllOrNothing
    <2>2. e.batch \in 1 .. 1024 /\ e.batch <= e.degree
        BY <2>1 DEF Valid, Schema, Semantic
    <2> QED BY <2>2 DEF LimitRefuses
<1>2. AllOrNothing => (phase = "serving" => \A e \in Registered :
          /\ e.batch \in 1 .. 1024 /\ e.batch <= e.degree
          /\ \A n \in Nat : n > e.batch =>
                (LimitRefuses(e, n) <=> "batch" \notin e.floats))
    BY <1>1
<1> QED BY <1>2, Inductive, PTL DEF IInv-----------------------------------------------------------------------------
(* What the other modules take for granted of a registry.                  *)

(* A served registry is as Gateway, Client and Evaluation assume theirs to *)
(* be: it has a model, one entry for each identity, and every entry has a  *)
(* positive dimension, limit and scale, a chain that its depth fits in, a  *)
(* weight for each feature, and a depth for its polynomial.  The           *)
(* assumptions on their constants are results here.                        *)
THEOREM ServedAsAssumed ==
    Spec => [](phase = "serving" =>
                 /\ Registered # {}
                 /\ \A d, e \in Registered : Identity(d) = Identity(e) => d = e
                 /\ \A e \in Registered :
                       /\ {e.dimension, e.batch, e.scale} \subseteq Nat \ {0}
                       /\ e.depth \in 0 .. e.chain - 1
                       /\ e.weights # NoBlock => e.weights = e.dimension
                       /\ e.coefficients # NoBlock =>
                             /\ Len(e.coefficients) = 3
                             /\ e.depth >= RequiredDepth(e.coefficients))
<1>1. ASSUME AllOrNothing, TypeOK, phase = "serving" PROVE Registered # {}
    <2>1. PICK f \in found : read[f] \in Entries /\ registry[Identity(read[f])] = read[f]
        BY <1>1 DEF AllOrNothing
    <2>2. read[f] \in Registered
        BY <2>1, IdentityType, MarkerAssumption DEF Registered
    <2> QED BY <2>2
<1>2. ASSUME AllOrNothing, phase = "serving",
             NEW d \in Registered, NEW e \in Registered, Identity(d) = Identity(e)
      PROVE  d = e
    <2>1. PICK f \in found : d = read[f]
        BY <1>2 DEF AllOrNothing
    <2>2. PICK g \in found : e = read[g]
        BY <1>2 DEF AllOrNothing
    <2>3. registry[Identity(read[f])] = read[f] /\ registry[Identity(read[g])] = read[g]
        BY <1>2 DEF AllOrNothing
    <2> QED BY <1>2, <2>1, <2>2, <2>3
<1>3. ASSUME AllOrNothing, phase = "serving", NEW e \in Registered
      PROVE  /\ {e.dimension, e.batch, e.scale} \subseteq Nat \ {0}
             /\ e.depth \in 0 .. e.chain - 1
             /\ e.weights # NoBlock => e.weights = e.dimension
             /\ e.coefficients # NoBlock =>
                   /\ Len(e.coefficients) = 3
                   /\ e.depth >= RequiredDepth(e.coefficients)
    <2>1. e \in Entries /\ Valid(e)
        BY <1>3 DEF AllOrNothing
    <2>2. Schema(e) /\ Semantic(e) /\ DepthOk(e)
        BY <2>1 DEF Valid, Semantic
    <2>3. /\ {e.dimension, e.batch, e.scale, e.depth} \subseteq Int
          /\ e.chain \in Nat
        BY <2>1, EntryAssumption
    <2>4. {e.dimension, e.batch, e.scale} \subseteq Nat \ {0}
        BY <2>2, <2>3 DEF Semantic
    <2>5. e.depth \in 0 .. e.chain - 1
        BY <2>2, <2>3 DEF DepthOk
    <2> QED BY <2>2, <2>4, <2>5 DEF Schema, Semantic
<1>4. AllOrNothing /\ TypeOK => (phase = "serving" =>
          /\ Registered # {}
          /\ \A d, e \in Registered : Identity(d) = Identity(e) => d = e
          /\ \A e \in Registered :
                /\ {e.dimension, e.batch, e.scale} \subseteq Nat \ {0}
                /\ e.depth \in 0 .. e.chain - 1
                /\ e.weights # NoBlock => e.weights = e.dimension
                /\ e.coefficients # NoBlock =>
                      /\ Len(e.coefficients) = 3
                      /\ e.depth >= RequiredDepth(e.coefficients))
    BY <1>1, <1>2, <1>3
<1> QED BY <1>4, Inductive, PTL DEF IInv
=============================================================================
