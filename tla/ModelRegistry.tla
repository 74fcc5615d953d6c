---------------------------- MODULE ModelRegistry ----------------------------
(***************************************************************************)
(* The model registry: load_model_registry and the two validations it      *)
(* calls (server/core/model_registry/loader.py, schema_validation.py,      *)
(* semantic_validation.py), and what the rest of the gateway wants of an   *)
(* entry they have let through.                                            *)
(*                                                                         *)
(* The server loads the registry when it starts: it lists the directory    *)
(* once and then opens the files in the order of the listing, which is any *)
(* order.  Somebody may edit the directory at any time, while the server   *)
(* loads it, serves, or is down.                                           *)
(*                                                                         *)
(* Types, required and unknown fields and enumerations of an entry are one *)
(* field, shape; the numbers the checks compare are fields of their own.   *)
(***************************************************************************)
EXTENDS Integers, Sequences

CONSTANTS
    Files,       \* paths that match *.json, the schema's own excepted
    Entries,     \* what a file may hold, see EntryAssumption
    MaxLog,      \* bound: 2^MaxLog is the largest degree
    MaxEdits,    \* bound: edits of the directory
    None,        \* no file, no entry
    Unread,      \* the loader has not come to the file
    NoBlock      \* an optional part the entry does not have

(* Fields that may be written 8.0, which JSON schema takes for an integer. *)
IntegerFields == {"degree", "dimension", "batch"}

ASSUME EntryAssumption ==
    \A e \in Entries :
        /\ e.parses \in BOOLEAN                  \* is JSON
        /\ e.shape \in BOOLEAN                   \* types, fields and enums
        /\ {e.degree, e.scale, e.depth, e.dimension, e.outputs, e.batch}
               \subseteq Int
        /\ e.chain \in Nat                       \* len(coeff_modulus_bits)
        /\ e.weights \in Nat \cup {NoBlock}      \* their number
        /\ e.coefficients = NoBlock \/ e.coefficients \in Seq(Int)
        /\ e.floats \subseteq IntegerFields      \* those written as a float

ASSUME MarkerAssumption ==
    None \notin Entries /\ Unread \notin Entries /\ None # Unread

ASSUME BoundAssumption == MaxLog \in Nat /\ MaxEdits \in Nat

Identity(e) == <<e.id, e.version>>

Identities == {Identity(e) : e \in Entries}

(* model_registry_entry.schema.json.                                       *)
Schema(e) ==
    /\ e.shape
    /\ e.chain >= 1
    /\ e.batch \in 1 .. 1024
    /\ e.weights # NoBlock => e.weights >= 1
    /\ e.coefficients # NoBlock => Len(e.coefficients) = 3

PowerOfTwo(n) == \E k \in 0 .. MaxLog : n = 2 ^ k

RequiredDepth(coefficients) == IF coefficients[3] # 0 THEN 2 ELSE 1

(* Mutant: the depth may use up the whole chain.                           *)
DepthOkWithoutLast(e) == e.depth >= 0 /\ e.depth <= e.chain

DepthOk(e) == e.depth >= 0 /\ e.depth <= e.chain - 1

(* A degree written as a float raises TypeError in the bit test.           *)
Semantic(e) ==
    /\ PowerOfTwo(e.degree) /\ "degree" \notin e.floats
    /\ e.scale > 0
    /\ DepthOk(e)
    /\ e.dimension > 0
    /\ e.outputs = 1
    /\ e.batch > 0 /\ e.batch <= e.degree
    /\ e.weights # NoBlock => e.weights = e.dimension
    /\ e.coefficients # NoBlock => e.depth >= RequiredDepth(e.coefficients)

Valid(e) == e.parses /\ Schema(e) /\ Semantic(e)

VARIABLES
    disk,       \* path -> entry, or None
    phase,      \* down, loading, serving, failed
    found,      \* model_files
    read,       \* history: path -> what the loader found there, or Unread
    registry,   \* registry, and MODEL_REGISTRY: identity -> entry, or None
    edits

vars == <<disk, phase, found, read, registry, edits>>

Empty == [i \in Identities |-> None]

Registered == {registry[i] : i \in Identities} \ {None}

Todo == {f \in found : read[f] = Unread}

(* Mutant: models are told apart by model_id only.                         *)
AcceptsById(f) ==
    /\ disk[f] # None
    /\ Valid(disk[f])
    /\ \A e \in Registered : e.id # disk[f].id

(* What is at path f is still there, is valid, and is not a duplicate.     *)
Accepts(f) ==
    /\ disk[f] # None
    /\ Valid(disk[f])
    /\ registry[Identity(disk[f])] = None

----------------------------------------------------------------------------
(* Mutants of the actions below: the errors the properties are there for.  *)

(* A file that is refused is skipped.                                      *)
RefuseFileBySkipping(f) ==
    /\ phase = "loading"
    /\ f \in Todo
    /\ ~Accepts(f)
    /\ read' = [read EXCEPT ![f] = disk[f]]
    /\ phase' = IF Todo = {f} THEN "serving" ELSE "loading"
    /\ UNCHANGED <<disk, found, registry, edits>>

(* The loader stops at the first error and serves what it has.             *)
RefuseFileDegraded(f) ==
    /\ phase = "loading"
    /\ f \in Todo
    /\ ~Accepts(f)
    /\ read' = [read EXCEPT ![f] = disk[f]]
    /\ phase' = "degraded"
    /\ UNCHANGED <<disk, found, registry, edits>>

----------------------------------------------------------------------------
Init ==
    /\ disk \in [Files -> Entries \cup {None}]
    /\ phase = "down"
    /\ found = {}
    /\ read = [f \in Files |-> Unread]
    /\ registry = Empty
    /\ edits = 0

(* The process starts and lists the directory; an empty one is an error.   *)
Start ==
    /\ phase \in {"down", "failed"}
    /\ found' = {f \in Files : disk[f] # None}
    /\ read' = [f \in Files |-> Unread]
    /\ registry' = Empty
    /\ phase' = IF found' = {} THEN "failed" ELSE "loading"
    /\ UNCHANGED <<disk, edits>>

(* One turn of the loop.  That some model is CKKS needs no test after the  *)
(* last one: the schema knows no other scheme.                             *)
LoadFile(f) ==
    /\ phase = "loading"
    /\ f \in Todo
    /\ Accepts(f)
    /\ read' = [read EXCEPT ![f] = disk[f]]
    /\ registry' = [registry EXCEPT ![Identity(disk[f])] = disk[f]]
    /\ phase' = IF Todo = {f} THEN "serving" ELSE "loading"
    /\ UNCHANGED <<disk, found, edits>>

(* Any error is the end of the process, and of the registry so far.        *)
RefuseFile(f) ==
    /\ phase = "loading"
    /\ f \in Todo
    /\ ~Accepts(f)
    /\ read' = [read EXCEPT ![f] = disk[f]]
    /\ registry' = Empty
    /\ phase' = "failed"
    /\ UNCHANGED <<disk, found, edits>>

Stop ==
    /\ phase = "serving"
    /\ phase' = "down"
    /\ registry' = Empty
    /\ UNCHANGED <<disk, found, read, edits>>

(* The operator writes, replaces or removes a file.                        *)
Edit(f, e) ==
    /\ edits < MaxEdits
    /\ e # disk[f]
    /\ disk' = [disk EXCEPT ![f] = e]
    /\ edits' = edits + 1
    /\ UNCHANGED <<phase, found, read, registry>>

Next ==
    \/ Start
    \/ \E f \in Files :
          \/ LoadFile(f)
          \/ RefuseFile(f)
          \/ \E e \in Entries \cup {None} : Edit(f, e)
    \/ Stop

Spec == Init /\ [][Next]_vars
----------------------------------------------------------------------------
(* Every variable has its type.                                            *)
TypeOK ==
    /\ disk \in [Files -> Entries \cup {None}]
    /\ phase \in {"down", "loading", "serving", "failed"}
    /\ found \subseteq Files
    /\ read \in [Files -> Entries \cup {None, Unread}]
    /\ registry \in [Identities -> Entries \cup {None}]
    /\ edits \in Nat

Twins(f, g) == f # g /\ Identity(read[f]) = Identity(read[g])

(* docs/architecture/registry.md:177-182: the server never skips a model,  *)
(* never serves part of a registry, and never merges two.  Whatever is     *)
(* edited while it loads, a server that serves has read every file it      *)
(* listed, each of them valid as it was read, no two of one identity, and  *)
(* its registry is exactly what it read.                                   *)
AllOrNothing ==
    phase = "serving" =>
        /\ found # {}
        /\ \A f \in found :
              /\ read[f] \in Entries /\ Valid(read[f])
              /\ registry[Identity(read[f])] = read[f]
              /\ \A g \in found : ~Twins(f, g)
        /\ \A e \in Registered : \E f \in found : e = read[f]

(* The converse: a start that fails has a cause in the files it listed, so *)
(* that the order of the listing never decides whether the server starts.  *)
RefusesForCause ==
    phase = "failed" =>
        \/ found = {}
        \/ \E f \in found : read[f] = None
        \/ \E f \in found : read[f] \in Entries /\ ~Valid(read[f])
        \/ \E f, g \in found :
              read[f] \in Entries /\ read[g] \in Entries /\ Twins(f, g)

(* Degree of the activation polynomial.                                    *)
Degree(coefficients) ==
    IF coefficients[3] # 0 THEN 2 ELSE IF coefficients[2] # 0 THEN 1 ELSE 0

(* The modulus chain of a served model is longer than its activation       *)
(* polynomial is deep.  No check says so: it takes the bound of the depth  *)
(* by the chain and the bound of the polynomial by the depth.              *)
LevelsSuffice ==
    phase = "serving" => \A e \in Registered :
        e.coefficients # NoBlock => e.chain > Degree(e.coefficients)

(* The batch test of POST /infer: isinstance(max_batch_size, int) and ...  *)
LimitRefuses(e, batch) == "batch" \notin e.floats /\ batch > e.batch

(* docs/architecture/registry.md:207: "All declared constraints are        *)
(* enforceable".  Refuted: 16.0 is an integer to the schema and none to    *)
(* the route, which then has no limit.                                     *)
LimitEnforced ==
    phase = "serving" => \A e \in Registered : LimitRefuses(e, e.batch + 1)
=============================================================================
