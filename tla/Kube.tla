-------------------------------- MODULE Kube --------------------------------
(***************************************************************************)
(* Resource references: a literal value, or the key of a secret or of a    *)
(* config map (pkg/kube/kube.go).  Names of hosts, databases, users and    *)
(* schemas are all members of Values; what an API server answers for the   *)
(* keys is a function from Sources.                                        *)
(***************************************************************************)
CONSTANTS
    Values,             \* strings a resource may resolve to
    Sources,            \* secret or config map keys that a ResourceVar may name
    NoValue,            \* "not set", and the result ErrNoValue
    Missing             \* errNotFound and errUnknownKey

ASSUME KubeAssumption ==
    /\ NoValue \notin Values \cup Sources
    /\ Missing \notin Values
    /\ NoValue # Missing

Refs == [literal : Values \cup {NoValue}, source : Sources \cup {NoValue}]

Stores == [Sources -> Values \cup {Missing}]

\* The literal wins, then the secret or config map.
ResourceValue(store, ref) ==
    IF ref.literal # NoValue THEN ref.literal
    ELSE IF ref.source # NoValue THEN store[ref.source]
    ELSE NoValue

resolves(store, ref) == ResourceValue(store, ref) \notin {NoValue, Missing}
=============================================================================
