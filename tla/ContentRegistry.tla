--------------------------- MODULE ContentRegistry ---------------------------
(***************************************************************************)
(* What the service promises, whatever happens on the way: a grow-only     *)
(* content-addressed store and a grow-only list of versions, in which an   *)
(* object's key is the hash of its bytes and a version is only listed once *)
(* its tarball can be fetched under the key the version names.             *)
(*                                                                         *)
(* The sentences this abstracts are in the README's Design section, in     *)
(* contentAddress.ts ("a package version's storage location IS its hash")  *)
(* and in mirrorTarball.ts ("same key implies same bytes").                *)
(***************************************************************************)
EXTENDS GatewayRules

CONSTANTS
    HashOf,    \* the hash of every byte string
    Versions,  \* the records a version can be
    Keys       \* the storage keys

VARIABLES
    objects,   \* set of [key, bytes]
    published  \* set of [pkg, version, hash, isPublic]

vars == <<objects, published>>

(* The bytes a key already holds never change: a key is filled once. *)
AddObject(key, bytes) ==
    /\ key.hash = HashOf[bytes]
    /\ ~ \E o \in objects : o.key = key
    /\ objects' = objects \cup {[key |-> key, bytes |-> bytes]}
    /\ UNCHANGED published

AddVersion(v) ==
    /\ \E o \in objects : o.key = StorageKey(v.isPublic, v.hash)
    /\ ~ \E w \in published : w.pkg = v.pkg /\ w.version = v.version
    /\ published' = published \cup {v}
    /\ UNCHANGED objects

Init ==
    /\ objects = {}
    /\ published = {}

Next ==
    \/ \E key \in Keys, bytes \in DOMAIN HashOf : AddObject(key, bytes)
    \/ \E v \in Versions : AddVersion(v)

Spec == Init /\ [][Next]_vars
=============================================================================
