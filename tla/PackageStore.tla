---------------------------- MODULE PackageStore ----------------------------
(***************************************************************************)
(* The packages bucket on R2, which every route of the service writes      *)
(* (src/uploader.ts).  R2 is not in this repository: a put writes one      *)
(* whole object atomically, replacing the one under its key.               *)
(***************************************************************************)
EXTENDS GatewayRules

CONSTANTS
    Blobs,         \* tarballs
    Hashes,
    HashOf,        \* SHA-256
    EncKeySet      \* TARBALL_ENC_KEY is configured

(* SHA-256 is collision-free on the tarballs at hand. *)
ASSUME HashAssumption ==
    /\ HashOf \in [Blobs -> Hashes]
    /\ \A a, b \in Blobs : HashOf[a] = HashOf[b] => a = b

ASSUME EncKeyAssumption == EncKeySet \in BOOLEAN

VARIABLE store     \* set of [key, bytes, ssec]

Key == [visibility : Visibility, hash : Hashes]

(* ssec: the SSE-C key the object is encrypted under, if any. *)
Object == [key : Key, bytes : Blobs, ssec : SUBSET Key]

PutPackageObject(o) == store' = {x \in store : x.key # o.key} \cup {o}

StoreTypeOK == store \subseteq Object

(* The key determines the object: the bytes it is the hash of, and the SSE-C *)
(* key that whoever knows the key and the master secret can derive.          *)
Sealed(o) ==
    /\ HashOf[o.bytes] = o.key.hash
    /\ o.ssec = ObjectEncryptionKey(EncKeySet, o.key)
=============================================================================
