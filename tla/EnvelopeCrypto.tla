--------------------------- MODULE EnvelopeCrypto ---------------------------
(***************************************************************************)
(* The key hierarchy and the sealing of remotier-sync-proto/src/crypto.rs, *)
(* symbolically: a derived key, a sealed text and a public key are records *)
(* that say what they were made from, and opening one compares.  Nonces    *)
(* only make equal texts look different and are left out, and so is the    *)
(* JSON a payload is turned into and back.                                 *)
(***************************************************************************)
EXTENDS Naturals

CONSTANT Failed              \* Error::Decrypt

\* random_key, for one use: uniform bytes never repeat.
Random(use) == [random |-> use]

-----------------------------------------------------------------------------
\* What people type.

\* An address as typed is its mailbox, and whether it has capitals from A to Z
\* or padding (`ascii`) and other capitals (`other`).

\* email.trim().to_ascii_lowercase()
ToAsciiLowercase(email) == [email EXCEPT !.ascii = FALSE]

\* generate_recovery_code prints one; people retype it without its dashes.
RecoveryCode(n) == [letters |-> Random(n), dashes |-> TRUE]
Retypings(n) == {[letters |-> Random(n), dashes |-> d] : d \in BOOLEAN}

\* code.replace(['-', ' '], "").to_ascii_uppercase()
Normalised(code) == code.letters

-----------------------------------------------------------------------------
\* The key hierarchy.

Argon2id(secret, salt) == [argon2id |-> secret, salt |-> salt]
Subkey(master, info) == [master |-> master, info |-> info]

\* AccountKeys: the half that is sent, and the half that is not.
SplitMaster(master) == [auth |-> Subkey(master, "auth"), wrap |-> Subkey(master, "wrap")]

DeriveMaster(password, email) ==
    Argon2id(password, [context |-> "salt", email |-> ToAsciiLowercase(email)])

DeriveAccountKeys(password, email) == SplitMaster(DeriveMaster(password, email))

DeriveRecoveryKeys(code) == SplitMaster(Argon2id(Normalised(code), [context |-> "recovery"]))

-----------------------------------------------------------------------------
\* Symmetric sealing.

Seal(key, aad, plaintext) == [key |-> key, aad |-> aad, plaintext |-> plaintext]

Open(key, aad, sealed) ==
    IF sealed.key = key /\ sealed.aad = aad THEN sealed.plaintext ELSE Failed

-----------------------------------------------------------------------------
\* The account keypair, and wrapping a group key for someone else.

PublicKey(secret) == [public_of |-> secret]

\* Both sides of an exchange get the same from their own secret.
DiffieHellman(secret, public) == {secret, public.public_of}

BoxKey(shared, ephemeral, recipient) ==
    [shared |-> shared, ephemeral |-> ephemeral, recipient |-> recipient]

\* Broken: the two public keys of the salt are swapped.
BrokenWrapFor(recipient, key, ephemeral) ==
    LET public == PublicKey(ephemeral)
    IN  [ephemeral |-> public,
         sealed |-> Seal(BoxKey(DiffieHellman(ephemeral, recipient), recipient, public),
                         "box", key)]

\* A blob for one recipient, from a throwaway secret.
WrapFor(recipient, key, ephemeral) ==
    LET public == PublicKey(ephemeral)
    IN  [ephemeral |-> public,
         sealed |-> Seal(BoxKey(DiffieHellman(ephemeral, recipient), public, recipient),
                         "box", key)]

UnwrapWith(secret, blob) ==
    Open(BoxKey(DiffieHellman(secret, blob.ephemeral), blob.ephemeral, PublicKey(secret)),
         "box", blob.sealed)
=============================================================================
