------------------------------ MODULE Envelopes ------------------------------
(***************************************************************************)
(* Vault keys wrapped under secrets. A vault key (UVK) is named; wrapping  *)
(* it under a password, a recovery phrase or a PRF output gives an         *)
(* envelope, which opens under the same secret when the context it was     *)
(* sealed with is one that the reader tries. Ciphertexts are symbolic:     *)
(* authenticated encryption yields what was sealed or nothing. What the    *)
(* code decides around them (legacy contexts, key equality, re-wrapping a  *)
(* session key that cannot be exported) is translated.                     *)
(***************************************************************************)
CONSTANT None \* no value: a call that threw, an optional part that is absent

\* The context of a vault_key ciphertext: the profile's own, absent, null,
\* or another string.
Contexts == {"canonical", "missing", "null", "other"}
Kdfs == {"kdf-v1", "kdf-v2", "none"}

(* Part of the ciphertext's record is only stored beside it: `stored` is   *)
(* the context written there, `bound` the one that was authenticated.      *)
Envelope(secrets, keys) ==
  [secret : secrets, uvk : keys, kdf : Kdfs, raw : BOOLEAN, scope : {"own", "foreign"},
   stored : Contexts, bound : Contexts]

(* The shipped profile leaves legacy unlocking on and allows no string.    *)
Profiles == [legacyVaultKeyUnlock : BOOLEAN, legacyVaultKeyAadContexts : SUBSET {"other"}]
DefaultProfile == [legacyVaultKeyUnlock |-> TRUE, legacyVaultKeyAadContexts |-> {}]

----------------------------------------------------------------------------
(* Authenticated encryption                                                *)

(* A scope that names no context is given the profile's.                   *)
ResolveAadContext(context) == IF context = "missing" THEN "canonical" ELSE context

EncryptField(uvk, secret, kdf) ==
  [secret |-> secret, uvk |-> uvk, kdf |-> kdf, raw |-> FALSE, scope |-> "own",
   stored |-> ResolveAadContext("missing"), bound |-> ResolveAadContext("missing")]

(* The variants tried differ in the order of the fields, never in them.    *)
AadCandidates(e) == {e.stored}

DecryptField(e, secret) ==
  IF secret = e.secret /\ e.bound \in AadCandidates(e) THEN e.uvk ELSE None

(* A payload: the key it is sealed under and its content.                  *)
EncryptVaultPayload(content, key) == [key |-> key, content |-> content]

DecryptVaultPayload(blob, key) == IF blob.key = key THEN blob.content ELSE None

----------------------------------------------------------------------------
(* Opening an envelope                                                     *)

IsVaultKeyAadContextAllowed(context, p) ==
  \/ context = "canonical"
  \/ p.legacyVaultKeyUnlock /\ context \in {"missing", "null"} \cup p.legacyVaultKeyAadContexts

IsLegacyVaultKeyEnvelope(e) == e.stored # "canonical"

LegacyCandidates(e, p) ==
  LET contexts == {"canonical", "missing"}
                    \cup ({e.stored} \cap ({"null"} \cup p.legacyVaultKeyAadContexts))
  IN {[e EXCEPT !.stored = c] : c \in contexts}

VaultKeyScopeMatches(e) == e.scope = "own"

AssertVaultKeyAad(e) == VaultKeyScopeMatches(e) /\ e.stored = "canonical"

(* The candidates differ in context only, so at most one of them opens.    *)
UnwrapWithLegacyAadFallback(e, secret, p) ==
  IF /\ VaultKeyScopeMatches(e)
     /\ IsVaultKeyAadContextAllowed(e.stored, p)
     /\ \E c \in LegacyCandidates(e, p) : DecryptField(c, secret) # None
  THEN e.uvk
  ELSE None

UnlockEnvelope(e, secret, p) ==
  IF IsLegacyVaultKeyEnvelope(e)
  THEN IF p.legacyVaultKeyUnlock THEN UnwrapWithLegacyAadFallback(e, secret, p) ELSE None
  ELSE IF AssertVaultKeyAad(e) THEN DecryptField(e, secret) ELSE None

----------------------------------------------------------------------------
(* Wrapping. A key just created can be exported; a key that came out of an *)
(* envelope cannot, and is wrapped again only from the inner material of   *)
(* an envelope that holds it. Older releases sealed the bare 32 bytes of a *)
(* key (raw), newer ones a wrapped form.                                   *)

InnerMatches(inner, uvk) == inner # None /\ inner.uvk = uvk

(* What is sealed: the key itself when it may leave its handle, else the   *)
(* inner blob the caller brings, if it is this key's.                      *)
MaterializeInner(uvk, extractable, inner) ==
  CASE inner # None -> IF InnerMatches(inner, uvk) THEN inner ELSE None
    [] inner = None /\ extractable -> [uvk |-> uvk, raw |-> FALSE]
    [] OTHER -> None

WrapUserVaultKey(uvk, extractable, inner, secret, kdf) ==
  LET material == MaterializeInner(uvk, extractable, inner)
  IN IF material = None THEN None
     ELSE [EncryptField(uvk, secret, kdf) EXCEPT !.raw = material.raw]

CreatePasswordEnvelope(uvk, password) == WrapUserVaultKey(uvk, TRUE, None, password, "kdf-v2")
CreateRecoveryEnvelope(uvk, phrase, inner) ==
  WrapUserVaultKey(uvk, inner = None, inner, phrase, "kdf-v2")

(* The blob is read under the stored context alone.                        *)
ExtractInner(e, secret) ==
  IF DecryptField(e, secret) = None THEN None ELSE [uvk |-> e.uvk, raw |-> e.raw]

(* Wrapping inner material for another key makes it wrapped material.      *)
RewrapInner(inner, sessionKey) ==
  IF InnerMatches(inner, sessionKey) THEN [uvk |-> inner.uvk, raw |-> FALSE] ELSE None

RewrapEncryptedVaultKey(e, secret, newSecret, sessionKey) ==
  IF RewrapInner(ExtractInner(e, secret), sessionKey) = None THEN None
  ELSE EncryptField(e.uvk, newSecret, "kdf-v2")

----------------------------------------------------------------------------
(* Rotation and upgrades, for the key of an open session                   *)

IsUpgradeRecommended(e) == e.kdf # "kdf-v2"

(* Mutation: whatever the current password opens is wrapped again.         *)
RotateUnchecked(e, sessionKey, current, new, p) ==
  IF DecryptField(e, current) = None THEN None ELSE EncryptField(e.uvk, new, "kdf-v2")

RotateVaultPassword(e, sessionKey, current, new, p) ==
  IF current # new /\ UnlockEnvelope(e, current, p) = sessionKey
  THEN RewrapEncryptedVaultKey(e, current, new, sessionKey)
  ELSE None

(* None also when there is nothing to write.                               *)
MaybeUpgradePasswordEnvelope(e, sessionKey, password, p) ==
  IF IsUpgradeRecommended(e) /\ UnlockEnvelope(e, password, p) = sessionKey
  THEN RewrapEncryptedVaultKey(e, password, password, sessionKey)
  ELSE None

MaybeUpgradeRecoveryEnvelope(e, sessionKey, phrase, p) ==
  IF IsUpgradeRecommended(e) /\ UnlockEnvelope(e, phrase, p) = sessionKey
  THEN RewrapEncryptedVaultKey(e, phrase, phrase, sessionKey)
  ELSE None

(* Either kind of proof opens the envelope again.                          *)
RotationAuthorized(e, secret, sessionKey, p) == UnlockEnvelope(e, secret, p) = sessionKey

(* Mutation: the proof's secret is taken for the new phrase.               *)
RotateToProof(e, secret, sessionKey, newPhrase, p) ==
  LET inner == RewrapInner(ExtractInner(e, secret), sessionKey)
  IN IF RotationAuthorized(e, secret, sessionKey, p) /\ inner # None
     THEN CreateRecoveryEnvelope(sessionKey, secret, inner)
     ELSE None

(* e is the envelope of the proof: the password's or the passkey's.        *)
RotateRecoveryPhrase(e, secret, sessionKey, newPhrase, p) ==
  LET inner == RewrapInner(ExtractInner(e, secret), sessionKey)
  IN IF RotationAuthorized(e, secret, sessionKey, p) /\ inner # None
     THEN CreateRecoveryEnvelope(sessionKey, newPhrase, inner)
     ELSE None
=============================================================================
