--------------------------- MODULE EnvelopesProofs ---------------------------
(***************************************************************************)
(* What opening, wrapping, rotating and upgrading an envelope guarantee,   *)
(* for every set of secrets and keys and every profile.                    *)
(***************************************************************************)
EXTENDS Envelopes, TLAPS

-----------------------------------------------------------------------------
(* Opening.                                                                *)

(* An envelope opens under its own secret only, legacy or not, and yields  *)
(* the key inside (envelopes/legacy-vault-key-unlock.ts).                  *)
THEOREM OpensUnderItsSecret ==
  ASSUME NEW S, NEW K, NEW e \in Envelope(S, K), NEW secret, NEW p,
         UnlockEnvelope(e, secret, p) # None
  PROVE  UnlockEnvelope(e, secret, p) = e.uvk /\ secret = e.secret
<1>1. \A c \in LegacyCandidates(e, p) : c.secret = e.secret
  BY DEF LegacyCandidates, Envelope
<1>2. CASE IsLegacyVaultKeyEnvelope(e)
  <2>1. UnlockEnvelope(e, secret, p) = UnwrapWithLegacyAadFallback(e, secret, p)
    BY <1>2 DEF UnlockEnvelope
  <2>2. PICK c \in LegacyCandidates(e, p) : DecryptField(c, secret) # None
    BY <2>1 DEF UnwrapWithLegacyAadFallback
  <2>3. secret = e.secret
    BY <1>1, <2>2 DEF DecryptField
  <2> QED
    BY <2>1, <2>3 DEF UnwrapWithLegacyAadFallback
<1>3. CASE ~IsLegacyVaultKeyEnvelope(e)
  BY <1>3 DEF UnlockEnvelope, DecryptField
<1> QED
  BY <1>2, <1>3

(* The legacy path never opens what belongs to another scope or was stored *)
(* with a context the profile does not name (isVaultKeyAadContextAllowed). *)
THEOREM LegacyStaysInScope ==
  ASSUME NEW S, NEW K, NEW e \in Envelope(S, K), NEW secret, NEW p \in Profiles,
         UnlockEnvelope(e, secret, p) # None
  PROVE  /\ e.scope = "own"
         /\ e.stored # "canonical" => p.legacyVaultKeyUnlock
         /\ e.stored = "other" => "other" \in p.legacyVaultKeyAadContexts
<1>1. CASE IsLegacyVaultKeyEnvelope(e)
  <2>1. /\ p.legacyVaultKeyUnlock
        /\ UnlockEnvelope(e, secret, p) = UnwrapWithLegacyAadFallback(e, secret, p)
    BY <1>1 DEF UnlockEnvelope
  <2>2. VaultKeyScopeMatches(e) /\ IsVaultKeyAadContextAllowed(e.stored, p)
    BY <2>1 DEF UnwrapWithLegacyAadFallback
  <2> QED
    BY <2>1, <2>2 DEF VaultKeyScopeMatches, IsVaultKeyAadContextAllowed
<1>2. CASE ~IsLegacyVaultKeyEnvelope(e)
  BY <1>2 DEF UnlockEnvelope, AssertVaultKeyAad, VaultKeyScopeMatches, IsLegacyVaultKeyEnvelope
<1> QED
  BY <1>1, <1>2

-----------------------------------------------------------------------------
(* Wrapping.                                                               *)

(* A freshly sealed envelope opens under its secret with every profile.    *)
LEMMA SealedOpens ==
  ASSUME NEW k, NEW secret, NEW kdf, NEW p
  PROVE  UnlockEnvelope(EncryptField(k, secret, kdf), secret, p) = k
BY DEF UnlockEnvelope, EncryptField, ResolveAadContext, IsLegacyVaultKeyEnvelope,
       AssertVaultKeyAad, VaultKeyScopeMatches, DecryptField, AadCandidates

(* Re-wrapping answers nothing, or the session's key under the new secret. *)
LEMMA RewrapKeepsKey ==
  ASSUME NEW S, NEW K, NEW e \in Envelope(S, K), NEW secret, NEW newSecret,
         NEW sessionKey, NEW p,
         RewrapEncryptedVaultKey(e, secret, newSecret, sessionKey) # None
  PROVE  /\ e.uvk = sessionKey
         /\ UnlockEnvelope(RewrapEncryptedVaultKey(e, secret, newSecret, sessionKey),
                           newSecret, p) = sessionKey
<1>1. /\ RewrapInner(ExtractInner(e, secret), sessionKey) # None
      /\ RewrapEncryptedVaultKey(e, secret, newSecret, sessionKey)
           = EncryptField(e.uvk, newSecret, "kdf-v2")
  BY DEF RewrapEncryptedVaultKey
<1>2. e.uvk = sessionKey
  BY <1>1 DEF RewrapInner, InnerMatches, ExtractInner
<1> QED
  BY <1>1, <1>2, SealedOpens

-----------------------------------------------------------------------------
(* Rotation and upgrades.                                                  *)

(* A rotated password envelope opens under the new password with the key   *)
(* of the session, which is the key it had: payloads and the other         *)
(* envelopes stay good (rotation/password.ts).                             *)
THEOREM RotationKeepsKey ==
  ASSUME NEW S, NEW K, NEW e \in Envelope(S, K), NEW sessionKey, NEW current,
         NEW new, NEW p, NEW q,
         RotateVaultPassword(e, sessionKey, current, new, p) # None
  PROVE  /\ current # new
         /\ e.uvk = sessionKey
         /\ UnlockEnvelope(RotateVaultPassword(e, sessionKey, current, new, p), new, q)
              = sessionKey
<1>1. /\ current # new
      /\ RotateVaultPassword(e, sessionKey, current, new, p)
           = RewrapEncryptedVaultKey(e, current, new, sessionKey)
  BY DEF RotateVaultPassword
<1> QED
  BY <1>1, RewrapKeepsKey

(* An upgraded envelope opens under the secret that was typed, with the    *)
(* key it had (maybeUpgradePasswordEnvelope, maybeUpgradeRecoveryEnvelope).*)
THEOREM UpgradesKeepKey ==
  ASSUME NEW S, NEW K, NEW e \in Envelope(S, K), NEW sessionKey, NEW secret, NEW p, NEW q
  PROVE  \A u \in {MaybeUpgradePasswordEnvelope(e, sessionKey, secret, p),
                   MaybeUpgradeRecoveryEnvelope(e, sessionKey, secret, p)} :
           u # None => e.uvk = sessionKey /\ UnlockEnvelope(u, secret, q) = sessionKey
<1> DEFINE u == RewrapEncryptedVaultKey(e, secret, secret, sessionKey)
<1>1. u # None => e.uvk = sessionKey /\ UnlockEnvelope(u, secret, q) = sessionKey
  BY RewrapKeepsKey
<1>2. /\ MaybeUpgradePasswordEnvelope(e, sessionKey, secret, p) \in {u, None}
      /\ MaybeUpgradeRecoveryEnvelope(e, sessionKey, secret, p) \in {u, None}
  BY DEF MaybeUpgradePasswordEnvelope, MaybeUpgradeRecoveryEnvelope
<1> HIDE DEF u
<1> QED
  BY <1>1, <1>2

(* A recovery rotation, proved with the password or a passkey, yields an   *)
(* envelope of the session's key that opens under the new phrase, and no   *)
(* one who lacks the proof's secret gets one (rotation/recovery.ts).       *)
THEOREM RecoveryRotationKeepsKey ==
  ASSUME NEW S, NEW K, None \notin K, NEW e \in Envelope(S, K), NEW sessionKey \in K,
         NEW secret, NEW phrase, NEW p, NEW q,
         RotateRecoveryPhrase(e, secret, sessionKey, phrase, p) # None
  PROVE  /\ secret = e.secret /\ e.uvk = sessionKey
         /\ UnlockEnvelope(RotateRecoveryPhrase(e, secret, sessionKey, phrase, p), phrase, q)
              = sessionKey
<1> DEFINE inner == RewrapInner(ExtractInner(e, secret), sessionKey)
           made  == CreateRecoveryEnvelope(sessionKey, phrase, inner)
<1>1. /\ RotationAuthorized(e, secret, sessionKey, p) /\ inner # None
      /\ RotateRecoveryPhrase(e, secret, sessionKey, phrase, p) = made
  BY DEF RotateRecoveryPhrase
<1>2. UnlockEnvelope(e, secret, p) = sessionKey /\ sessionKey # None
  BY <1>1 DEF RotationAuthorized
<1>3. secret = e.secret /\ e.uvk = sessionKey
  BY <1>2, OpensUnderItsSecret
<1>4. inner = [uvk |-> sessionKey, raw |-> FALSE]
  BY <1>1 DEF RewrapInner, InnerMatches
<1>5. made = [EncryptField(sessionKey, phrase, "kdf-v2") EXCEPT !.raw = FALSE]
  <2>1. MaterializeInner(sessionKey, FALSE, inner) = inner
    BY <1>1, <1>4 DEF MaterializeInner, InnerMatches
  <2>2. made = WrapUserVaultKey(sessionKey, FALSE, inner, phrase, "kdf-v2")
    BY <1>1 DEF CreateRecoveryEnvelope
  <2>3. inner.raw = FALSE
    BY <1>4
  <2> QED
    BY <1>1, <2>1, <2>2, <2>3 DEF WrapUserVaultKey
<1>6. made = EncryptField(sessionKey, phrase, "kdf-v2")
  BY <1>5 DEF EncryptField
<1> QED
  BY <1>1, <1>3, <1>6, SealedOpens
=============================================================================
