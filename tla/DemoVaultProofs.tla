---------------------------- MODULE DemoVaultProofs ----------------------------
(***************************************************************************)
(* Theorems about the consumer demo's vault, for any number of keys,       *)
(* phrases, passwords and notes, of operations awaited at once, and for    *)
(* any record of an older release. Locks, reloads and page changes come at *)
(* any moment, and nothing bounds how long an operation takes.             *)
(*                                                                         *)
(* What can be lost is lost in a step that is not Orderly, the end of a    *)
(* call over something that is not as the call found it. The theorems that *)
(* assume [][Orderly]_vars say that there is no other way to lose it.      *)
(***************************************************************************)
EXTENDS DemoVault, EnvelopesProofs, TLAPS

(* Every part of a record that was ever stored holds the vault's key or is *)
(* the decoy's, and the contents are on their own side.                    *)
Sealed(r, generated) ==
  /\ r \in Records
  /\ r.vault.pw.uvk \in generated
  /\ r.vault.rec.uvk = r.vault.pw.uvk
  /\ r.vault.blob.key = r.vault.pw.uvk
  /\ ~r.vault.blob.content.honey
  /\ r.pk # None => r.pk.uvk = r.vault.pw.uvk
  /\ r.decoy # None =>
       /\ r.decoy.rec.uvk = r.decoy.pw.uvk
       /\ r.decoy.pw.uvk # r.vault.pw.uvk /\ r.decoy.blob.key # r.vault.pw.uvk
       /\ r.decoy.blob.content.honey

RecordOK(r) == Sealed(r, used)

VariablesOK ==
  /\ meta \in [active : BOOLEAN, sequence : BOOLEAN]
  /\ enabled \in BOOLEAN /\ pin \in BOOLEAN /\ loading \in BOOLEAN
  /\ key \in Keys \cup {None} /\ role \in {"none", "primary", "decoy"}
  /\ page \in Pages
  /\ used \in SUBSET (Keys \cup Phrases)

RecordInv == record # None => RecordOK(record)

(* Outside an emergency a session has the vault's key.                     *)
SessionInv ==
  /\ key # None => record # None
  /\ key # None /\ ~pin => key = record.vault.pw.uvk
  /\ key = None => role = "none"
  /\ role = "decoy" => pin /\ meta.active
  /\ enabled /\ meta.active => pin

(* A payload the key k may show, and save: the decoy's in an emergency.    *)
Shows(content, k) ==
  /\ content \in Contents /\ content.honey = pin
  /\ k \in Keys /\ record # None
  /\ IF pin THEN record.decoy # None /\ k # record.vault.pw.uvk
            ELSE k = record.vault.pw.uvk

ViewInv ==
  /\ payload # None => page = "vault" /\ Shows(payload, key)
  /\ load # None =>
       /\ page = "vault" /\ key # None /\ load.read
       /\ load.result # None => Shows(load.result, key)

PendingInv ==
  pending # None =>
    /\ pending \in Envelope(Phrases, Keys) /\ page = "settings"
    /\ record # None => pending.uvk = record.vault.pw.uvk

Opens == {"create", "created", "unlock", "passkey", "recover"}
Rewrites == {"change", "upgrade_pw", "upgrade_rec", "link"}
Under == Rewrites \cup {"save", "enroll", "generate", "delete"}

Call(s) ==
  s = [op |-> s.op, rec |-> s.rec, key |-> s.key, secret |-> s.secret,
       about |-> s.about, mounted |-> s.mounted]

(* What a call took with it, whatever becomes of the tab before it ends.   *)
CallBase(s) ==
  /\ Call(s)
  /\ s.op \in Opens \cup Under \cup {"exit"}
  /\ s.mounted \in BOOLEAN
  /\ s.op \in Under => s.key \in Keys
  /\ s.op # "create" => RecordOK(s.rec)

(* What was typed, and what the call is about. A payload to be saved is of *)
(* the vault that the call's key opens.                                    *)
CallAbout(s) ==
  /\ s.op \in {"create", "enroll", "change", "upgrade_pw"} => s.secret \in Passwords
  /\ s.op = "upgrade_rec" => s.secret \in Phrases
  /\ s.op = "created" =>
       /\ s.about = s.rec.vault.pw
       /\ UnlockEnvelope(s.about, s.secret, DefaultProfile) = s.about.uvk
  /\ s.op = "change" => s.about \in Passwords
  /\ s.op = "passkey" => s.rec.pk # None
  /\ s.op = "unlock" =>
       /\ s.about.role \in {"primary", "decoy"}
       /\ s.about.envelope \in Envelope(Passwords \cup {Prf}, Keys)
       /\ s.about.role = "primary" => s.about.envelope.uvk = s.rec.vault.pw.uvk
  /\ s.op = "save" =>
       /\ s.about \in Contents
       /\ IF s.about.honey THEN s.rec.decoy # None /\ s.key # s.rec.vault.pw.uvk
                           ELSE s.key = s.rec.vault.pw.uvk

(* The page that made a call is mounted until it is left.                  *)
CallPage(s) ==
  /\ s.op = "save" /\ s.mounted => page = "vault"
  /\ s.op = "generate" /\ s.mounted => page = "settings"

CallOK(s) == CallBase(s) /\ CallAbout(s) /\ CallPage(s)

CallsInv ==
  /\ calls = [c \in Calls |-> calls[c]]
  /\ \A c \in Calls : calls[c] # None => CallOK(calls[c])

(* The inductive invariant.                                                *)
HeldInv == VariablesOK /\ RecordInv /\ SessionInv /\ ViewInv /\ PendingInv
DemoInv == HeldInv /\ CallsInv

-----------------------------------------------------------------------------
(* What is sealed, and what a record is made of.                           *)

LEMMA SealedType ==
  ASSUME NEW S, NEW K, NEW k \in K, NEW secret \in S, NEW kdf \in Kdfs
  PROVE  /\ EncryptField(k, secret, kdf) \in Envelope(S, K)
         /\ EncryptField(k, secret, kdf).uvk = k
  BY DEF EncryptField, ResolveAadContext, Envelope, Contexts

(* A key just created is sealed as it is (createPasswordEnvelope,          *)
(* createRecoveryEnvelope).                                                *)
LEMMA NewEnvelopes ==
  ASSUME NEW k \in Keys, NEW p, NEW f
  PROVE  /\ CreatePasswordEnvelope(k, p) = EncryptField(k, p, "kdf-v2")
         /\ CreateRecoveryEnvelope(k, f, None) = EncryptField(k, f, "kdf-v2")
<1> DEFINE material == [uvk |-> k, raw |-> FALSE]
<1>1. MaterializeInner(k, TRUE, None) = material
  BY DEF MaterializeInner
<1>2. material # None /\ material.raw = FALSE
  BY NoneAssumption
<1>3. ASSUME NEW secret
      PROVE  [EncryptField(k, secret, "kdf-v2") EXCEPT !.raw = FALSE]
               = EncryptField(k, secret, "kdf-v2")
  <2> DEFINE e == EncryptField(k, secret, "kdf-v2")
  <2>1. e = [secret |-> secret, uvk |-> k, kdf |-> "kdf-v2", raw |-> FALSE, scope |-> "own",
             stored |-> ResolveAadContext("missing"), bound |-> ResolveAadContext("missing")]
    BY DEF EncryptField
  <2>2. e.raw = FALSE
    BY <2>1
  <2> HIDE DEF e
  <2>3. [e EXCEPT !.raw = FALSE] = e
    BY <2>1, <2>2
  <2> QED BY <2>3 DEF e
<1>4. \A secret : WrapUserVaultKey(k, TRUE, None, secret, "kdf-v2")
                    = EncryptField(k, secret, "kdf-v2")
  <2> HIDE DEF material
  <2> QED BY <1>1, <1>2, <1>3 DEF WrapUserVaultKey
<1> QED BY <1>4 DEF CreatePasswordEnvelope, CreateRecoveryEnvelope

LEMMA VaultOfOK ==
  ASSUME NEW k \in Keys, NEW p \in Passwords, NEW f \in Phrases, NEW content \in Contents,
         NEW v, v = VaultOf(k, p, f, content)
  PROVE  /\ v \in Vaults
         /\ v.pw.uvk = k /\ v.rec.uvk = k /\ v.blob.key = k /\ v.blob.content = content
         /\ UnlockEnvelope(v.pw, p, DefaultProfile) = k
<1> DEFINE pw == EncryptField(k, p, "kdf-v2")
           rec == EncryptField(k, f, "kdf-v2")
           blob == [key |-> k, content |-> content]
<1>1. pw \in Envelope(Passwords, Keys) /\ pw.uvk = k
  BY SealedType DEF Kdfs
<1>2. rec \in Envelope(Phrases, Keys) /\ rec.uvk = k
  BY SealedType DEF Kdfs
<1>3. UnlockEnvelope(pw, p, DefaultProfile) = k
  BY SealedOpens
<1>4. v = [blob |-> blob, pw |-> pw, rec |-> rec]
  BY NewEnvelopes DEF VaultOf, EncryptVaultPayload
<1>5. blob \in [key : Keys, content : Contents] /\ blob.key = k /\ blob.content = content
  OBVIOUS
<1> HIDE DEF pw, rec, blob
<1>6. v.pw = pw /\ v.rec = rec /\ v.blob = blob /\ v \in Vaults
  BY <1>1, <1>2, <1>4, <1>5 DEF Vaults
<1> QED BY <1>1, <1>2, <1>3, <1>5, <1>6

LEMMA RecordFields ==
  ASSUME NEW r \in Records
  PROVE  /\ r = [vault |-> r.vault, pk |-> r.pk, decoy |-> r.decoy]
         /\ r.vault \in Vaults /\ r.pk \in Envelope({Prf}, Keys) \cup {None}
         /\ r.decoy \in Vaults \cup {None}
         /\ r # None
  BY NoneAssumption DEF Records

LEMMA VaultFields ==
  ASSUME NEW v \in Vaults
  PROVE  /\ v = [blob |-> v.blob, pw |-> v.pw, rec |-> v.rec]
         /\ v.blob \in [key : Keys, content : Contents]
         /\ v.pw \in Envelope(Passwords, Keys) /\ v.rec \in Envelope(Phrases, Keys)
         /\ v.pw.uvk \in Keys /\ v.rec.uvk \in Keys /\ v # None
  BY NoneAssumption DEF Vaults, Envelope

(* A new vault has no decoy, and its own key throughout (createDemoVault). *)
LEMMA NewRecordOK ==
  ASSUME NEW k \in Keys, NEW p \in Passwords, NEW f \in Phrases,
         NEW U, k \in U, NEW r, r = NewRecord(k, p, f)
  PROVE  /\ Sealed(r, U)
         /\ UnlockEnvelope(r.vault.pw, p, DefaultProfile) = r.vault.pw.uvk
<1> DEFINE content == [honey |-> FALSE, notes |-> 0]
           v == VaultOf(k, p, f, content)
<1>1. content \in Contents /\ ~content.honey
  BY ConstantsAssumption, SMT DEF Contents
<1> HIDE DEF content
<1>2. /\ v \in Vaults
      /\ v.pw.uvk = k /\ v.rec.uvk = k /\ v.blob.key = k /\ v.blob.content = content
      /\ UnlockEnvelope(v.pw, p, DefaultProfile) = k
  BY <1>1, VaultOfOK
<1> HIDE DEF v
<1>3. r = [vault |-> v, pk |-> None, decoy |-> None]
  BY DEF NewRecord, v, content
<1>4. r \in Records /\ r.vault = v /\ r.pk = None /\ r.decoy = None
  BY <1>2, <1>3 DEF Records
<1> QED BY <1>1, <1>2, <1>4 DEF Sealed

(* The decoy's key is a new one (createDecoyVaultSetup).                   *)
LEMMA EnrolledOK ==
  ASSUME NEW r, NEW U, Sealed(r, U),
         NEW k \in Keys \ U, NEW p \in Passwords, NEW f \in Phrases, NEW r2,
         r2 = [r EXCEPT !.decoy = CreateDecoyVaultSetup(k, p, f)]
  PROVE  /\ Sealed(r2, U) /\ r2.vault = r.vault
<1> DEFINE content == [honey |-> TRUE, notes |-> 0]
           v == VaultOf(k, p, f, content)
<1>1. content \in Contents /\ content.honey
  BY ConstantsAssumption, SMT DEF Contents
<1> HIDE DEF content
<1>2. /\ v \in Vaults
      /\ v.pw.uvk = k /\ v.rec.uvk = k /\ v.blob.key = k /\ v.blob.content = content
  BY <1>1, VaultOfOK
<1> HIDE DEF v
<1>3. r2 = [r EXCEPT !.decoy = v]
  BY DEF CreateDecoyVaultSetup, v, content
<1>4. r2 \in Records /\ r2.vault = r.vault /\ r2.pk = r.pk /\ r2.decoy = v
  BY <1>2, <1>3 DEF Sealed, Records
<1>5. r.vault.pw.uvk # k
  BY DEF Sealed
<1> QED BY <1>1, <1>2, <1>4, <1>5 DEF Sealed

(* An older release's record, whatever contexts it was sealed under.       *)
LEMMA OlderRecordOK ==
  ASSUME NEW k \in Keys, NEW p \in Passwords, NEW f \in Phrases,
         NEW c \in OlderContexts, NEW linked \in BOOLEAN,
         NEW U, k \in U, NEW r, r = OlderRecord(k, p, f, c, linked)
  PROVE  Sealed(r, U) /\ r.decoy = None
<1> DEFINE older(e) == [e EXCEPT !.kdf = "kdf-v1", !.raw = TRUE, !.stored = c[1], !.bound = c[2]]
           new == NewRecord(k, p, f)
           pk == IF linked THEN EncryptField(k, Prf, "none") ELSE None
<1>1. c[1] \in Contexts /\ c[2] \in Contexts
  BY ConstantsAssumption
<1>2. Sealed(new, U) /\ new.vault.pw.uvk = k /\ new.pk = None /\ new.decoy = None
  <2>1. Sealed(new, U)
    BY NewRecordOK
  <2>2. new.vault = VaultOf(k, p, f, [honey |-> FALSE, notes |-> 0])
        /\ new.pk = None /\ new.decoy = None
    BY DEF NewRecord
  <2>3. [honey |-> FALSE, notes |-> 0] \in Contents
    BY ConstantsAssumption, SMT DEF Contents
  <2>4. new.vault.pw.uvk = k
    <3> HIDE DEF new
    <3> QED BY <2>2, <2>3, VaultOfOK
  <2> QED BY <2>1, <2>2, <2>4
<1>3. \A S, e : e \in Envelope(S, Keys) =>
          older(e) \in Envelope(S, Keys) /\ older(e).uvk = e.uvk
  BY <1>1, Zenon DEF Envelope, Kdfs
<1>4. pk \in Envelope({Prf}, Keys) \cup {None} /\ (pk # None => pk.uvk = k)
  BY SealedType DEF Kdfs
<1>5. r = [new EXCEPT !.vault.pw = older(@), !.vault.rec = older(@), !.pk = pk]
  BY DEF OlderRecord
<1> HIDE DEF new, older, pk
<1> DEFINE v == new.vault
<1>6. /\ new \in Records /\ v \in Vaults
      /\ v.pw \in Envelope(Passwords, Keys) /\ v.rec \in Envelope(Phrases, Keys)
  BY <1>2, RecordFields, VaultFields DEF Sealed
<1>7. r = [vault |-> [blob |-> v.blob, pw |-> older(v.pw), rec |-> older(v.rec)],
           pk |-> pk, decoy |-> None]
  BY <1>2, <1>5, <1>6 DEF Records, Vaults
<1>8. [blob |-> v.blob, pw |-> older(v.pw), rec |-> older(v.rec)] \in Vaults
  BY <1>3, <1>6 DEF Vaults
<1>9. r \in Records
  BY <1>4, <1>7, <1>8 DEF Records
<1>10. /\ r.vault.blob = v.blob /\ r.vault.pw.uvk = v.pw.uvk /\ r.vault.rec.uvk = v.rec.uvk
       /\ r.pk = pk /\ r.decoy = None
  BY <1>3, <1>6, <1>7
<1> QED BY <1>2, <1>4, <1>9, <1>10 DEF Sealed

-----------------------------------------------------------------------------
(* What the operations on a stored record make of it.                      *)

LEMMA NewBlob ==
  ASSUME NEW k \in Keys, NEW content \in Contents, NEW blob,
         blob = EncryptVaultPayload(content, k)
  PROVE  blob \in [key : Keys, content : Contents] /\ blob.key = k /\ blob.content = content
  BY DEF EncryptVaultPayload

WithVaultBlob(r, blob) == [r EXCEPT !.vault.blob = blob]
WithDecoyBlob(r, blob) == [r EXCEPT !.decoy.blob = blob]

(* A payload saved under the vault's key in the vault                      *)
(* (saveDemoVaultPayload).                                                 *)
LEMMA SavedInVault ==
  ASSUME NEW r, NEW U, Sealed(r, U), NEW content \in Contents, ~content.honey,
         NEW blob, blob = EncryptVaultPayload(content, r.vault.pw.uvk),
         NEW r2, r2 = WithVaultBlob(r, blob)
  PROVE  Sealed(r2, U) /\ r2.vault.pw = r.vault.pw /\ r2.decoy = r.decoy /\ r2.vault.blob = blob
<1>1. r \in Records /\ r.vault \in Vaults /\ r.vault.pw.uvk \in Keys
  BY RecordFields, VaultFields DEF Sealed
<1>2. /\ blob \in [key : Keys, content : Contents]
      /\ blob.key = r.vault.pw.uvk /\ blob.content = content
  BY <1>1, NewBlob
<1> DEFINE v == [blob |-> blob, pw |-> r.vault.pw, rec |-> r.vault.rec]
<1>3. r2 = [vault |-> v, pk |-> r.pk, decoy |-> r.decoy]
  BY <1>1 DEF WithVaultBlob, Records, Vaults
<1>4. v \in Vaults /\ v.blob = blob /\ v.pw = r.vault.pw /\ v.rec = r.vault.rec
  BY <1>1, <1>2 DEF Vaults
<1> HIDE DEF v
<1>5. r2 \in Records /\ r2.vault = v /\ r2.pk = r.pk /\ r2.decoy = r.decoy
  BY <1>1, <1>3, <1>4 DEF Records
<1> QED BY <1>2, <1>4, <1>5 DEF Sealed

(* Honey saved under another key in the decoy.                             *)
LEMMA SavedInDecoy ==
  ASSUME NEW r, NEW U, Sealed(r, U), r.decoy # None,
         NEW k \in Keys, k # r.vault.pw.uvk, NEW content \in Contents, content.honey,
         NEW blob, blob = EncryptVaultPayload(content, k),
         NEW r2, r2 = WithDecoyBlob(r, blob)
  PROVE  Sealed(r2, U) /\ r2.vault = r.vault /\ r2.decoy # None /\ r2.decoy.blob = blob
<1>1. r \in Records /\ r.decoy \in Vaults
  BY RecordFields DEF Sealed
<1>2. blob \in [key : Keys, content : Contents] /\ blob.key = k /\ blob.content = content
  BY NewBlob
<1> DEFINE v == [blob |-> blob, pw |-> r.decoy.pw, rec |-> r.decoy.rec]
<1>3. r2 = [vault |-> r.vault, pk |-> r.pk, decoy |-> v]
  BY <1>1 DEF WithDecoyBlob, Records, Vaults
<1>4. v \in Vaults /\ v.blob = blob /\ v.pw = r.decoy.pw /\ v.rec = r.decoy.rec
  BY <1>1, <1>2 DEF Vaults
<1> HIDE DEF v
<1>5. r2 \in Records /\ r2.vault = r.vault /\ r2.pk = r.pk /\ r2.decoy = v
  BY <1>1, <1>3, <1>4 DEF Records
<1>6. v # None
  BY <1>4, VaultFields
<1> QED BY <1>2, <1>4, <1>5, <1>6 DEF Sealed

(* A recovery envelope of the vault's key, put in place of the one there   *)
(* is (commitDemoRecoveryRotation).                                        *)
WithRecovery(r, e) == [r EXCEPT !.vault.rec = e]

LEMMA RecoveryReplaced ==
  ASSUME NEW r, NEW U, Sealed(r, U), NEW e \in Envelope(Phrases, Keys),
         e.uvk = r.vault.pw.uvk, NEW r2, r2 = WithRecovery(r, e)
  PROVE  /\ Sealed(r2, U) /\ r2.decoy = r.decoy
         /\ r2.vault.blob = r.vault.blob /\ r2.vault.pw = r.vault.pw
<1>1. r \in Records /\ r.vault \in Vaults
  BY RecordFields DEF Sealed
<1> DEFINE v == [blob |-> r.vault.blob, pw |-> r.vault.pw, rec |-> e]
<1>2. r2 = [vault |-> v, pk |-> r.pk, decoy |-> r.decoy]
  BY <1>1 DEF Records, Vaults, WithRecovery
<1>3. v \in Vaults /\ v.blob = r.vault.blob /\ v.pw = r.vault.pw /\ v.rec = e
  BY <1>1 DEF Vaults
<1> HIDE DEF v
<1>4. r2 \in Records /\ r2.vault = v /\ r2.pk = r.pk /\ r2.decoy = r.decoy
  BY <1>1, <1>2, <1>3 DEF Records
<1> QED BY <1>3, <1>4 DEF Sealed

(* A password envelope likewise (changeDemoVaultPassword).                 *)
LEMMA PasswordReplaced ==
  ASSUME NEW r, NEW U, Sealed(r, U), NEW e \in Envelope(Passwords, Keys),
         e.uvk = r.vault.pw.uvk, NEW r2, r2 = [r EXCEPT !.vault.pw = e]
  PROVE  /\ Sealed(r2, U) /\ r2.decoy = r.decoy
         /\ r2.vault.blob = r.vault.blob /\ r2.vault.pw = e
<1>1. r \in Records /\ r.vault \in Vaults
  BY RecordFields DEF Sealed
<1> DEFINE v == [blob |-> r.vault.blob, pw |-> e, rec |-> r.vault.rec]
<1>2. r2 = [vault |-> v, pk |-> r.pk, decoy |-> r.decoy]
  BY <1>1 DEF Records, Vaults
<1>3. v \in Vaults /\ v.blob = r.vault.blob /\ v.pw = e /\ v.rec = r.vault.rec
  BY <1>1 DEF Vaults
<1> HIDE DEF v
<1>4. r2 \in Records /\ r2.vault = v /\ r2.pk = r.pk /\ r2.decoy = r.decoy
  BY <1>1, <1>2, <1>3 DEF Records
<1> QED BY <1>3, <1>4 DEF Sealed

LEMMA UnlinkedOK ==
  ASSUME NEW r, NEW U, Sealed(r, U), NEW r2, r2 = [r EXCEPT !.pk = None]
  PROVE  Sealed(r2, U) /\ r2.vault = r.vault /\ r2.decoy = r.decoy
<1>1. r2 \in Records /\ r2.vault = r.vault /\ r2.pk = None /\ r2.decoy = r.decoy
  BY DEF Records, Sealed
<1> QED BY <1>1 DEF Sealed

LEMMA SealedLater ==
  ASSUME NEW r, NEW U, NEW V, Sealed(r, U), U \subseteq V
  PROVE  Sealed(r, V)
  BY DEF Sealed

-----------------------------------------------------------------------------
(* Rotations and upgrades (maybeUpgradePasswordEnvelope) by the session's  *)
(* key: a key is re-wrapped for its own session only.                      *)

LEMMA RewrapType ==
  ASSUME NEW S, NEW e \in Envelope(S, Keys), NEW secret, NEW new \in S, NEW k \in Keys,
         NEW made, made = RewrapEncryptedVaultKey(e, secret, new, k), made # None
  PROVE  made \in Envelope(S, Keys) /\ made.uvk = e.uvk /\ e.uvk = k
<1>1. made = EncryptField(e.uvk, new, "kdf-v2")
  BY DEF RewrapEncryptedVaultKey
<1>2. e.uvk \in Keys
  BY DEF Envelope
<1>3. e.uvk = k
  <2>1. ExtractInner(e, secret) # None /\ ExtractInner(e, secret).uvk = k
    BY DEF RewrapEncryptedVaultKey, RewrapInner, InnerMatches
  <2>2. ExtractInner(e, secret) = [uvk |-> e.uvk, raw |-> e.raw]
    BY <2>1 DEF ExtractInner
  <2> QED BY <2>1, <2>2
<1>4. EncryptField(e.uvk, new, "kdf-v2") \in Envelope(S, Keys)
      /\ EncryptField(e.uvk, new, "kdf-v2").uvk = e.uvk
  BY <1>2, SealedType DEF Kdfs
<1> QED BY <1>1, <1>3, <1>4

(* A password is changed to an envelope of the same key, which is the      *)
(* session's (rotateVaultPassword).                                        *)
LEMMA RotatedPassword ==
  ASSUME NEW e \in Envelope(Passwords, Keys), NEW k \in Keys, NEW current,
         NEW new \in Passwords, NEW p, NEW made,
         made = RotateVaultPassword(e, k, current, new, p), made # None
  PROVE  made \in Envelope(Passwords, Keys) /\ made.uvk = e.uvk /\ e.uvk = k
<1>1. made = RewrapEncryptedVaultKey(e, current, new, k)
  BY DEF RotateVaultPassword
<1> QED BY <1>1, RewrapType

(* A new recovery envelope holds the session's key, which is the one that  *)
(* the proof opened (rotateRecoveryPhrase).                                *)
LEMMA RotatedRecovery ==
  ASSUME NEW S, NEW e \in Envelope(S, Keys), NEW k \in Keys, NEW secret,
         NEW f \in Phrases, NEW p, NEW made,
         made = RotateRecoveryPhrase(e, secret, k, f, p), made # None
  PROVE  made \in Envelope(Phrases, Keys) /\ made.uvk = k /\ e.uvk = k
<1> DEFINE inner == RewrapInner(ExtractInner(e, secret), k)
<1>1. inner # None /\ made = CreateRecoveryEnvelope(k, f, inner)
  BY DEF RotateRecoveryPhrase
<1>2. ExtractInner(e, secret) # None /\ ExtractInner(e, secret).uvk = k
  BY <1>1 DEF RewrapInner, InnerMatches
<1>3. ExtractInner(e, secret) = [uvk |-> e.uvk, raw |-> e.raw]
  BY <1>2 DEF ExtractInner
<1>4. inner = [uvk |-> k, raw |-> FALSE] /\ e.uvk = k
  BY <1>1, <1>2, <1>3 DEF RewrapInner
<1> HIDE DEF inner
<1>5. MaterializeInner(k, FALSE, inner) = inner /\ inner.raw = FALSE
  BY <1>1, <1>4 DEF MaterializeInner, InnerMatches
<1>6. made = WrapUserVaultKey(k, FALSE, inner, f, "kdf-v2")
  BY <1>1 DEF CreateRecoveryEnvelope
<1>7. made = [EncryptField(k, f, "kdf-v2") EXCEPT !.raw = inner.raw]
  BY <1>1, <1>5, <1>6 DEF WrapUserVaultKey
<1> DEFINE s == EncryptField(k, f, "kdf-v2")
<1>8. s \in Envelope(Phrases, Keys) /\ s.uvk = k
  BY SealedType DEF Kdfs
<1> HIDE DEF s
<1>9. made = [s EXCEPT !.raw = FALSE]
  BY <1>5, <1>7 DEF s
<1>10. made \in Envelope(Phrases, Keys) /\ made.uvk = k
  BY <1>8, <1>9 DEF Envelope
<1> QED BY <1>4, <1>10

(* The key of a session cannot be exported, so nothing is linked           *)
(* (linkDemoPasskeyPrf).                                                   *)
LEMMA NothingLinked ==
  ASSUME NEW s
  PROVE  LinkDemoPasskeyPrf(s) = None
<1>1. MaterializeInner(s.key, FALSE, None) = None
  BY DEF MaterializeInner
<1>2. WrapUserVaultKey(s.key, FALSE, None, Prf, "none") = None
  BY <1>1 DEF WrapUserVaultKey
<1> QED BY <1>2 DEF LinkDemoPasskeyPrf, WithEnvelope

(* What is rewritten on the settings page is one envelope, made with the   *)
(* session's key when it is the password's.                                *)
LEMMA RewriteMade ==
  ASSUME NEW s, s.op \in Rewrites, s.key \in Keys, s.rec \in Records,
         s.op \in {"change", "upgrade_pw"} => s.secret \in Passwords,
         s.op = "change" => s.about \in Passwords,
         s.op = "upgrade_rec" => s.secret \in Phrases,
         NEW r, r = Rewrite(s), r # None
  PROVE  \E e :
           \/ /\ e \in Envelope(Passwords, Keys)
              /\ e.uvk = s.rec.vault.pw.uvk /\ s.key = s.rec.vault.pw.uvk
              /\ r = [s.rec EXCEPT !.vault.pw = e]
           \/ /\ e \in Envelope(Phrases, Keys) /\ e.uvk = s.rec.vault.rec.uvk
              /\ r = WithRecovery(s.rec, e)
<1> DEFINE pw == s.rec.vault.pw
           rec == s.rec.vault.rec
           changed == RotateVaultPassword(pw, s.key, s.secret, s.about, DefaultProfile)
           upgraded == MaybeUpgradePasswordEnvelope(pw, s.key, s.secret, DefaultProfile)
           recovery == MaybeUpgradeRecoveryEnvelope(rec, s.key, s.secret, DefaultProfile)
<1>1. pw \in Envelope(Passwords, Keys) /\ rec \in Envelope(Phrases, Keys)
  BY RecordFields, VaultFields
<1>3. CASE s.op = "change"
  <2>1. r = WithEnvelope(s.rec, "pw", changed)
    BY <1>3 DEF Rewrite, ChangeDemoVaultPassword
  <2> HIDE DEF changed
  <2>2. changed # None /\ r = [s.rec EXCEPT !.vault["pw"] = changed]
    BY <2>1 DEF WithEnvelope
  <2>3. changed \in Envelope(Passwords, Keys) /\ changed.uvk = pw.uvk /\ pw.uvk = s.key
    BY <1>1, <1>3, <2>2, RotatedPassword DEF changed
  <2> QED BY <2>2, <2>3
<1>4. CASE s.op = "upgrade_pw"
  <2>1. r = WithEnvelope(s.rec, "pw", upgraded)
    BY <1>4 DEF Rewrite, UpgradeDemoPasswordEnvelope
  <2> HIDE DEF upgraded
  <2>2. upgraded # None /\ r = [s.rec EXCEPT !.vault["pw"] = upgraded]
    BY <2>1 DEF WithEnvelope
  <2>3. upgraded \in Envelope(Passwords, Keys) /\ upgraded.uvk = pw.uvk /\ pw.uvk = s.key
    <3>1. upgraded = RewrapEncryptedVaultKey(pw, s.secret, s.secret, s.key)
      BY <2>2 DEF upgraded, MaybeUpgradePasswordEnvelope
    <3> HIDE DEF pw
    <3> QED BY <3>1, <1>1, <1>4, <2>2, RewrapType
  <2> QED BY <2>2, <2>3
<1>5. CASE s.op = "upgrade_rec"
  <2>1. r = WithEnvelope(s.rec, "rec", recovery)
    BY <1>5 DEF Rewrite, UpgradeDemoRecoveryEnvelope
  <2> HIDE DEF recovery
  <2>2. recovery # None /\ r = WithRecovery(s.rec, recovery)
    BY <2>1 DEF WithEnvelope, WithRecovery
  <2>3. recovery \in Envelope(Phrases, Keys) /\ recovery.uvk = rec.uvk
    <3>1. recovery = RewrapEncryptedVaultKey(rec, s.secret, s.secret, s.key)
      BY <2>2 DEF recovery, MaybeUpgradeRecoveryEnvelope
    <3> HIDE DEF rec
    <3> QED BY <3>1, <1>1, <1>5, <2>2, RewrapType
  <2> QED BY <2>2, <2>3
<1>6. CASE s.op = "link"
  BY <1>6, NothingLinked DEF Rewrite
<1> QED BY <1>3, <1>4, <1>5, <1>6 DEF Rewrites

(* The record keeps its key, its payload and its decoy, and only the       *)
(* vault's own key changes a password.                                     *)
LEMMA RewriteOK ==
  ASSUME NEW s, s.op \in Rewrites, s.key \in Keys, NEW U, Sealed(s.rec, U),
         s.op \in {"change", "upgrade_pw"} => s.secret \in Passwords,
         s.op = "change" => s.about \in Passwords,
         s.op = "upgrade_rec" => s.secret \in Phrases,
         NEW r, r = Rewrite(s), r # None
  PROVE  /\ Sealed(r, U) /\ r.decoy = s.rec.decoy
         /\ r.vault.blob = s.rec.vault.blob /\ r.vault.pw.uvk = s.rec.vault.pw.uvk
         /\ r.vault.pw = s.rec.vault.pw \/ s.key = s.rec.vault.pw.uvk
<1>1. s.rec \in Records /\ s.rec.vault.rec.uvk = s.rec.vault.pw.uvk
  BY DEF Sealed
<1>2. PICK e :
        \/ /\ e \in Envelope(Passwords, Keys)
           /\ e.uvk = s.rec.vault.pw.uvk /\ s.key = s.rec.vault.pw.uvk
           /\ r = [s.rec EXCEPT !.vault.pw = e]
        \/ /\ e \in Envelope(Phrases, Keys) /\ e.uvk = s.rec.vault.rec.uvk
           /\ r = WithRecovery(s.rec, e)
  BY <1>1, RewriteMade
<1> QED BY <1>1, <1>2, PasswordReplaced, RecoveryReplaced

-----------------------------------------------------------------------------
(* An envelope that opens yields its key; a payload opens with its own.    *)

LEMMA OpenedKey ==
  ASSUME NEW S, NEW e \in Envelope(S, Keys), NEW secret, NEW k,
         k = UnlockEnvelope(e, secret, DefaultProfile), k # None
  PROVE  k = e.uvk /\ k \in Keys
<1>1. k = e.uvk
  BY OpensUnderItsSecret
<1> QED BY <1>1 DEF Envelope

LEMMA DecryptOK ==
  ASSUME NEW r, NEW U, Sealed(r, U), NEW k, NEW emergency \in BOOLEAN,
         NEW content, content = DecryptForSession(r, k, emergency), content # None
  PROVE  /\ content \in Contents /\ content.honey = emergency
         /\ IF emergency THEN r.decoy # None /\ k # r.vault.pw.uvk ELSE k = r.vault.pw.uvk
<1>1. r \in Records /\ r.vault \in Vaults
  BY RecordFields DEF Sealed
<1>2. CASE emergency = FALSE
  <2>1. SessionEncryptedBlob(r, emergency) = r.vault.blob
    BY <1>2 DEF SessionEncryptedBlob
  <2>2. content = DecryptVaultPayload(r.vault.blob, k)
    BY <1>2, <2>1 DEF DecryptForSession
  <2>3. content = r.vault.blob.content /\ k = r.vault.blob.key
    BY <2>2 DEF DecryptVaultPayload
  <2>4. content \in Contents /\ content.honey \in BOOLEAN
    BY <1>1, <2>3, VaultFields DEF Contents
  <2>5. ~content.honey
    BY <2>3 DEF Sealed
  <2> QED BY <1>2, <2>3, <2>4, <2>5 DEF Sealed
<1>3. CASE emergency = TRUE
  <2>1. SessionEncryptedBlob(r, emergency) = (IF r.decoy = None THEN None ELSE r.decoy.blob)
    BY <1>3 DEF SessionEncryptedBlob
  <2>2. r.decoy # None /\ content = DecryptVaultPayload(r.decoy.blob, k)
    BY <1>3, <2>1 DEF DecryptForSession
  <2>3. content = r.decoy.blob.content /\ k = r.decoy.blob.key
    BY <2>2 DEF DecryptVaultPayload
  <2>4. r.decoy \in Vaults
    BY <1>1, <2>2, RecordFields
  <2>5. content \in Contents /\ content.honey \in BOOLEAN
    BY <2>3, <2>4, VaultFields DEF Contents
  <2>6. content.honey
    BY <2>2, <2>3 DEF Sealed
  <2> QED BY <1>3, <2>2, <2>3, <2>5, <2>6 DEF Sealed
<1> QED BY <1>2, <1>3

-----------------------------------------------------------------------------
(* Frames.                                                                 *)

LEMMA HeldSteady ==
  ASSUME HeldInv, UNCHANGED <<store, enabled, session, view>>,
         used' \in SUBSET (Keys \cup Phrases), used \subseteq used'
  PROVE  HeldInv'
<1>1. /\ record' = record /\ meta' = meta /\ enabled' = enabled
      /\ key' = key /\ role' = role /\ pin' = pin
      /\ page' = page /\ payload' = payload /\ loading' = loading /\ load' = load
      /\ pending' = pending
  BY DEF store, session, view
<1>2. VariablesOK'
  BY <1>1 DEF HeldInv, VariablesOK
<1>3. RecordInv'
  BY <1>1, SealedLater DEF HeldInv, RecordInv, RecordOK
<1>4. SessionInv'
  BY <1>1 DEF HeldInv, SessionInv
<1>5. ViewInv'
  BY <1>1 DEF HeldInv, ViewInv, Shows
<1>6. PendingInv'
  BY <1>1 DEF HeldInv, PendingInv
<1> QED BY <1>2, <1>3, <1>4, <1>5, <1>6 DEF HeldInv

(* The stored record is replaced by one with the same key, under the       *)
(* same session.                                                           *)
LEMMA HeldRestored ==
  ASSUME HeldInv, record # None,
         Sealed(record', used'), used \subseteq used', used' \in SUBSET (Keys \cup Phrases),
         record'.vault.pw.uvk = record.vault.pw.uvk,
         record.decoy # None => record'.decoy # None,
         meta' \in [active : BOOLEAN, sequence : BOOLEAN], meta'.active = meta.active,
         UNCHANGED <<enabled, session, page, loading, load>>,
         payload' # None => page = "vault" /\ Shows(payload', key),
         pending' # None => /\ pending' \in Envelope(Phrases, Keys) /\ page = "settings"
                            /\ pending'.uvk = record.vault.pw.uvk
  PROVE  HeldInv'
<1>1. /\ enabled' = enabled /\ key' = key /\ role' = role /\ pin' = pin
      /\ page' = page /\ loading' = loading /\ load' = load
  BY DEF session
<1>2. VariablesOK'
  BY <1>1 DEF HeldInv, VariablesOK
<1>3. RecordInv' /\ record' # None
  BY RecordFields DEF RecordInv, RecordOK, Sealed
<1>4. SessionInv'
  BY <1>1, <1>3 DEF HeldInv, SessionInv
<1>5. \A content, k : Shows(content, k) => Shows(content, k)'
  BY <1>1, <1>3 DEF Shows
<1>6. ViewInv'
  <2>1. payload' # None => page' = "vault" /\ Shows(payload, key)'
    <3> SUFFICES ASSUME payload' # None PROVE page' = "vault" /\ Shows(payload, key)'
      OBVIOUS
    <3>1. PICK p, k : p = payload' /\ k = key'
      OBVIOUS
    <3>2. Shows(p, k)'
      BY <3>1, <1>1, <1>5
    <3> QED BY <3>1, <3>2, <1>1 DEF Shows
  <2>2. load' # None => /\ page' = "vault" /\ key' # None /\ load'.read
                        /\ load'.result # None => Shows(load.result, key)'
    BY <1>1, <1>3 DEF HeldInv, ViewInv, Shows
  <2> QED BY <2>1, <2>2 DEF ViewInv
<1>7. PendingInv'
  BY <1>1 DEF HeldInv, PendingInv
<1> QED BY <1>2, <1>3, <1>4, <1>6, <1>7 DEF HeldInv

(* Of the awaited calls one begins, goes on or ends; the others stay.      *)
LEMMA CallsBegin ==
  ASSUME CallsInv, NEW c \in Calls, NEW s,
         calls' = [calls EXCEPT ![c] = s], s # None => CallOK(s)',
         used \subseteq used', page' = page
  PROVE  CallsInv'
<1>1. calls' = [x \in Calls |-> IF x = c THEN s ELSE calls[x]]
  BY DEF CallsInv
<1>2. ASSUME NEW x \in Calls, calls'[x] # None PROVE CallOK(calls[x])'
  <2>1. CASE x = c
    <3>1. calls'[x] = s
      BY <1>1, <2>1
    <3> QED BY <1>2, <3>1
  <2>2. CASE x # c
    <3>1. PICK s2 : s2 = calls[x]
      OBVIOUS
    <3>2. calls'[x] = s2
      BY <1>1, <2>2, <3>1
    <3>3. CallBase(s2) /\ CallAbout(s2) /\ CallPage(s2)
      BY <1>2, <3>1, <3>2 DEF CallsInv, CallOK
    <3>4. CallBase(s2)'
      BY <3>3, SealedLater DEF CallBase, RecordOK
    <3>5. CallPage(s2)'
      BY <3>3 DEF CallPage
    <3> QED BY <3>2, <3>3, <3>4, <3>5 DEF CallOK
  <2> QED BY <2>1, <2>2
<1>3. calls' = [x \in Calls |-> calls'[x]]
  BY <1>1
<1> QED BY <1>2, <1>3 DEF CallsInv

LEMMA CallsEnd ==
  ASSUME CallsInv, NEW c \in Calls, End(c), used \subseteq used', page' = page
  PROVE  CallsInv'
BY CallsBegin DEF End

LEMMA CallsSteady ==
  ASSUME CallsInv, calls' = calls, used \subseteq used', page' = page
  PROVE  CallsInv'
<1>1. ASSUME NEW c \in Calls, calls[c] # None PROVE CallOK(calls[c])'
  <2>1. PICK s : s = calls[c]
    OBVIOUS
  <2>2. CallBase(s) /\ CallAbout(s) /\ CallPage(s)
    BY <1>1, <2>1 DEF CallsInv, CallOK
  <2>3. CallBase(s)'
    BY <2>2, SealedLater DEF CallBase, RecordOK
  <2>4. CallPage(s)'
    BY <2>2 DEF CallPage
  <2>5. s = calls'[c]
    BY <2>1
  <2> QED BY <2>2, <2>3, <2>4, <2>5 DEF CallOK
<1> QED BY <1>1 DEF CallsInv

LEMMA TheCall ==
  ASSUME DemoInv, NEW c \in Calls, calls[c] # None
  PROVE  CallOK(calls[c])
  BY DEF DemoInv, CallsInv

(* A call that begins takes the record and the key of the moment.          *)
MayBegin(op) ==
  /\ op \in Opens \cup Under \cup {"exit"}
  /\ op \in Under => key # None
  /\ op # "create" => record # None
  /\ op = "save" => page = "vault"
  /\ op = "generate" => page = "settings"

LEMMA BegunCall ==
  ASSUME HeldInv, NEW op, MayBegin(op), NEW secret, NEW about, NEW s,
         s = [op |-> op, rec |-> record, key |-> key, secret |-> secret,
              about |-> about, mounted |-> TRUE]
  PROVE  CallBase(s) /\ CallPage(s)
<1>1. /\ s.op = op /\ s.rec = record /\ s.key = key /\ s.secret = secret
      /\ s.about = about /\ s.mounted = TRUE
  OBVIOUS
<1>2. Call(s)
  BY <1>1 DEF Call
<1>3. s.op \in Under => s.key \in Keys
  BY <1>1 DEF HeldInv, VariablesOK, MayBegin
<1>4. s.op # "create" => RecordOK(s.rec)
  BY <1>1 DEF HeldInv, RecordInv, MayBegin
<1> QED BY <1>1, <1>2, <1>3, <1>4 DEF CallBase, CallPage, MayBegin

LEMMA BeginKeeps ==
  ASSUME DemoInv, NEW c \in Calls, NEW op, NEW secret, NEW about,
         MayBegin(op), Begin(c, op, secret, about),
         \A s : s = [op |-> op, rec |-> record, key |-> key, secret |-> secret,
                     about |-> about, mounted |-> TRUE] => CallAbout(s)
  PROVE  DemoInv'
<1>1. PICK s : s = [op |-> op, rec |-> record, key |-> key, secret |-> secret,
                    about |-> about, mounted |-> TRUE]
  OBVIOUS
<1>2. UNCHANGED <<store, enabled, session, view>> /\ used' = used
  BY DEF Begin
<1>3. CallAbout(s)
  BY <1>1
<1>4. CallBase(s) /\ CallPage(s)
  BY <1>1, BegunCall DEF DemoInv
<1>5. calls' = [calls EXCEPT ![c] = s]
  BY <1>1 DEF Begin
<1>6. HeldInv'
  BY <1>2, HeldSteady DEF DemoInv, HeldInv, VariablesOK
<1>7. page' = page
  BY <1>2 DEF view
<1>8. CallBase(s)' /\ CallPage(s)'
  BY <1>2, <1>4, <1>7 DEF CallBase, CallPage, RecordOK
<1> QED BY <1>2, <1>3, <1>5, <1>6, <1>7, <1>8, CallsBegin DEF DemoInv, CallOK

-----------------------------------------------------------------------------
(* The operations begin.                                                   *)

LEMMA BeginOpening ==
  ASSUME DemoInv, NEW c \in Calls, NEW p \in Passwords,
         StartCreate(c, p) \/ StartUnlock(c, p)
  PROVE  DemoInv'
<1>1. CASE StartCreate(c, p)
  <2>1. /\ page = "setup" /\ record = None /\ key = None
        /\ Begin(c, "create", p, None)
    BY <1>1 DEF StartCreate, DemoInv, HeldInv, SessionInv
  <2>2. ASSUME NEW s, s = [op |-> "create", rec |-> record, key |-> key, secret |-> p,
                           about |-> None, mounted |-> TRUE]
        PROVE  CallAbout(s)
    <3>1. s.op = "create" /\ s.secret = p
      BY <2>2
    <3> QED BY <3>1 DEF CallAbout
  <2>3. MayBegin("create")
    BY <2>1 DEF MayBegin, Opens, Under, Rewrites
  <2> QED BY <2>1, <2>2, <2>3, BeginKeeps
<1>2. CASE StartUnlock(c, p)
  <2> DEFINE target == UnlockTarget(meta.sequence /\ p \in DuressPasswords)
             about == [role |-> target,
                       envelope |-> IF target = "decoy" THEN record.decoy.pw ELSE record.vault.pw]
  <2>1. /\ record # None /\ key = None /\ (target = "decoy" => record.decoy # None)
        /\ Begin(c, "unlock", p, about)
    BY <1>2 DEF StartUnlock
  <2>2. target \in {"primary", "decoy"}
    BY DEF UnlockTarget
  <2>3. record \in Records
    BY <2>1 DEF DemoInv, HeldInv, RecordInv, RecordOK, Sealed
  <2>4. /\ record.vault.pw \in Envelope(Passwords, Keys)
        /\ record.decoy # None => record.decoy.pw \in Envelope(Passwords, Keys)
    BY <2>3, RecordFields, VaultFields
  <2>5. \A e : e \in Envelope(Passwords, Keys) => e \in Envelope(Passwords \cup {Prf}, Keys)
    BY DEF Envelope
  <2> HIDE DEF target
  <2>6. /\ about.role \in {"primary", "decoy"}
        /\ about.envelope \in Envelope(Passwords \cup {Prf}, Keys)
        /\ about.role = "primary" => about.envelope.uvk = record.vault.pw.uvk
    BY <2>1, <2>2, <2>4, <2>5
  <2> HIDE DEF about
  <2>7. ASSUME NEW s, s = [op |-> "unlock", rec |-> record, key |-> key, secret |-> p,
                           about |-> about, mounted |-> TRUE]
        PROVE  CallAbout(s)
    <3>1. s.op = "unlock" /\ s.about = about /\ s.rec = record
      BY <2>7
    <3> QED BY <3>1, <2>6 DEF CallAbout
  <2>8. MayBegin("unlock")
    BY <2>1 DEF MayBegin, Opens, Under, Rewrites
  <2> QED BY <2>1, <2>7, <2>8, BeginKeeps
<1> QED BY <1>1, <1>2

LEMMA BeginPasskey ==
  ASSUME DemoInv, NEW c \in Calls, NEW d \in BOOLEAN, StartPasskey(c, d)
  PROVE  DemoInv'
<1>1. /\ record # None /\ key = None /\ record.pk # None
      /\ Begin(c, "passkey", Prf, [duress |-> d])
  BY DEF StartPasskey
<1>2. ASSUME NEW s, s = [op |-> "passkey", rec |-> record, key |-> key, secret |-> Prf,
                         about |-> [duress |-> d], mounted |-> TRUE]
      PROVE  CallAbout(s)
  <2>1. s.op = "passkey" /\ s.rec = record
    BY <1>2
  <2> QED BY <2>1, <1>1 DEF CallAbout
<1>3. MayBegin("passkey")
  BY <1>1 DEF MayBegin, Opens, Under, Rewrites
<1> QED BY <1>1, <1>2, <1>3, BeginKeeps

LEMMA BeginRecovery ==
  ASSUME DemoInv, NEW c \in Calls, NEW f, StartRecovery(c, f)
  PROVE  DemoInv'
<1>1. /\ record # None /\ key = None
      /\ Begin(c, "recover", f, None)
  BY DEF StartRecovery
<1>2. ASSUME NEW s, s = [op |-> "recover", rec |-> record, key |-> key, secret |-> f,
                         about |-> None, mounted |-> TRUE]
      PROVE  CallAbout(s)
  <2>1. s.op = "recover"
    BY <1>2
  <2> QED BY <2>1, <1>1 DEF CallAbout
<1>3. MayBegin("recover")
  BY <1>1 DEF MayBegin, Opens, Under, Rewrites
<1> QED BY <1>1, <1>2, <1>3, BeginKeeps

LEMMA BeginExit ==
  ASSUME DemoInv, NEW c \in Calls, NEW f, StartExit(c, f)
  PROVE  DemoInv'
<1>1. /\ record # None
      /\ Begin(c, "exit", f, None)
  BY DEF StartExit
<1>2. ASSUME NEW s, s = [op |-> "exit", rec |-> record, key |-> key, secret |-> f,
                         about |-> None, mounted |-> TRUE]
      PROVE  CallAbout(s)
  <2>1. s.op = "exit"
    BY <1>2
  <2> QED BY <2>1, <1>1 DEF CallAbout
<1>3. MayBegin("exit")
  BY <1>1 DEF MayBegin, Opens, Under, Rewrites
<1> QED BY <1>1, <1>2, <1>3, BeginKeeps

LEMMA BeginEnroll ==
  ASSUME DemoInv, NEW c \in Calls, NEW p \in Passwords, StartEnroll(c, p)
  PROVE  DemoInv'
<1>1. /\ record # None /\ key # None
      /\ Begin(c, "enroll", p, None)
  BY DEF StartEnroll, OnSettings
<1>2. ASSUME NEW s, s = [op |-> "enroll", rec |-> record, key |-> key, secret |-> p,
                         about |-> None, mounted |-> TRUE]
      PROVE  CallAbout(s)
  <2>1. s.op = "enroll" /\ s.secret = p
    BY <1>2
  <2> QED BY <2>1, <1>1 DEF CallAbout
<1>3. MayBegin("enroll")
  BY <1>1 DEF MayBegin, Opens, Under, Rewrites
<1> QED BY <1>1, <1>2, <1>3, BeginKeeps

LEMMA BeginChange ==
  ASSUME DemoInv, NEW c \in Calls, NEW p \in Passwords, NEW q \in Passwords, StartChange(c, p, q)
  PROVE  DemoInv'
<1>1. /\ record # None /\ key # None
      /\ Begin(c, "change", p, q)
  BY DEF StartChange, OnSettings
<1>2. ASSUME NEW s, s = [op |-> "change", rec |-> record, key |-> key, secret |-> p,
                         about |-> q, mounted |-> TRUE]
      PROVE  CallAbout(s)
  <2>1. s.op = "change" /\ s.secret = p /\ s.about = q
    BY <1>2
  <2> QED BY <2>1, <1>1 DEF CallAbout
<1>3. MayBegin("change")
  BY <1>1 DEF MayBegin, Opens, Under, Rewrites
<1> QED BY <1>1, <1>2, <1>3, BeginKeeps

LEMMA BeginUpgrade ==
  ASSUME DemoInv, NEW c \in Calls, NEW p \in Passwords, StartUpgrade(c, p)
  PROVE  DemoInv'
<1>1. /\ record # None /\ key # None
      /\ Begin(c, "upgrade_pw", p, None)
  BY DEF StartUpgrade, OnSettings
<1>2. ASSUME NEW s, s = [op |-> "upgrade_pw", rec |-> record, key |-> key, secret |-> p,
                         about |-> None, mounted |-> TRUE]
      PROVE  CallAbout(s)
  <2>1. s.op = "upgrade_pw" /\ s.secret = p
    BY <1>2
  <2> QED BY <2>1, <1>1 DEF CallAbout
<1>3. MayBegin("upgrade_pw")
  BY <1>1 DEF MayBegin, Opens, Under, Rewrites
<1> QED BY <1>1, <1>2, <1>3, BeginKeeps

LEMMA BeginUpgradeRecovery ==
  ASSUME DemoInv, NEW c \in Calls, NEW f \in Phrases, StartUpgradeRecovery(c, f)
  PROVE  DemoInv'
<1>1. /\ record # None /\ key # None
      /\ Begin(c, "upgrade_rec", f, None)
  BY DEF StartUpgradeRecovery, OnSettings
<1>2. ASSUME NEW s, s = [op |-> "upgrade_rec", rec |-> record, key |-> key, secret |-> f,
                         about |-> None, mounted |-> TRUE]
      PROVE  CallAbout(s)
  <2>1. s.op = "upgrade_rec" /\ s.secret = f
    BY <1>2
  <2> QED BY <2>1, <1>1 DEF CallAbout
<1>3. MayBegin("upgrade_rec")
  BY <1>1 DEF MayBegin, Opens, Under, Rewrites
<1> QED BY <1>1, <1>2, <1>3, BeginKeeps

LEMMA BeginLink ==
  ASSUME DemoInv, NEW c \in Calls, StartLink(c)
  PROVE  DemoInv'
<1>1. /\ record # None /\ key # None
      /\ Begin(c, "link", None, None)
  BY DEF StartLink, OnSettings
<1>2. ASSUME NEW s, s = [op |-> "link", rec |-> record, key |-> key, secret |-> None,
                         about |-> None, mounted |-> TRUE]
      PROVE  CallAbout(s)
  <2>1. s.op = "link"
    BY <1>2
  <2> QED BY <2>1, <1>1 DEF CallAbout
<1>3. MayBegin("link")
  BY <1>1 DEF MayBegin, Opens, Under, Rewrites
<1> QED BY <1>1, <1>2, <1>3, BeginKeeps

LEMMA BeginGenerate ==
  ASSUME DemoInv, NEW c \in Calls, NEW p, StartGenerate(c, p)
  PROVE  DemoInv'
<1>1. /\ record # None /\ key # None /\ page = "settings"
      /\ Begin(c, "generate", p, None)
  BY DEF StartGenerate, OnSettings
<1>2. ASSUME NEW s, s = [op |-> "generate", rec |-> record, key |-> key, secret |-> p,
                         about |-> None, mounted |-> TRUE]
      PROVE  CallAbout(s)
  <2>1. s.op = "generate"
    BY <1>2
  <2> QED BY <2>1, <1>1 DEF CallAbout
<1>3. MayBegin("generate")
  BY <1>1 DEF MayBegin, Opens, Under, Rewrites
<1> QED BY <1>1, <1>2, <1>3, BeginKeeps

LEMMA BeginDelete ==
  ASSUME DemoInv, NEW c \in Calls, NEW p, StartDelete(c, p)
  PROVE  DemoInv'
<1>1. /\ record # None /\ key # None
      /\ Begin(c, "delete", p, None)
  BY DEF StartDelete, OnSettings
<1>2. ASSUME NEW s, s = [op |-> "delete", rec |-> record, key |-> key, secret |-> p,
                         about |-> None, mounted |-> TRUE]
      PROVE  CallAbout(s)
  <2>1. s.op = "delete"
    BY <1>2
  <2> QED BY <2>1, <1>1 DEF CallAbout
<1>3. MayBegin("delete")
  BY <1>1 DEF MayBegin, Opens, Under, Rewrites
<1> QED BY <1>1, <1>2, <1>3, BeginKeeps

(* What is saved is what the page shows, with one note more.               *)
LEMMA BeginSave ==
  ASSUME DemoInv, NEW c \in Calls, StartSave(c)
  PROVE  DemoInv'
<1>1. PICK about : about = [payload EXCEPT !.notes = @ + 1]
  OBVIOUS
<1>2. /\ page = "vault" /\ key # None /\ record # None
      /\ payload # None /\ payload.notes < MaxNotes
      /\ Begin(c, "save", None, about)
  BY <1>1 DEF StartSave
<1>3. Shows(payload, key)
  BY <1>2 DEF DemoInv, HeldInv, ViewInv
<1>4. about \in Contents /\ about.honey = payload.honey
  <2>1. payload \in [honey : BOOLEAN, notes : 0..MaxNotes]
    BY <1>3 DEF Shows, Contents
  <2>2. payload.notes + 1 \in 0..MaxNotes
    BY <2>1, <1>2, ConstantsAssumption, SMT
  <2> QED BY <1>1, <2>1, <2>2 DEF Contents
<1>5. IF about.honey THEN record.decoy # None /\ key # record.vault.pw.uvk
                    ELSE key = record.vault.pw.uvk
  BY <1>3, <1>4 DEF Shows
<1>6. ASSUME NEW s, s = [op |-> "save", rec |-> record, key |-> key, secret |-> None,
                         about |-> about, mounted |-> TRUE]
      PROVE  CallAbout(s)
  <2>1. s.op = "save" /\ s.about = about /\ s.key = key /\ s.rec = record
    BY <1>6
  <2> QED BY <2>1, <1>4, <1>5 DEF CallAbout
<1>7. MayBegin("save")
  BY <1>2 DEF MayBegin, Opens, Under, Rewrites
<1> QED BY <1>2, <1>6, <1>7, BeginKeeps

-----------------------------------------------------------------------------
(* The session is installed, replaced by nothing, and forgotten.           *)

LEMMA HiddenWhenLocked ==
  ASSUME HeldInv, key = None \/ page # "vault"
  PROVE  payload = None /\ (key = None \/ page # "vault" => load = None)
  BY NoneAssumption DEF HeldInv, ViewInv, Shows

(* setUserVaultKeyMemory on a locked session: the vault page, if it is     *)
(* there, decrypts in the mode the session is in from now on.              *)
LEMMA InstallKeeps ==
  ASSUME HeldInv, key = None, record # None, NEW k \in Keys, NEW r \in {"primary", "decoy"},
         InstallSession(k, r), record' = record, enabled' = enabled, used' = used,
         meta' \in [active : BOOLEAN, sequence : BOOLEAN],
         meta'.active => meta.active \/ r = "decoy", r = "decoy" => meta'.active,
         r = "primary" => k = record.vault.pw.uvk
  PROVE  HeldInv'
<1>1. /\ key' = k /\ role' = r /\ pin' = (pin \/ r = "decoy")
      /\ page' = page /\ payload' = payload /\ pending' = pending
  BY DEF InstallSession
<1>2. payload = None /\ load = None /\ k # None
  BY HiddenWhenLocked, NoneAssumption
<1>3. CASE page = "vault"
  <2>1. /\ loading' = TRUE
        /\ load' = [read |-> TRUE,
                    result |-> DecryptForSession(record', key', pin' \/ role' = "decoy")]
    BY <1>3 DEF InstallSession, Refresh
  <2>2. VariablesOK'
    BY <1>1, <2>1 DEF HeldInv, VariablesOK
  <2>3. SessionInv'
    BY <1>1, <1>2 DEF HeldInv, SessionInv
  <2>4. pin' \in BOOLEAN /\ (pin' \/ role' = "decoy") = pin'
    BY <1>1, <2>2 DEF VariablesOK
  <2>5. PICK content : content = DecryptForSession(record, k, pin')
    OBVIOUS
  <2>6. load' = [read |-> TRUE, result |-> content]
    BY <1>1, <2>1, <2>4, <2>5
  <2>7. Sealed(record, used)
    BY DEF HeldInv, RecordInv, RecordOK
  <2>8. content # None => /\ content \in Contents /\ content.honey = pin'
                          /\ IF pin' THEN record.decoy # None /\ k # record.vault.pw.uvk
                                     ELSE k = record.vault.pw.uvk
    <3>1. PICK emergency \in BOOLEAN : emergency = pin'
      BY <2>4
    <3> QED BY <3>1, <2>5, <2>7, DecryptOK
  <2>9. load'.read = TRUE /\ load'.result = content
    BY <2>6
  <2>10. ViewInv'
    BY <1>1, <1>2, <1>3, <2>8, <2>9 DEF ViewInv, Shows
  <2>11. RecordInv' /\ PendingInv'
    BY <1>1, <1>3 DEF HeldInv, RecordInv, RecordOK, PendingInv
  <2> QED BY <2>2, <2>3, <2>10, <2>11 DEF HeldInv
<1>4. CASE page # "vault"
  <2>1. loading' = loading /\ load' = load
    BY <1>4 DEF InstallSession
  <2>2. VariablesOK' /\ RecordInv' /\ PendingInv'
    BY <1>1, <2>1 DEF HeldInv, VariablesOK, RecordInv, RecordOK, PendingInv
  <2>3. SessionInv'
    BY <1>1, <1>2 DEF HeldInv, SessionInv
  <2>4. ViewInv'
    BY <1>1, <1>2, <2>1 DEF ViewInv
  <2> QED BY <2>2, <2>3, <2>4 DEF HeldInv
<1> QED BY <1>3, <1>4

LEMMA LockKeeps ==
  ASSUME Orderly, HeldInv, LockSession, record' \in {record, None},
         enabled' = enabled, used' = used, pin' \in BOOLEAN,
         meta' \in [active : BOOLEAN, sequence : BOOLEAN],
         enabled /\ meta'.active => pin'
  PROVE  HeldInv'
<1>1. /\ key' = None /\ role' = "none" /\ page' = page /\ pending' = pending
      /\ load' = load
  BY DEF LockSession
<1>7. load = None
  BY <1>1 DEF Orderly, HeldInv, ViewInv
<1>2. payload' = None /\ loading' \in BOOLEAN
  BY HiddenWhenLocked DEF LockSession, HeldInv, VariablesOK
<1>3. VariablesOK'
  BY <1>1, <1>2 DEF HeldInv, VariablesOK
<1>4. RecordInv' /\ PendingInv'
  BY <1>1 DEF HeldInv, RecordInv, RecordOK, PendingInv
<1>5. SessionInv'
  BY <1>1 DEF SessionInv
<1>6. ViewInv'
  BY <1>1, <1>2, <1>7 DEF ViewInv
<1> QED BY <1>3, <1>4, <1>5, <1>6 DEF HeldInv

LEMMA LockStep ==
  ASSUME Orderly, DemoInv, Lock
  PROVE  DemoInv'
<1>1. /\ LockSession /\ record' = record /\ meta' = meta /\ enabled' = enabled
      /\ pin' = pin /\ calls' = calls /\ used' = used
  BY DEF Lock, store
<1>2. HeldInv'
  BY <1>1, LockKeeps DEF DemoInv, HeldInv, VariablesOK, SessionInv
<1>3. page' = page
  BY <1>1 DEF LockSession
<1> QED BY <1>1, <1>2, <1>3, CallsSteady DEF DemoInv

-----------------------------------------------------------------------------
(* The calls end.                                                          *)

(* A call that ends without touching anything.                             *)
LEMMA DroppedStep ==
  ASSUME DemoInv, NEW c \in Calls, End(c),
         UNCHANGED <<store, enabled, session, view, used>>
  PROVE  DemoInv'
<1>1. HeldInv'
  BY HeldSteady DEF DemoInv, HeldInv, VariablesOK
<1> QED BY <1>1, CallsEnd DEF DemoInv, view

(* A call that goes on as another operation, with its record or another.   *)
LEMMA CallGoesOnWith ==
  ASSUME NEW s, Call(s), NEW op, NEW rec, NEW about,
         NEW s2, s2 = [op |-> op, rec |-> rec, key |-> s.key, secret |-> s.secret,
                       about |-> about, mounted |-> s.mounted]
  PROVE  [[[s EXCEPT !.op = op] EXCEPT !.rec = rec] EXCEPT !.about = about] = s2
<1> DEFINE fields(o, r, a) ==
             [op |-> o, rec |-> r, key |-> s.key, secret |-> s.secret,
              about |-> a, mounted |-> s.mounted]
<1>1. s = fields(s.op, s.rec, s.about) /\ s2 = fields(op, rec, about)
  BY DEF Call
<1>2. \A o, r, a, x : /\ [fields(o, r, a) EXCEPT !.op = x] = fields(x, r, a)
                      /\ [fields(o, r, a) EXCEPT !.rec = x] = fields(o, x, a)
                      /\ [fields(o, r, a) EXCEPT !.about = x] = fields(o, r, x)
  OBVIOUS
<1> HIDE DEF fields
<1>3. /\ [s EXCEPT !.op = op] = fields(op, s.rec, s.about)
      /\ [fields(op, s.rec, s.about) EXCEPT !.rec = rec] = fields(op, rec, s.about)
      /\ [fields(op, rec, s.about) EXCEPT !.about = about] = fields(op, rec, about)
  BY <1>1, <1>2
<1> QED BY <1>1, <1>3

LEMMA CallGoesOn ==
  ASSUME NEW s, Call(s), NEW op, NEW about
  PROVE  [[s EXCEPT !.op = op] EXCEPT !.about = about]
           = [op |-> op, rec |-> s.rec, key |-> s.key, secret |-> s.secret,
              about |-> about, mounted |-> s.mounted]
<1> DEFINE fields(o, a) ==
             [op |-> o, rec |-> s.rec, key |-> s.key, secret |-> s.secret,
              about |-> a, mounted |-> s.mounted]
<1>1. s = fields(s.op, s.about)
  BY DEF Call
<1>2. \A o, a, x : /\ [fields(o, a) EXCEPT !.op = x] = fields(x, a)
                   /\ [fields(o, a) EXCEPT !.about = x] = fields(o, x)
  OBVIOUS
<1> HIDE DEF fields
<1>3. /\ [s EXCEPT !.op = op] = fields(op, s.about)
      /\ [fields(op, s.about) EXCEPT !.about = about] = fields(op, about)
  BY <1>1, <1>2
<1>4. [[s EXCEPT !.op = op] EXCEPT !.about = about] = fields(op, about)
  BY <1>3
<1> QED BY <1>4 DEF fields

(* createDemoVault stores the record; nothing of an older vault is left.   *)
LEMMA CreatedStep ==
  ASSUME DemoInv, NEW c \in Calls, Current(calls[c]), Created(c)
  PROVE  DemoInv'
<1>1. PICK s : s = calls[c]
  OBVIOUS
<1>2. CallBase(s) /\ CallAbout(s) /\ s.op = "create"
  BY <1>1, TheCall DEF Created, Awaited, CallOK
<1>3. record = None /\ pending = None /\ s.secret \in Passwords /\ key = None
  BY <1>1, <1>2 DEF CallAbout, Current, DemoInv, HeldInv, SessionInv
<1>4. PICK k \in Keys \ used, f \in Phrases \ used :
        /\ record' = NewRecord(k, s.secret, f)
        /\ used' = used \cup {k, f}
        /\ calls' = [calls EXCEPT ![c].op = "created", ![c].rec = record',
                                  ![c].about = record'.vault.pw]
  BY <1>1 DEF Created
<1>5. /\ meta' = meta /\ enabled' = enabled /\ key' = key /\ role' = role /\ pin' = pin
      /\ page' = page /\ payload' = payload /\ loading' = loading /\ load' = load
      /\ pending' = pending
  BY DEF Created, session, view
<1>6. PICK r : r = NewRecord(k, s.secret, f)
  OBVIOUS
<1>7. /\ Sealed(r, used') /\ r # None
      /\ UnlockEnvelope(r.vault.pw, s.secret, DefaultProfile) = r.vault.pw.uvk
  <2>1. k \in used'
    BY <1>4
  <2>2. Sealed(r, used')
        /\ UnlockEnvelope(r.vault.pw, s.secret, DefaultProfile) = r.vault.pw.uvk
    BY <1>3, <1>6, <2>1, NewRecordOK
  <2> QED BY <2>2, RecordFields DEF Sealed
<1>8. record' = r
  BY <1>4, <1>6
<1>9. HeldInv'
  <2>1. payload = None /\ load = None /\ pending = None
    BY <1>3, HiddenWhenLocked DEF DemoInv
  <2>2. VariablesOK'
    BY <1>4, <1>5 DEF DemoInv, HeldInv, VariablesOK
  <2>3. RecordInv'
    BY <1>7, <1>8 DEF RecordInv, RecordOK
  <2>4. SessionInv'
    BY <1>3, <1>5 DEF DemoInv, HeldInv, SessionInv
  <2>5. ViewInv' /\ PendingInv'
    BY <1>5, <2>1 DEF ViewInv, PendingInv
  <2> QED BY <2>2, <2>3, <2>4, <2>5 DEF HeldInv
<1>10. PICK s2 : s2 = [op |-> "created", rec |-> r, key |-> s.key, secret |-> s.secret,
                       about |-> r.vault.pw, mounted |-> s.mounted]
  OBVIOUS
<1>11. calls' = [calls EXCEPT ![c] = s2]
  <2>1. calls = [x \in Calls |-> calls[x]] /\ Call(s)
    BY <1>2 DEF DemoInv, CallsInv, CallBase
  <2>2. PICK a : a = r.vault.pw
    OBVIOUS
  <2>3. calls' = [calls EXCEPT ![c] = [[[calls[c] EXCEPT !.op = "created"]
                                          EXCEPT !.rec = r] EXCEPT !.about = a]]
    BY <1>4, <1>8, <2>1, <2>2
  <2>4. s2 = [op |-> "created", rec |-> r, key |-> s.key, secret |-> s.secret,
              about |-> a, mounted |-> s.mounted]
    BY <2>2, <1>10
  <2>5. [[[s EXCEPT !.op = "created"] EXCEPT !.rec = r] EXCEPT !.about = a] = s2
    BY <2>1, <2>4, CallGoesOnWith
  <2> QED BY <1>1, <2>3, <2>5
<1>12. /\ s2.op = "created" /\ s2.rec = r /\ s2.secret = s.secret
       /\ s2.about = r.vault.pw /\ s2.mounted = s.mounted
  BY <1>10
<1>13. CallBase(s2)'
  <2>1. Call(s2)
    BY <1>10, <1>12 DEF Call
  <2>2. RecordOK(s2.rec)'
    BY <1>7, <1>12 DEF RecordOK
  <2> QED BY <1>2, <1>12, <2>1, <2>2 DEF CallBase, Opens, Under, Rewrites
<1>14. CallAbout(s2)' /\ CallPage(s2)'
  BY <1>7, <1>12 DEF CallAbout, CallPage
<1>15. used \subseteq used' /\ page' = page
  BY <1>4, <1>5
<1> QED BY <1>9, <1>11, <1>13, <1>14, <1>15, CallsBegin DEF DemoInv, CallOK

(* The session of a vault just created is opened.                          *)
LEMMA OpenCreatedStep ==
  ASSUME DemoInv, NEW c \in Calls, Current(calls[c]), OpenCreated(c)
  PROVE  DemoInv'
<1>1. PICK s : s = calls[c]
  OBVIOUS
<1>2. CallBase(s) /\ CallAbout(s) /\ s.op = "created"
  BY <1>1, TheCall DEF OpenCreated, Awaited, CallOK
<1>3. /\ key = None /\ record # None /\ s.rec.vault.pw = record.vault.pw
      /\ s.about = s.rec.vault.pw
      /\ UnlockEnvelope(s.about, s.secret, DefaultProfile) = s.about.uvk
  BY <1>1, <1>2 DEF CallAbout, Current, SameVault
<1>4. record \in Records
  BY <1>3 DEF DemoInv, HeldInv, RecordInv, RecordOK, Sealed
<1>5. PICK k \in Keys : k = record.vault.pw.uvk
  BY <1>4, RecordFields, VaultFields
<1>6. InstallSession(k, "primary")
  BY <1>1, <1>3, <1>5 DEF OpenCreated
<1>7. /\ record' = record /\ meta' = meta /\ enabled' = enabled /\ used' = used /\ End(c)
  BY DEF OpenCreated, store
<1>8. HeldInv'
  <2>1. meta' \in [active : BOOLEAN, sequence : BOOLEAN]
    BY <1>7 DEF DemoInv, HeldInv, VariablesOK
  <2> QED BY <1>3, <1>5, <1>6, <1>7, <2>1, InstallKeeps DEF DemoInv
<1> QED BY <1>6, <1>7, <1>8, CallsEnd DEF DemoInv, InstallSession

(* The authenticator has answered; the vault's own passkey envelope is     *)
(* opened, for the session that the routing decides now.                   *)
LEMMA PasskeyAnswersStep ==
  ASSUME DemoInv, NEW c \in Calls, PasskeyAnswers(c)
  PROVE  DemoInv'
<1>1. PICK s : s = calls[c]
  OBVIOUS
<1>2. CallBase(s) /\ CallAbout(s) /\ s.op = "passkey"
  BY <1>1, TheCall DEF PasskeyAnswers, Awaited, CallOK
<1>3. UNCHANGED <<store, enabled, session, view, used>>
  BY DEF PasskeyAnswers
<1>4. CASE End(c)
  BY <1>3, <1>4, DroppedStep
<1>5. CASE ~End(c)
  <2>1. PICK target : target = UnlockTarget(s.about.duress)
    OBVIOUS
  <2>2. target \in {"primary", "decoy"}
    BY <2>1 DEF UnlockTarget
  <2>3. calls' = [calls EXCEPT ![c].op = "unlock",
                               ![c].about = [role |-> target, envelope |-> s.rec.pk]]
    BY <1>1, <1>5, <2>1 DEF PasskeyAnswers
  <2>4. PICK about : about = [role |-> target, envelope |-> s.rec.pk]
    OBVIOUS
  <2>5. PICK s2 : s2 = [op |-> "unlock", rec |-> s.rec, key |-> s.key, secret |-> s.secret,
                        about |-> about, mounted |-> s.mounted]
    OBVIOUS
  <2>6. calls' = [calls EXCEPT ![c] = s2]
    <3>1. calls = [x \in Calls |-> calls[x]] /\ Call(s)
      BY <1>2 DEF DemoInv, CallsInv, CallBase
    <3>2. calls' = [calls EXCEPT ![c] = [[calls[c] EXCEPT !.op = "unlock"]
                                           EXCEPT !.about = about]]
      BY <2>3, <2>4, <3>1
    <3>3. [[s EXCEPT !.op = "unlock"] EXCEPT !.about = about] = s2
      BY <2>5, <3>1, CallGoesOn
    <3> QED BY <1>1, <3>2, <3>3
  <2>7. /\ s2.op = "unlock" /\ s2.rec = s.rec /\ s2.about = about /\ s2.mounted = s.mounted
    BY <2>5
  <2>8. /\ record' = record /\ key' = key /\ pin' = pin /\ page' = page /\ used' = used
    BY <1>3 DEF store, session, view
  <2>9. CallBase(s2)'
    <3>1. Call(s2)
      BY <2>5, <2>7 DEF Call
    <3>2. s.mounted \in BOOLEAN /\ RecordOK(s.rec)
      BY <1>2 DEF CallBase
    <3>3. RecordOK(s2.rec)'
      BY <3>2, <2>7, <2>8 DEF RecordOK
    <3> QED BY <2>7, <2>8, <3>1, <3>2, <3>3 DEF CallBase, Opens, Under, Rewrites
  <2>10. CallAbout(s2)' /\ CallPage(s2)'
    <3>1. s.rec.pk # None /\ Sealed(s.rec, used)
      BY <1>2 DEF CallAbout, CallBase, RecordOK
    <3>2. s.rec.pk \in Envelope({Prf}, Keys) /\ s.rec.pk.uvk = s.rec.vault.pw.uvk
      BY <3>1, RecordFields DEF Sealed
    <3>3. s.rec.pk \in Envelope(Passwords \cup {Prf}, Keys)
      BY <3>2 DEF Envelope
    <3>4. about.role = target /\ about.envelope = s.rec.pk
      BY <2>4
    <3> QED BY <2>2, <2>7, <3>2, <3>3, <3>4 DEF CallAbout, CallPage
  <2>11. HeldInv'
    BY <1>3, <2>8, HeldSteady DEF DemoInv, HeldInv, VariablesOK
  <2> QED BY <2>6, <2>8, <2>9, <2>10, <2>11, CallsBegin DEF DemoInv, CallOK
<1> QED BY <1>4, <1>5

(* The session is opened in the role that was routed to.                   *)
LEMMA UnlockedStep ==
  ASSUME DemoInv, NEW c \in Calls, Current(calls[c]), Unlocked(c)
  PROVE  DemoInv'
<1>1. PICK s : s = calls[c]
  OBVIOUS
<1>2. CallBase(s) /\ CallAbout(s) /\ s.op = "unlock"
  BY <1>1, TheCall DEF Unlocked, Awaited, CallOK
<1>3. /\ key = None /\ record # None
      /\ s.about.role \in {"primary", "decoy"}
      /\ s.about.envelope \in Envelope(Passwords \cup {Prf}, Keys)
      /\ s.about.role = "primary" => s.about.envelope.uvk = record.vault.pw.uvk
  BY <1>1, <1>2 DEF CallAbout, Current, SameVault
<1>4. PICK k : k = UnlockEnvelope(s.about.envelope, s.secret, DefaultProfile)
  OBVIOUS
<1>5. /\ k # None /\ InstallSession(k, s.about.role)
      /\ meta' = [meta EXCEPT !.active = @ \/ s.about.role = "decoy"]
      /\ record' = record /\ enabled' = enabled /\ used' = used /\ End(c)
  BY <1>1, <1>4 DEF Unlocked
<1>6. k = s.about.envelope.uvk /\ k \in Keys
  BY <1>3, <1>4, <1>5, OpenedKey
<1>7. /\ meta' \in [active : BOOLEAN, sequence : BOOLEAN]
      /\ meta'.active => meta.active \/ s.about.role = "decoy"
      /\ s.about.role = "decoy" => meta'.active
  <2>1. meta \in [active : BOOLEAN, sequence : BOOLEAN]
    BY DEF DemoInv, HeldInv, VariablesOK
  <2>2. PICK active \in BOOLEAN : active = (meta.active \/ s.about.role = "decoy")
    OBVIOUS
  <2>3. meta' = [meta EXCEPT !.active = active]
    BY <1>5, <2>2
  <2>4. meta' \in [active : BOOLEAN, sequence : BOOLEAN] /\ meta'.active = active
    BY <2>1, <2>3
  <2> QED BY <2>2, <2>4
<1>8. HeldInv'
  BY <1>3, <1>5, <1>6, <1>7, InstallKeeps DEF DemoInv
<1>9. page' = page
  BY <1>5 DEF InstallSession
<1> QED BY <1>5, <1>8, <1>9, CallsEnd DEF DemoInv

(* A recovery opens the vault itself, whatever the phrase.                 *)
LEMMA RecoveredStep ==
  ASSUME DemoInv, NEW c \in Calls, Current(calls[c]), Recovered(c)
  PROVE  DemoInv'
<1>1. PICK s : s = calls[c]
  OBVIOUS
<1>2. CallBase(s) /\ s.op = "recover"
  BY <1>1, TheCall DEF Recovered, Awaited, CallOK
<1>3. key = None /\ record # None /\ Sealed(s.rec, used) /\ s.rec.vault.pw = record.vault.pw
  BY <1>1, <1>2 DEF CallBase, Current, SameVault, RecordOK
<1>4. PICK k : k = UnlockEnvelope(s.rec.vault.rec, s.secret, DefaultProfile)
  OBVIOUS
<1>5. meta' = meta /\ enabled' = enabled /\ used' = used /\ End(c)
  BY DEF Recovered
<1>6. CASE k # None /\ DecryptForSession(s.rec, k, Emergency) # None
  <2>1. record' = record /\ InstallSession(k, "primary")
    BY <1>1, <1>4, <1>6 DEF Recovered
  <2>2. s.rec.vault.rec \in Envelope(Phrases, Keys) /\ s.rec.vault.rec.uvk = record.vault.pw.uvk
    BY <1>3, RecordFields, VaultFields DEF Sealed
  <2>3. k = record.vault.pw.uvk /\ k \in Keys
    BY <1>4, <1>6, <2>2, OpenedKey
  <2>4. meta' \in [active : BOOLEAN, sequence : BOOLEAN]
    BY <1>5 DEF DemoInv, HeldInv, VariablesOK
  <2>5. HeldInv'
    BY <1>3, <1>5, <2>1, <2>3, <2>4, InstallKeeps DEF DemoInv
  <2>6. page' = page
    BY <2>1 DEF InstallSession
  <2> QED BY <1>5, <2>5, <2>6, CallsEnd DEF DemoInv
<1>7. CASE ~(k # None /\ DecryptForSession(s.rec, k, Emergency) # None)
  <2>1. UNCHANGED <<record, session, view>>
    BY <1>1, <1>4, <1>7 DEF Recovered
  <2>2. UNCHANGED <<store, enabled, session, view, used>>
    BY <2>1, <1>5 DEF store
  <2> QED BY <1>5, <2>2, DroppedStep
<1> QED BY <1>6, <1>7

(* The vault's own recovery phrase ends the emergency and the session.     *)
LEMMA ExitedStep ==
  ASSUME Orderly, DemoInv, NEW c \in Calls, Exited(c)
  PROVE  DemoInv'
<1> DEFINE k == UnlockEnvelope(calls[c].rec.vault.rec, calls[c].secret, DefaultProfile)
<1>1. record' = record /\ enabled' = enabled /\ used' = used /\ End(c)
  BY DEF Exited
<1>2. CASE k # None
  <2>1. /\ pin' = FALSE /\ LockSession /\ meta' = [meta EXCEPT !.active = FALSE]
    BY <1>2 DEF Exited
  <2>2. meta' \in [active : BOOLEAN, sequence : BOOLEAN] /\ meta'.active = FALSE
    BY <2>1 DEF DemoInv, HeldInv, VariablesOK
  <2>3. HeldInv'
    BY <1>1, <2>1, <2>2, LockKeeps DEF DemoInv
  <2> QED BY <1>1, <2>1, <2>3, CallsEnd DEF DemoInv, LockSession
<1>3. CASE k = None
  <2>1. UNCHANGED <<session, view, meta>>
    BY <1>3 DEF Exited
  <2>2. UNCHANGED <<store, enabled, session, view, used>>
    BY <2>1, <1>1 DEF store
  <2> QED BY <1>1, <2>2, DroppedStep
<1> QED BY <1>2, <1>3

(* The record goes and the session with it; the pin stays.                 *)
LEMMA DeletedStep ==
  ASSUME Orderly, DemoInv, NEW c \in Calls, Deleted(c)
  PROVE  DemoInv'
<1> DEFINE k == UnlockEnvelope(calls[c].rec.vault.pw, calls[c].secret, DefaultProfile)
<1>1. meta' = meta /\ enabled' = enabled /\ pin' = pin /\ used' = used /\ End(c)
  BY DEF Deleted
<1>2. CASE k # None
  <2>1. record' = None /\ LockSession
    BY <1>2 DEF Deleted
  <2>2. HeldInv'
    BY <1>1, <2>1, LockKeeps DEF DemoInv, HeldInv, VariablesOK, SessionInv
  <2> QED BY <1>1, <2>1, <2>2, CallsEnd DEF DemoInv, LockSession
<1>3. CASE k = None
  <2>1. UNCHANGED <<record, key, role, view>>
    BY <1>3 DEF Deleted
  <2>2. UNCHANGED <<store, enabled, session, view, used>>
    BY <2>1, <1>1 DEF store, session
  <2> QED BY <1>1, <2>2, DroppedStep
<1> QED BY <1>2, <1>3

-----------------------------------------------------------------------------
(* What is stored by a session.                                            *)

(* While a record is restored under the session's page, what the page and  *)
(* a pending rotation hold stays good.                                     *)
LEMMA ViewStays ==
  ASSUME HeldInv, record # None
  PROVE  /\ payload # None => page = "vault" /\ Shows(payload, key)
         /\ pending # None => /\ pending \in Envelope(Phrases, Keys) /\ page = "settings"
                              /\ pending.uvk = record.vault.pw.uvk
  BY DEF HeldInv, ViewInv, PendingInv

(* enrollDemoDecoy stores what it read around a decoy of a new key.        *)
LEMMA EnrolledStep ==
  ASSUME DemoInv, NEW c \in Calls, Current(calls[c]), Enrolled(c)
  PROVE  /\ DemoInv' /\ record # None /\ record' # None
         /\ record'.vault.blob = record.vault.blob /\ record'.decoy # None
<1>1. PICK s : s = calls[c]
  OBVIOUS
<1>2. CallBase(s) /\ CallAbout(s) /\ s.op = "enroll"
  BY <1>1, TheCall DEF Enrolled, Awaited, CallOK
<1>3. /\ record # None /\ Sealed(s.rec, used) /\ s.rec.vault.pw = record.vault.pw
      /\ s.rec.decoy = record.decoy /\ s.secret \in Passwords
      /\ s.rec.vault.blob = record.vault.blob
  BY <1>1, <1>2 DEF CallBase, CallAbout, Current, SameVault, RecordOK
<1>4. PICK k \in Keys \ used, f \in Phrases \ used :
        /\ record' = [s.rec EXCEPT !.decoy = CreateDecoyVaultSetup(k, s.secret, f)]
        /\ used' = used \cup {k, f}
  BY <1>1 DEF Enrolled
<1>5. /\ meta' = [meta EXCEPT !.sequence = TRUE] /\ End(c)
      /\ UNCHANGED <<enabled, session, page, loading, load>>
      /\ payload' = payload /\ pending' = pending
  BY DEF Enrolled, view
<1>6. Sealed(record', used) /\ record'.vault = s.rec.vault
  BY <1>3, <1>4, EnrolledOK
<1>7. /\ Sealed(record', used') /\ record'.vault.pw.uvk = record.vault.pw.uvk
      /\ used' \in SUBSET (Keys \cup Phrases) /\ used \subseteq used'
  BY <1>3, <1>4, <1>6, SealedLater DEF DemoInv, HeldInv, VariablesOK
<1>8. record'.decoy # None
  <2>1. [honey |-> TRUE, notes |-> 0] \in Contents
    BY ConstantsAssumption, SMT DEF Contents
  <2>2. VaultOf(k, s.secret, f, [honey |-> TRUE, notes |-> 0]) \in Vaults
    BY <1>3, <2>1, VaultOfOK
  <2>3. CreateDecoyVaultSetup(k, s.secret, f) # None
    BY <2>2, VaultFields DEF CreateDecoyVaultSetup
  <2>4. record'.decoy = CreateDecoyVaultSetup(k, s.secret, f)
    BY <1>3, <1>4 DEF Sealed, Records
  <2> QED BY <2>3, <2>4
<1>9. meta' \in [active : BOOLEAN, sequence : BOOLEAN] /\ meta'.active = meta.active
  BY <1>5 DEF DemoInv, HeldInv, VariablesOK
<1>10. HeldInv'
  BY <1>3, <1>5, <1>7, <1>8, <1>9, ViewStays, HeldRestored DEF DemoInv
<1>11. record' # None
  BY <1>7, RecordFields DEF Sealed
<1> QED BY <1>3, <1>5, <1>6, <1>7, <1>8, <1>10, <1>11, CallsEnd DEF DemoInv

(* A payload goes where it came from: the mode is read after the           *)
(* encryption and the key before it, and they agree.                       *)
LEMMA SavedStep ==
  ASSUME DemoInv, NEW c \in Calls, Current(calls[c]), Saved(c)
  PROVE  /\ DemoInv' /\ record # None /\ record' # None
         /\ key # None /\ record.decoy # None /\ key # record.vault.pw.uvk
              => record'.vault = calls[c].rec.vault
         /\ calls[c].about \in Contents /\ calls[c].about.honey = pin
         /\ payload' \in {payload, calls[c].about}
         /\ IF pin THEN /\ record.decoy # None /\ record'.decoy # None
                        /\ record'.decoy.blob.content = calls[c].about
                        /\ record'.vault.blob = record.vault.blob
                   ELSE /\ record'.vault.blob.content = calls[c].about
                        /\ record'.decoy = record.decoy
<1>1. PICK s : s = calls[c]
  OBVIOUS
<1>2. CallBase(s) /\ CallAbout(s) /\ CallPage(s) /\ s.op = "save"
  BY <1>1, TheCall DEF Saved, Awaited, CallOK
<1>3. /\ record # None /\ Sealed(s.rec, used) /\ s.rec.vault.pw = record.vault.pw
      /\ s.rec.decoy = record.decoy /\ s.rec.vault.blob = record.vault.blob
      /\ s.about \in Contents /\ s.about.honey = Emergency
      /\ IF s.about.honey THEN s.rec.decoy # None /\ s.key # s.rec.vault.pw.uvk
                          ELSE s.key = s.rec.vault.pw.uvk
      /\ (s.mounted => page = "vault" /\ key = s.key)
      /\ s.key \in Keys
  BY <1>1, <1>2 DEF CallBase, CallAbout, CallPage, Current, SameVault, RecordOK, Under, Rewrites
<1>4. PICK blob : blob = EncryptVaultPayload(s.about, s.key)
  OBVIOUS
<1>5. /\ record' = IF Emergency /\ s.rec.decoy # None
                   THEN WithDecoyBlob(s.rec, blob) ELSE WithVaultBlob(s.rec, blob)
      /\ payload' = IF s.mounted THEN s.about ELSE payload
  BY <1>1, <1>4, Zenon DEF Saved, WithDecoyBlob, WithVaultBlob
<1>6. /\ meta' = meta /\ End(c) /\ used' = used
      /\ UNCHANGED <<enabled, session, page, loading, load>> /\ pending' = pending
  BY DEF Saved
<1>7. Emergency = pin
  BY DEF Emergency, DemoInv, HeldInv, SessionInv, VariablesOK
<1>8. /\ s.about \in Contents /\ s.about.honey = pin
      /\ IF pin THEN record.decoy # None /\ s.key # record.vault.pw.uvk
                ELSE s.key = record.vault.pw.uvk
  BY <1>3, <1>7
<1>9. /\ Sealed(record', used) /\ record'.vault.pw = record.vault.pw
      /\ record.decoy # None => record'.decoy # None
      /\ pin => record'.vault = s.rec.vault /\ record'.decoy.blob = blob
      /\ ~pin => record'.vault.blob = blob /\ record'.decoy = record.decoy
  <2>1. CASE pin
    <3>1. record' = WithDecoyBlob(s.rec, blob)
      BY <1>3, <1>5, <1>7, <1>8, <2>1
    <3>2. /\ Sealed(record', used) /\ record'.vault = s.rec.vault /\ record'.decoy # None
          /\ record'.decoy.blob = blob
      <4>1. s.about.honey /\ s.key # s.rec.vault.pw.uvk /\ s.rec.decoy # None
        BY <1>3, <1>8, <2>1
      <4>2. s.about \in Contents /\ s.key \in Keys /\ Sealed(s.rec, used)
        BY <1>3, <1>8
      <4> QED BY <1>4, <3>1, <4>1, <4>2, SavedInDecoy
    <3> QED BY <1>3, <2>1, <3>2
  <2>2. CASE ~pin
    <3>1. record' = WithVaultBlob(s.rec, blob)
      BY <1>5, <1>7, <2>2
    <3>2. /\ Sealed(record', used) /\ record'.vault.pw = s.rec.vault.pw
          /\ record'.decoy = s.rec.decoy /\ record'.vault.blob = blob
      <4>1. ~s.about.honey /\ blob = EncryptVaultPayload(s.about, s.rec.vault.pw.uvk)
        BY <1>3, <1>4, <1>8, <2>2
      <4>2. s.about \in Contents /\ Sealed(s.rec, used)
        BY <1>3, <1>8
      <4> QED BY <3>1, <4>1, <4>2, SavedInVault
    <3> QED BY <1>3, <2>2, <3>2
  <2> QED BY <2>1, <2>2
<1>10. payload' # None => page = "vault" /\ Shows(payload', key)
  <2>1. CASE s.mounted
    <3>1. payload' = s.about /\ page = "vault" /\ key = s.key
      BY <1>3, <1>5, <2>1
    <3> QED BY <1>3, <1>8, <3>1 DEF Shows
  <2>2. CASE ~s.mounted
    BY <1>3, <1>5, <2>2, ViewStays DEF DemoInv
  <2> QED BY <2>1, <2>2
<1>11. HeldInv'
  <2>1. /\ used' \in SUBSET (Keys \cup Phrases) /\ used \subseteq used'
        /\ meta' \in [active : BOOLEAN, sequence : BOOLEAN]
        /\ Sealed(record', used')
    BY <1>6, <1>9 DEF DemoInv, HeldInv, VariablesOK
  <2> QED BY <1>3, <1>6, <1>9, <1>10, <2>1, ViewStays, HeldRestored DEF DemoInv
<1>12. key # None /\ key # record.vault.pw.uvk => pin
  BY DEF DemoInv, HeldInv, SessionInv, VariablesOK
<1>13. blob.content = s.about /\ record' # None /\ payload' \in {payload, s.about}
  <2>1. blob.content = s.about
    BY <1>4 DEF EncryptVaultPayload
  <2>2. record' \in Records
    BY <1>9 DEF Sealed
  <2>3. record' # None
    BY <2>2, NoneAssumption
  <2>4. payload' \in {payload, s.about}
    BY <1>5
  <2> QED BY <2>1, <2>3, <2>4
<1>14. DemoInv'
  BY <1>6, <1>11, CallsEnd DEF DemoInv
<1>15. IF pin THEN /\ record.decoy # None /\ record'.decoy # None
                   /\ record'.decoy.blob.content = s.about
                   /\ record'.vault.blob = record.vault.blob
              ELSE /\ record'.vault.blob.content = s.about
                   /\ record'.decoy = record.decoy
  BY <1>3, <1>8, <1>9, <1>13
<1> QED BY <1>1, <1>3, <1>8, <1>9, <1>12, <1>13, <1>14, <1>15

(* What the settings page rewrites is stored around the record it read.    *)
LEMMA RewrittenStep ==
  ASSUME DemoInv, NEW c \in Calls, Current(calls[c]), Rewritten(c)
  PROVE  /\ DemoInv' /\ record # None /\ record' # None
         /\ record'.vault.blob = record.vault.blob /\ record'.decoy = record.decoy
         /\ record'.vault.pw = record.vault.pw \/ key \in {None, record.vault.pw.uvk}
<1>1. PICK s : s = calls[c]
  OBVIOUS
<1>2. CallBase(s) /\ CallAbout(s) /\ s.op \in Rewrites
  BY <1>1, TheCall DEF Rewritten, CallOK, Rewrites
<1>3. /\ record # None /\ Sealed(s.rec, used) /\ s.rec.vault.pw = record.vault.pw
      /\ s.rec.vault.blob = record.vault.blob /\ s.rec.decoy = record.decoy
      /\ s.key \in Keys /\ key \in {s.key, None}
      /\ s.op \in {"change", "upgrade_pw"} => s.secret \in Passwords
      /\ s.op = "change" => s.about \in Passwords
      /\ s.op = "upgrade_rec" => s.secret \in Phrases
  BY <1>1, <1>2 DEF CallBase, CallAbout, Current, SameVault, RecordOK, Under, Rewrites
<1>4. PICK r : r = Rewrite(s)
  OBVIOUS
<1>5. record' = IF r = None THEN record ELSE r
  BY <1>1, <1>4 DEF Rewritten
<1>6. /\ meta' = meta /\ End(c) /\ used' = used /\ enabled' = enabled
      /\ UNCHANGED <<session, page, loading, load>>
      /\ payload' = payload /\ pending' = pending
  BY DEF Rewritten, view
<1>7. CASE r = None
  <2>1. UNCHANGED <<store, enabled, session, view, used>>
    BY <1>5, <1>6, <1>7 DEF store, view, Rewritten
  <2>2. DemoInv'
    BY <1>6, <2>1, DroppedStep
  <2> QED BY <1>3, <1>5, <1>7, <2>2
<1>8. CASE r # None
  <2>1. /\ Sealed(r, used) /\ r.decoy = s.rec.decoy
        /\ r.vault.blob = s.rec.vault.blob /\ r.vault.pw.uvk = s.rec.vault.pw.uvk
        /\ r.vault.pw = s.rec.vault.pw \/ s.key = s.rec.vault.pw.uvk
    BY <1>2, <1>3, <1>4, <1>8, RewriteOK
  <2>2. record' = r
    BY <1>5, <1>8
  <2>3. /\ used' \in SUBSET (Keys \cup Phrases) /\ used \subseteq used'
        /\ meta' \in [active : BOOLEAN, sequence : BOOLEAN] /\ meta'.active = meta.active
        /\ Sealed(record', used') /\ record'.vault.pw.uvk = record.vault.pw.uvk
        /\ record.decoy # None => record'.decoy # None
    BY <1>3, <1>6, <2>1, <2>2 DEF DemoInv, HeldInv, VariablesOK
  <2>4. HeldInv'
    BY <1>3, <1>6, <2>3, ViewStays, HeldRestored DEF DemoInv
  <2>5. DemoInv'
    BY <1>6, <2>4, CallsEnd DEF DemoInv
  <2> QED BY <1>3, <1>8, <2>1, <2>2, <2>5
<1> QED BY <1>7, <1>8

(* A rotation to be confirmed holds the vault's key.                       *)
LEMMA GeneratedStep ==
  ASSUME DemoInv, NEW c \in Calls, Current(calls[c]), Generated(c)
  PROVE  DemoInv'
<1>1. PICK s : s = calls[c]
  OBVIOUS
<1>2. CallBase(s) /\ CallPage(s) /\ s.op = "generate"
  BY <1>1, TheCall DEF Generated, Awaited, CallOK
<1>3. /\ record # None /\ Sealed(s.rec, used) /\ s.rec.vault.pw = record.vault.pw
      /\ s.key \in Keys /\ (s.mounted => page = "settings")
  BY <1>1, <1>2 DEF CallBase, CallPage, Current, SameVault, RecordOK, Under, Rewrites
<1>10. PICK f \in Phrases \ used :
         LET e == RotateRecoveryPhrase(calls[c].rec.vault.pw, calls[c].secret, calls[c].key,
                                       f, DefaultProfile)
         IN  /\ pending' = IF calls[c].mounted /\ e # None THEN e ELSE pending
             /\ used' = IF e = None THEN used ELSE used \cup {f}
  BY Zenon DEF Generated
<1>4. PICK e :
        /\ e = RotateRecoveryPhrase(s.rec.vault.pw, s.secret, s.key, f, DefaultProfile)
        /\ pending' = IF s.mounted /\ e # None THEN e ELSE pending
        /\ used' = IF e = None THEN used ELSE used \cup {f}
  BY <1>1, <1>10
<1>5. /\ record' = record /\ meta' = meta /\ End(c)
      /\ UNCHANGED <<enabled, session, page, loading, load>> /\ payload' = payload
  BY DEF Generated, store
<1>6. e # None => e \in Envelope(Phrases, Keys) /\ e.uvk = record.vault.pw.uvk
  <2>1. s.rec.vault.pw \in Envelope(Passwords, Keys)
    BY <1>3, RecordFields, VaultFields DEF Sealed
  <2> QED BY <1>3, <1>4, <2>1, RotatedRecovery
<1>7. pending' # None => /\ pending' \in Envelope(Phrases, Keys) /\ page = "settings"
                         /\ pending'.uvk = record.vault.pw.uvk
  BY <1>3, <1>4, <1>6, ViewStays DEF DemoInv
<1>8. /\ used' \in SUBSET (Keys \cup Phrases) /\ used \subseteq used'
      /\ meta' \in [active : BOOLEAN, sequence : BOOLEAN]
      /\ Sealed(record', used')
  BY <1>3, <1>4, <1>5, SealedLater DEF DemoInv, HeldInv, VariablesOK, RecordInv, RecordOK
<1>9. HeldInv'
  BY <1>3, <1>5, <1>7, <1>8, ViewStays, HeldRestored DEF DemoInv
<1> QED BY <1>5, <1>8, <1>9, CallsEnd DEF DemoInv

LEMMA UnlinkStep ==
  ASSUME DemoInv, Unlink
  PROVE  /\ DemoInv' /\ record # None /\ record' # None
         /\ record'.vault = record.vault /\ record'.decoy = record.decoy
<1>1. /\ record # None /\ record' = [record EXCEPT !.pk = None]
      /\ meta' = meta /\ used' = used /\ calls' = calls
      /\ UNCHANGED <<enabled, session, page, loading, load>>
      /\ payload' = payload /\ pending' = pending
  BY DEF Unlink, OnSettings, view
<1>2. Sealed(record, used)
  BY <1>1 DEF DemoInv, HeldInv, RecordInv, RecordOK
<1>3. Sealed(record', used) /\ record'.vault = record.vault /\ record'.decoy = record.decoy
  BY <1>1, <1>2, UnlinkedOK
<1>4. /\ used' \in SUBSET (Keys \cup Phrases) /\ used \subseteq used'
      /\ meta' \in [active : BOOLEAN, sequence : BOOLEAN] /\ Sealed(record', used')
  BY <1>1, <1>3 DEF DemoInv, HeldInv, VariablesOK
<1>5. HeldInv'
  BY <1>1, <1>3, <1>4, ViewStays, HeldRestored DEF DemoInv
<1>7. CallsInv'
  BY <1>1, CallsSteady DEF DemoInv
<1>8. record' # None
  BY <1>3, RecordFields DEF Sealed
<1> QED BY <1>1, <1>3, <1>5, <1>7, <1>8 DEF DemoInv

LEMMA CommitStep ==
  ASSUME DemoInv, Commit
  PROVE  /\ DemoInv' /\ record # None /\ record' # None /\ record'.decoy = record.decoy
         /\ record'.vault.blob = record.vault.blob /\ record'.vault.pw = record.vault.pw
<1>1. /\ record # None /\ pending # None /\ record' = [record EXCEPT !.vault.rec = pending]
      /\ pending' = None /\ meta' = meta /\ used' = used /\ calls' = calls
      /\ UNCHANGED <<enabled, session, page, loading, load>> /\ payload' = payload
  BY DEF Commit, OnSettings
<1>2. /\ Sealed(record, used)
      /\ pending \in Envelope(Phrases, Keys) /\ pending.uvk = record.vault.pw.uvk
  BY <1>1, ViewStays DEF DemoInv, HeldInv, RecordInv, RecordOK
<1>3. /\ Sealed(record', used) /\ record'.decoy = record.decoy
      /\ record'.vault.blob = record.vault.blob /\ record'.vault.pw = record.vault.pw
  <2>1. record' = WithRecovery(record, pending) /\ used' = used
    BY <1>1 DEF WithRecovery
  <2>2. PICK r2 : r2 = WithRecovery(record, pending)
    OBVIOUS
  <2>3. /\ Sealed(r2, used) /\ r2.decoy = record.decoy
        /\ r2.vault.blob = record.vault.blob /\ r2.vault.pw = record.vault.pw
    BY <1>2, <2>2, RecoveryReplaced
  <2> QED BY <2>1, <2>2, <2>3
<1>4. /\ used' \in SUBSET (Keys \cup Phrases) /\ used \subseteq used'
      /\ meta' \in [active : BOOLEAN, sequence : BOOLEAN] /\ Sealed(record', used')
  BY <1>1, <1>3 DEF DemoInv, HeldInv, VariablesOK
<1>5. HeldInv'
  BY <1>1, <1>3, <1>4, ViewStays, HeldRestored DEF DemoInv
<1>7. CallsInv'
  BY <1>1, CallsSteady DEF DemoInv
<1>8. record' # None
  BY <1>3, RecordFields DEF Sealed
<1> QED BY <1>1, <1>3, <1>5, <1>7, <1>8 DEF DemoInv

-----------------------------------------------------------------------------
(* The pages.                                                              *)

(* The vault page takes what it decrypted; it is of the mode and the key   *)
(* that the session still has.                                             *)
LEMMA LoadEndStep ==
  ASSUME DemoInv, LoadEnd
  PROVE  DemoInv'
<1>1. /\ load # None /\ load' = None /\ loading' = FALSE
      /\ record' = record /\ meta' = meta /\ enabled' = enabled
      /\ key' = key /\ role' = role /\ pin' = pin
      /\ page' = page /\ pending' = pending /\ calls' = calls /\ used' = used
  BY DEF LoadEnd, store, session
<1>2. /\ page = "vault" /\ load.read
      /\ load.result # None => Shows(load.result, key)
      /\ payload # None => Shows(payload, key)
  BY <1>1 DEF DemoInv, HeldInv, ViewInv
<1>3. payload' = IF load.result = None THEN payload ELSE load.result
  BY <1>2 DEF LoadEnd
<1>4. PICK p : p = payload'
  OBVIOUS
<1>5. p # None => Shows(p, key)
  BY <1>2, <1>3, <1>4
<1>6. p # None => Shows(p, key)'
  BY <1>1, <1>5 DEF Shows
<1>7. ViewInv'
  BY <1>1, <1>2, <1>4, <1>6 DEF ViewInv
<1>8. VariablesOK' /\ RecordInv' /\ SessionInv' /\ PendingInv'
  BY <1>1 DEF DemoInv, HeldInv, VariablesOK, RecordInv, RecordOK, SessionInv, PendingInv
<1>9. CallsInv'
  BY <1>1, CallsSteady DEF DemoInv
<1> QED BY <1>7, <1>8, <1>9 DEF DemoInv, HeldInv

(* A page that is left drops what it holds, and what is awaited goes on    *)
(* without it.                                                             *)
LEMMA LeavingKeeps ==
  ASSUME CallsInv, Leaving, used' = used
  PROVE  CallsInv'
<1>1. calls' = [c \in Calls |-> IF calls[c] = None THEN None
                                ELSE [calls[c] EXCEPT !.mounted = FALSE]]
  BY DEF Leaving
<1>2. ASSUME NEW c \in Calls, calls'[c] # None PROVE CallOK(calls[c])'
  <2>1. PICK s : s = calls[c]
    OBVIOUS
  <2>2. s # None
    BY <1>1, <1>2, <2>1
  <2>3. CallBase(s) /\ CallAbout(s)
    BY <2>1, <2>2 DEF CallsInv, CallOK
  <2>4. PICK s2 : s2 = [s EXCEPT !.mounted = FALSE]
    OBVIOUS
  <2>5. Call(s)
    BY <2>3 DEF CallBase
  <2>6. s2 = [op |-> s.op, rec |-> s.rec, key |-> s.key, secret |-> s.secret,
              about |-> s.about, mounted |-> FALSE]
    <3> DEFINE fields(m) == [op |-> s.op, rec |-> s.rec, key |-> s.key, secret |-> s.secret,
                             about |-> s.about, mounted |-> m]
    <3>1. s = fields(s.mounted)
      BY <2>5 DEF Call
    <3>2. \A m, x : [fields(m) EXCEPT !.mounted = x] = fields(x)
      OBVIOUS
    <3> HIDE DEF fields
    <3>3. s2 = fields(FALSE)
      BY <2>4, <3>1, <3>2
    <3> QED BY <3>3 DEF fields
  <2>7. /\ s2.op = s.op /\ s2.rec = s.rec /\ s2.key = s.key /\ s2.secret = s.secret
        /\ s2.about = s.about /\ s2.mounted = FALSE
    BY <2>6
  <2>8. Call(s2)
    BY <2>6, <2>7 DEF Call
  <2>9. CallBase(s2)'
    BY <2>3, <2>7, <2>8 DEF CallBase, RecordOK
  <2>10. CallAbout(s2)' /\ CallPage(s2)'
    BY <2>3, <2>7 DEF CallAbout, CallPage
  <2>11. calls'[c] = s2
    BY <1>1, <2>1, <2>2, <2>4
  <2> QED BY <2>9, <2>10, <2>11 DEF CallOK
<1>3. calls' = [c \in Calls |-> calls'[c]]
  BY <1>1
<1> QED BY <1>2, <1>3 DEF CallsInv

(* The page that is mounted decrypts with the key and in the mode of the   *)
(* session there is.                                                       *)
LEMMA NavigateStep ==
  ASSUME DemoInv, NEW p \in Pages, Navigate(p)
  PROVE  DemoInv'
<1>1. /\ page' = p /\ payload' = None /\ pending' = None /\ used' = used
      /\ record' = record /\ meta' = meta /\ enabled' = enabled
      /\ key' = key /\ role' = role /\ pin' = pin /\ Leaving
  BY DEF Navigate, Leaving, store, session
<1>2. p \in {"vault", "settings"} => record # None
  BY DEF Navigate, MayVisit
<1>3. CallsInv'
  BY <1>1, LeavingKeeps DEF DemoInv
<1>4. RecordInv' /\ SessionInv' /\ PendingInv'
  BY <1>1 DEF DemoInv, HeldInv, RecordInv, RecordOK, SessionInv, PendingInv
<1>5. /\ meta \in [active : BOOLEAN, sequence : BOOLEAN]
      /\ enabled \in BOOLEAN /\ pin \in BOOLEAN
      /\ key \in Keys \cup {None} /\ role \in {"none", "primary", "decoy"}
      /\ used \in SUBSET (Keys \cup Phrases)
  BY DEF DemoInv, HeldInv, VariablesOK
<1>6. CASE p = "vault" /\ key # None
  <2>1. record # None /\ key \in Keys
    BY <1>2, <1>5, <1>6
  <2>2. /\ loading' = TRUE
        /\ load' = [read |-> TRUE,
                    result |-> DecryptForSession(record', key', pin' \/ role' = "decoy")]
    BY <1>1, <1>6, <2>1 DEF Navigate, Refresh
  <2>3. VariablesOK'
    BY <1>1, <1>5, <2>2 DEF VariablesOK
  <2>4. (pin \/ role = "decoy") = pin
    BY <1>5 DEF DemoInv, HeldInv, SessionInv
  <2>5. PICK emergency, content :
          /\ emergency \in BOOLEAN /\ emergency = pin
          /\ content = DecryptForSession(record, key, emergency)
    BY <1>5
  <2>6. load' = [read |-> TRUE, result |-> content]
    BY <1>1, <2>2, <2>4, <2>5
  <2>7. Sealed(record, used)
    BY <2>1 DEF DemoInv, HeldInv, RecordInv, RecordOK
  <2>8. content # None => /\ content \in Contents /\ content.honey = emergency
                          /\ IF emergency THEN record.decoy # None /\ key # record.vault.pw.uvk
                                          ELSE key = record.vault.pw.uvk
    BY <2>5, <2>7, DecryptOK
  <2>9. load'.read = TRUE /\ load'.result = content
    BY <2>6
  <2>10. ViewInv'
    BY <1>1, <1>6, <2>1, <2>5, <2>8, <2>9 DEF ViewInv, Shows
  <2> QED BY <1>3, <1>4, <2>3, <2>10 DEF DemoInv, HeldInv
<1>7. CASE ~(p = "vault" /\ key # None)
  <2>1. loading' = FALSE /\ load' = None
    BY <1>7 DEF Navigate
  <2>2. VariablesOK'
    BY <1>1, <1>5, <2>1 DEF VariablesOK
  <2>3. ViewInv'
    BY <1>1, <2>1 DEF ViewInv
  <2> QED BY <1>3, <1>4, <2>2, <2>3 DEF DemoInv, HeldInv
<1> QED BY <1>6, <1>7

(* Nothing but what is stored outlives a reload.                           *)
LEMMA ReloadStep ==
  ASSUME DemoInv, NEW on \in BOOLEAN, Reload(on)
  PROVE  DemoInv'
<1>1. /\ enabled' = on /\ key' = None /\ role' = "none" /\ pin' = (on /\ meta.active)
      /\ payload' = None /\ loading' = FALSE /\ load' = None /\ pending' = None
      /\ calls' = [c \in Calls |-> None]
      /\ record' = record /\ meta' = meta /\ page' = page /\ used' = used
  BY DEF Reload, store
<1>2. VariablesOK'
  <2>1. meta.active \in BOOLEAN
    BY DEF DemoInv, HeldInv, VariablesOK
  <2> QED BY <1>1, <2>1 DEF DemoInv, HeldInv, VariablesOK
<1>3. RecordInv' /\ SessionInv' /\ ViewInv' /\ PendingInv'
  BY <1>1 DEF DemoInv, HeldInv, RecordInv, RecordOK, SessionInv, ViewInv, PendingInv
<1>4. CallsInv'
  BY <1>1 DEF CallsInv
<1> QED BY <1>2, <1>3, <1>4 DEF DemoInv, HeldInv

-----------------------------------------------------------------------------
(* The invariant is inductive.                                             *)

LEMMA InitOK ==
  ASSUME Init PROVE DemoInv
<1>1. /\ meta = [active |-> FALSE, sequence |-> FALSE] /\ enabled \in BOOLEAN
      /\ key = None /\ role = "none" /\ pin = FALSE
      /\ payload = None /\ loading = FALSE /\ load = None /\ pending = None
      /\ calls = [c \in Calls |-> None] /\ page \in Pages
  BY DEF Init, Pages
<1>2. used \in SUBSET (Keys \cup Phrases) /\ RecordInv
  <2>1. CASE record = None /\ used = {}
    BY <2>1 DEF RecordInv
  <2>2. CASE ~(record = None /\ used = {})
    <3>1. PICK k \in Keys, p \in Passwords, f \in Phrases, c \in OlderContexts, l \in BOOLEAN :
            record = OlderRecord(k, p, f, c, l) /\ used = {k, f}
      BY <2>2 DEF Init
    <3>2. Sealed(record, used)
      BY <3>1, OlderRecordOK
    <3> QED BY <3>1, <3>2 DEF RecordInv, RecordOK
  <2> QED BY <2>1, <2>2
<1>3. VariablesOK
  BY <1>1, <1>2 DEF VariablesOK
<1>4. SessionInv /\ ViewInv /\ PendingInv
  BY <1>1 DEF SessionInv, ViewInv, PendingInv
<1>5. CallsInv
  BY <1>1 DEF CallsInv
<1> QED BY <1>2, <1>3, <1>4, <1>5 DEF DemoInv, HeldInv

LEMMA OpeningStep ==
  ASSUME Orderly, DemoInv, NEW c \in Calls, Opening(c)
  PROVE  DemoInv'
<1>0. Resumes(c) => Current(calls[c])
  BY DEF Orderly
<1>1. ASSUME NEW p \in Passwords, StartCreate(c, p) \/ StartUnlock(c, p) PROVE DemoInv'
  BY <1>1, BeginOpening
<1>2. ASSUME NEW d \in BOOLEAN, StartPasskey(c, d) PROVE DemoInv'
  BY <1>2, BeginPasskey
<1>3. ASSUME NEW f \in used \cap Phrases, StartRecovery(c, f) PROVE DemoInv'
  BY <1>3, BeginRecovery
<1>4. ASSUME NEW f \in used \cap Phrases, StartExit(c, f) PROVE DemoInv'
  BY <1>4, BeginExit
<1>5. CASE Created(c)
  BY <1>0, <1>5, CreatedStep DEF Resumes
<1>6. CASE OpenCreated(c)
  BY <1>0, <1>6, OpenCreatedStep DEF Resumes
<1>7. CASE PasskeyAnswers(c)
  BY <1>7, PasskeyAnswersStep
<1>8. CASE Unlocked(c)
  BY <1>0, <1>8, UnlockedStep DEF Resumes
<1>9. CASE UnlockFails(c)
  <2>1. End(c) /\ UNCHANGED <<store, enabled, session, view, used>>
    BY <1>9 DEF UnlockFails
  <2> QED BY <2>1, DroppedStep
<1>10. CASE Recovered(c)
  BY <1>0, <1>10, RecoveredStep DEF Resumes
<1>11. CASE Exited(c)
  BY <1>11, ExitedStep
<1> QED
  BY <1>1, <1>2, <1>3, <1>4, <1>5, <1>6, <1>7, <1>8, <1>9, <1>10, <1>11, Zenon DEF Opening

LEMMA ChangingStep ==
  ASSUME Orderly, DemoInv, NEW c \in Calls, Changing(c)
  PROVE  DemoInv'
<1>0. Resumes(c) => Current(calls[c])
  BY DEF Orderly
<1>1. CASE StartSave(c)
  BY <1>1, BeginSave
<1>2. CASE StartLink(c)
  BY <1>2, BeginLink
<1>3. ASSUME NEW p \in Passwords, StartEnroll(c, p) PROVE DemoInv'
  BY <1>3, BeginEnroll
<1>4. ASSUME NEW p \in Passwords, StartUpgrade(c, p) PROVE DemoInv'
  BY <1>4, BeginUpgrade
<1>5. ASSUME NEW p \in Passwords, StartGenerate(c, p) PROVE DemoInv'
  BY <1>5, BeginGenerate
<1>6. ASSUME NEW p \in Passwords, StartDelete(c, p) PROVE DemoInv'
  BY <1>6, BeginDelete
<1>7. ASSUME NEW p \in Passwords, NEW q \in Passwords, StartChange(c, p, q) PROVE DemoInv'
  BY <1>7, BeginChange
<1>8. ASSUME NEW f \in used \cap Phrases, StartUpgradeRecovery(c, f) PROVE DemoInv'
  BY <1>8, BeginUpgradeRecovery
<1>9. CASE Enrolled(c)
  BY <1>0, <1>9, EnrolledStep DEF Resumes
<1>10. CASE Saved(c)
  BY <1>0, <1>10, SavedStep DEF Resumes
<1>11. CASE Rewritten(c)
  BY <1>0, <1>11, RewrittenStep DEF Resumes
<1>12. CASE Generated(c)
  BY <1>0, <1>12, GeneratedStep DEF Resumes
<1>13. CASE Deleted(c)
  BY <1>13, DeletedStep
<1> QED
  BY <1>1, <1>2, <1>3, <1>4, <1>5, <1>6, <1>7, <1>8, <1>9, <1>10, <1>11, <1>12, <1>13, Zenon
  DEF Changing

LEMMA StepOK ==
  ASSUME DemoInv, Next, Orderly
  PROVE  DemoInv'
<1>1. ASSUME NEW c \in Calls, Opening(c) PROVE DemoInv'
  BY <1>1, OpeningStep
<1>2. ASSUME NEW c \in Calls, Changing(c) PROVE DemoInv'
  BY <1>2, ChangingStep
<1>3. CASE LoadEnd
  BY <1>3, LoadEndStep
<1>4. CASE Lock
  BY <1>4, LockStep
<1>5. CASE Unlink
  BY <1>5, UnlinkStep
<1>6. CASE Commit
  BY <1>6, CommitStep
<1>7. ASSUME NEW p \in Pages, Navigate(p) PROVE DemoInv'
  BY <1>7, NavigateStep
<1>8. ASSUME NEW on \in BOOLEAN, Reload(on) PROVE DemoInv'
  BY <1>8, ReloadStep
<1> QED
  BY <1>1, <1>2, <1>3, <1>4, <1>5, <1>6, <1>7, <1>8, Zenon DEF Next

LEMMA StutterOK ==
  ASSUME DemoInv, UNCHANGED vars
  PROVE  DemoInv'
<1>1. UNCHANGED <<store, enabled, session, view, used>> /\ calls' = calls
  BY DEF vars
<1>2. HeldInv'
  BY <1>1, HeldSteady DEF DemoInv, HeldInv, VariablesOK
<1>3. page' = page /\ used' = used
  BY <1>1 DEF view
<1>4. CallsInv'
  BY <1>1, <1>3, CallsSteady DEF DemoInv
<1> QED BY <1>2, <1>4 DEF DemoInv

LEMMA DemoInvariant == Spec /\ [][Orderly]_vars => []DemoInv
<1>1. Init => DemoInv
  BY InitOK
<1>2. DemoInv /\ [Next]_vars /\ [Orderly]_vars => DemoInv'
  BY StepOK, StutterOK
<1> QED BY <1>1, <1>2, PTL DEF Spec

-----------------------------------------------------------------------------
(* The theorems. Each says of every step that takes its property away that *)
(* it is not Orderly: a call ends over what it did not find there.         *)

(* The stored payload opens with the key in every envelope of the vault,   *)
(* and the decoy's keys are never that key: no creation, enrollment, save, *)
(* rotation, link or deletion seals anything for the wrong one, however    *)
(* many are awaited, unless one ends over what another has stored.         *)
THEOREM VaultOpens == Spec /\ [][Orderly]_vars => []BlobsOpen
<1>1. DemoInv => BlobsOpen
  BY DEF DemoInv, HeldInv, RecordInv, RecordOK, Sealed, BlobsOpen
<1> QED BY <1>1, DemoInvariant, PTL

(* In an emergency the vault page never holds the vault's own payload, and *)
(* none of it is stored for the decoy, but by a save or a decryption that  *)
(* ends in another mode or session than it was begun in                    *)
(* (decryptDemoVaultForSession, saveDemoPayload).                          *)
THEOREM HoneyShown == Spec /\ [][Orderly]_vars => []PrimaryHidden
<1>1. ASSUME DemoInv PROVE PrimaryHidden
  <2>1. ASSUME enabled, meta.active, payload # None PROVE payload.honey
    BY <1>1, <2>1 DEF DemoInv, HeldInv, SessionInv, ViewInv, Shows
  <2>2. record # None /\ record.decoy # None => record.decoy.blob.content.honey
    BY <1>1 DEF DemoInv, HeldInv, RecordInv, RecordOK, Sealed
  <2> QED BY <2>1, <2>2 DEF PrimaryHidden, Visible
<1> QED BY <1>1, DemoInvariant, PTL

(* Honey is never saved over the vault's own payload, but by a save that   *)
(* ends in another mode than it was begun in (saveDemoPayload). The other  *)
(* half of EmergencyKept needs no order: DecoyIsEmergency.                 *)
THEOREM EmergencyStays == Spec /\ [][Orderly]_vars => []EmergencyKept
<1>1. DemoInv => EmergencyKept
  BY DEF DemoInv, HeldInv, SessionInv, RecordInv, RecordOK, Sealed, EmergencyKept
<1> QED BY <1>1, DemoInvariant, PTL

(* What a step stores while the session's key is not the vault's.          *)
LEMMA VaultUntouched ==
  ASSUME DemoInv, Next, Orderly,
         record # None, record' # None, record.decoy # None,
         key # None, key # record.vault.pw.uvk
  PROVE  record'.vault.blob = record.vault.blob /\ record'.vault.pw = record.vault.pw
<1> DEFINE Goal == record'.vault.blob = record.vault.blob /\ record'.vault.pw = record.vault.pw
<1>0. ASSUME NEW c \in Calls, Resumes(c) PROVE Current(calls[c])
  BY <1>0 DEF Orderly
<1>1. ASSUME record' = record PROVE Goal
  BY <1>1
<1>2. ASSUME NEW c \in Calls, Created(c) PROVE FALSE
  <2>1. calls[c].op = "create" /\ Current(calls[c])
    BY <1>0, <1>2 DEF Created, Awaited, Resumes
  <2> QED BY <2>1 DEF Current
<1>3. ASSUME NEW c \in Calls, Enrolled(c) PROVE Goal
  <2>1. PICK s : s = calls[c]
    OBVIOUS
  <2>2. CallBase(s) /\ CallAbout(s) /\ s.op = "enroll"
    BY <1>3, <2>1, TheCall DEF Enrolled, Awaited, CallOK
  <2>6. Current(s)
    BY <1>0, <1>3, <2>1 DEF Resumes
  <2>3. Sealed(s.rec, used) /\ SameVault(s.rec) /\ s.secret \in Passwords
    BY <2>2, <2>6 DEF CallBase, CallAbout, Current, RecordOK
  <2>4. PICK k \in Keys \ used, f \in Phrases \ used :
          record' = [s.rec EXCEPT !.decoy = CreateDecoyVaultSetup(k, s.secret, f)]
    BY <1>3, <2>1 DEF Enrolled
  <2>5. record'.vault = s.rec.vault
    BY <2>3, <2>4, EnrolledOK
  <2> QED BY <2>3, <2>5 DEF SameVault
<1>4. ASSUME NEW c \in Calls, Saved(c) PROVE Goal
  <2>1. PICK s : s = calls[c]
    OBVIOUS
  <2>2. Current(s) /\ s.op = "save"
    BY <1>0, <1>4, <2>1 DEF Saved, Awaited, Resumes
  <2>3. SameVault(s.rec)
    BY <2>2 DEF Current
  <2>4. record'.vault = s.rec.vault
    BY <1>4, <2>1, <2>2, SavedStep
  <2> QED BY <2>3, <2>4 DEF SameVault
<1>5. ASSUME NEW c \in Calls, Rewritten(c) PROVE Goal
  BY <1>0, <1>5, RewrittenStep DEF Resumes
<1>6. ASSUME NEW c \in Calls, Deleted(c) PROVE record' = record
  BY <1>6 DEF Deleted
<1>7. ASSUME NEW c \in Calls, Opening(c), ~Created(c) PROVE record' = record
  BY <1>7, Zenon DEF Opening, StartCreate, StartUnlock, StartPasskey, StartRecovery, StartExit,
    OpenCreated, PasskeyAnswers, Unlocked, UnlockFails, Recovered, Exited, Begin, store
<1>8. ASSUME NEW c \in Calls, Changing(c),
             ~Enrolled(c), ~Saved(c), ~Rewritten(c), ~Deleted(c)
      PROVE  record' = record
  BY <1>8, Zenon DEF Changing, StartSave, StartLink, StartEnroll, StartUpgrade, StartGenerate,
    StartDelete, StartChange, StartUpgradeRecovery, Generated, Begin, store
<1>9. CASE Unlink
  BY <1>9, UnlinkStep
<1>10. CASE Commit
  BY <1>10, CommitStep
<1>11. ASSUME LoadEnd \/ Lock \/ (\E p \in Pages : Navigate(p)) \/ (\E on \in BOOLEAN : Reload(on))
       PROVE  record' = record
  BY <1>11, Zenon DEF LoadEnd, Lock, Navigate, Reload, store
<1> HIDE DEF Goal
<1>13. Goal
  BY <1>1, <1>2, <1>3, <1>4, <1>5, <1>6, <1>7, <1>8, <1>9, <1>10, <1>11, Zenon DEF Next, Goal
<1> QED BY <1>13 DEF Goal

(* Under the decoy's key no step replaces the vault's payload or its       *)
(* password envelope: saves go to the decoy, and a rotation is refused,    *)
(* because the vault's inner key is not the session's. Only a call that    *)
(* was begun before that session, and ends in it, does otherwise.          *)
THEOREM DecoyChangesNothing == Spec /\ [][Orderly]_vars => DecoySessionChangesNothing
<1>1. ASSUME DemoInv, Next, Orderly, record # None, record' # None, record.decoy # None,
             key = record.decoy.pw.uvk
      PROVE  record'.vault.blob = record.vault.blob /\ record'.vault.pw = record.vault.pw
  <2>1. Sealed(record, used)
    BY <1>1 DEF DemoInv, HeldInv, RecordInv, RecordOK
  <2>2. key # record.vault.pw.uvk
    BY <1>1, <2>1 DEF Sealed
  <2>3. record.decoy \in Vaults
    BY <1>1, <2>1, RecordFields DEF Sealed
  <2>4. key # None
    BY <1>1, <2>3, VaultFields, NoneAssumption
  <2> QED BY <1>1, <2>2, <2>4, VaultUntouched
<1>2. DemoInv /\ [Next]_vars /\ [Orderly]_vars =>
        [record # None /\ record' # None /\ record.decoy # None /\ key = record.decoy.pw.uvk
           => record'.vault.blob = record.vault.blob /\ record'.vault.pw = record.vault.pw]_vars
  BY <1>1
<1> QED BY <1>2, DemoInvariant, PTL DEF Spec, DecoySessionChangesNothing

-----------------------------------------------------------------------------
(* The tab is two vaults. The pin of the session is the stored emergency   *)
(* while the feature is on, and what is awaited for the decoy or about it  *)
(* began with the feature on.                                              *)

Routed(s) ==
  /\ s.op = "unlock" /\ s.about.role = "decoy" => enabled /\ s.rec.decoy # None
  /\ s.op \in {"enroll", "exit"} => enabled

ModeInv ==
  /\ pin => enabled /\ meta.active
  /\ \A c \in Calls : calls[c] # None => Routed(calls[c])

LEMMA TheRoute ==
  ASSUME ModeInv, NEW c \in Calls, calls[c] # None
  PROVE  Routed(calls[c])
  BY DEF ModeInv

LEMMA PinIsEmergency ==
  ASSUME DemoInv
  PROVE  Emergency = pin
  BY DEF Emergency, DemoInv, HeldInv, SessionInv, VariablesOK

(* The routing decides for the decoy in an emergency or for a feature that *)
(* is on (createVaultUnlockRouting).                                       *)
LEMMA DecoyNeedsTheFeature ==
  ASSUME DemoInv, ModeInv, NEW duress, UnlockTarget(duress) = "decoy"
  PROVE  enabled
  BY PinIsEmergency DEF UnlockTarget, ModeInv

(* One of the calls begins, goes on or ends, in a mode that is right.      *)
LEMMA ModeGoesOn ==
  ASSUME DemoInv, ModeInv, NEW c \in Calls, NEW s,
         calls' = [calls EXCEPT ![c] = s], s # None => Routed(s),
         enabled' = enabled, pin' => enabled' /\ meta'.active
  PROVE  ModeInv'
<1>1. calls' = [x \in Calls |-> IF x = c THEN s ELSE calls[x]]
  BY DEF DemoInv, CallsInv
<1>2. ASSUME NEW x \in Calls, calls'[x] # None PROVE Routed(calls[x])'
  <2>1. PICK s2 : s2 = calls'[x]
    OBVIOUS
  <2>2. s2 # None /\ s2 \in {s, calls[x]}
    BY <1>1, <1>2, <2>1
  <2>3. Routed(s2)
    BY <2>2 DEF ModeInv
  <2>4. Routed(s2)'
    BY <2>3 DEF Routed
  <2> QED BY <2>1, <2>4
<1> QED BY <1>2 DEF ModeInv

LEMMA ModeEnds ==
  ASSUME DemoInv, ModeInv, NEW c \in Calls, End(c),
         enabled' = enabled, pin' => enabled' /\ meta'.active
  PROVE  ModeInv'
BY ModeGoesOn DEF End

LEMMA ModeBegins ==
  ASSUME DemoInv, ModeInv, NEW c \in Calls, NEW op, NEW secret, NEW about,
         Begin(c, op, secret, about),
         \A s : s = [op |-> op, rec |-> record, key |-> key, secret |-> secret,
                     about |-> about, mounted |-> TRUE] => Routed(s)
  PROVE  ModeInv'
<1>1. PICK s : s = [op |-> op, rec |-> record, key |-> key, secret |-> secret,
                    about |-> about, mounted |-> TRUE]
  OBVIOUS
<1>2. calls' = [calls EXCEPT ![c] = s] /\ UNCHANGED <<enabled, pin, meta>>
  BY <1>1 DEF Begin, store, session
<1> QED BY <1>1, <1>2, ModeGoesOn DEF ModeInv

LEMMA ModeBeginsPlain ==
  ASSUME DemoInv, ModeInv, NEW c \in Calls, NEW op, NEW secret, NEW about,
         Begin(c, op, secret, about), op \notin {"unlock", "enroll", "exit"}
  PROVE  ModeInv'
<1>1. ASSUME NEW s, s = [op |-> op, rec |-> record, key |-> key, secret |-> secret,
                         about |-> about, mounted |-> TRUE]
      PROVE  Routed(s)
  BY <1>1 DEF Routed
<1> QED BY <1>1, ModeBegins

(* Nothing of the mode changes, and what is awaited is at most left by its *)
(* page.                                                                   *)
LEMMA ModeSteady ==
  ASSUME DemoInv, ModeInv, UNCHANGED <<enabled, pin, meta>>, calls' = calls \/ Leaving
  PROVE  ModeInv'
<1>1. ASSUME NEW c \in Calls, NEW s2, s2 = calls'[c], s2 # None PROVE Routed(s2)'
  <2>1. PICK s : s = calls[c]
    OBVIOUS
  <2>2. s # None /\ s2 \in {s, [s EXCEPT !.mounted = FALSE]}
    BY <1>1, <2>1 DEF Leaving
  <2>3. Routed(s) /\ Call(s)
    BY <2>1, <2>2, TheCall, TheRoute DEF CallOK, CallBase
  <2>4. s2.op = s.op /\ s2.rec = s.rec /\ s2.about = s.about
    <3>1. CASE s2 = s
      BY <3>1
    <3>2. CASE s2 = [s EXCEPT !.mounted = FALSE]
      BY <2>3, <3>2 DEF Call
    <3> QED BY <2>2, <3>1, <3>2
  <2> QED BY <2>3, <2>4 DEF Routed
<1>2. ASSUME NEW c \in Calls, calls'[c] # None PROVE Routed(calls[c])'
  <2>1. PICK s2 : s2 = calls'[c]
    OBVIOUS
  <2>2. Routed(s2)'
    BY <1>1, <1>2, <2>1
  <2> QED BY <2>1, <2>2
<1>3. pin' => enabled' /\ meta'.active
  BY DEF ModeInv
<1> QED BY <1>2, <1>3 DEF ModeInv

LEMMA ModeOpening ==
  ASSUME DemoInv, ModeInv, NEW c \in Calls, Opening(c)
  PROVE  ModeInv'
<1>1. ASSUME NEW p \in Passwords, StartCreate(c, p) PROVE ModeInv'
  <2>1. Begin(c, "create", p, None)
    BY <1>1 DEF StartCreate
  <2> QED BY <2>1, ModeBeginsPlain
<1>2. ASSUME NEW p \in Passwords, StartUnlock(c, p) PROVE ModeInv'
  <2>1. PICK duress, target : /\ duress = (meta.sequence /\ p \in DuressPasswords)
                              /\ target = UnlockTarget(duress)
    OBVIOUS
  <2>2. PICK about : about = [role |-> target,
                              envelope |-> IF target = "decoy" THEN record.decoy.pw ELSE record.vault.pw]
    OBVIOUS
  <2>3. Begin(c, "unlock", p, about) /\ (target = "decoy" => record.decoy # None)
    BY <1>2, <2>1, <2>2, Zenon DEF StartUnlock
  <2>4. target = "decoy" => enabled
    BY <2>1, DecoyNeedsTheFeature
  <2>5. ASSUME NEW s, s = [op |-> "unlock", rec |-> record, key |-> key, secret |-> p,
                           about |-> about, mounted |-> TRUE]
        PROVE  Routed(s)
    <3>1. s.op = "unlock" /\ s.rec = record /\ s.about = about /\ about.role = target
      BY <2>2, <2>5
    <3> QED BY <2>3, <2>4, <3>1 DEF Routed
  <2> QED BY <2>3, <2>5, ModeBegins
<1>3. ASSUME NEW d \in BOOLEAN, StartPasskey(c, d) PROVE ModeInv'
  <2>1. Begin(c, "passkey", Prf, [duress |-> d])
    BY <1>3 DEF StartPasskey
  <2> QED BY <2>1, ModeBeginsPlain
<1>4. ASSUME NEW f, StartRecovery(c, f) PROVE ModeInv'
  <2>1. Begin(c, "recover", f, None)
    BY <1>4 DEF StartRecovery
  <2> QED BY <2>1, ModeBeginsPlain
<1>5. ASSUME NEW f, StartExit(c, f) PROVE ModeInv'
  <2>1. Begin(c, "exit", f, None) /\ enabled
    BY <1>5 DEF StartExit
  <2>2. ASSUME NEW s, s = [op |-> "exit", rec |-> record, key |-> key, secret |-> f,
                           about |-> None, mounted |-> TRUE]
        PROVE  Routed(s)
    BY <2>1, <2>2 DEF Routed
  <2> QED BY <2>1, <2>2, ModeBegins
<1>6. CASE Created(c)
  <2>1. PICK s : s = calls[c]
    OBVIOUS
  <2>2. Call(s)
    BY <1>6, <2>1, TheCall DEF Created, Awaited, CallOK, CallBase
  <2>3. PICK r, about : calls' = [calls EXCEPT ![c].op = "created", ![c].rec = r, ![c].about = about]
    BY <1>6 DEF Created
  <2>4. PICK s2 : s2 = [[[s EXCEPT !.op = "created"] EXCEPT !.rec = r] EXCEPT !.about = about]
    OBVIOUS
  <2>5. calls' = [calls EXCEPT ![c] = s2]
    BY <2>1, <2>3, <2>4 DEF DemoInv, CallsInv
  <2>6. s2.op = "created"
    BY <2>2, <2>4 DEF Call
  <2>7. Routed(s2) /\ UNCHANGED <<enabled, pin, meta>>
    BY <1>6, <2>6 DEF Routed, Created, session
  <2> QED BY <2>5, <2>7, ModeGoesOn DEF ModeInv
<1>7. CASE PasskeyAnswers(c)
  <2>1. UNCHANGED <<enabled, pin, meta>>
    BY <1>7 DEF PasskeyAnswers, store, session
  <2>2. CASE End(c)
    BY <2>1, <2>2, ModeEnds DEF ModeInv
  <2>3. CASE ~End(c)
    <3>1. PICK s : s = calls[c]
      OBVIOUS
    <3>2. Call(s)
      BY <1>7, <3>1, TheCall DEF PasskeyAnswers, Awaited, CallOK, CallBase
    <3>3. PICK target : target = UnlockTarget(s.about.duress)
      OBVIOUS
    <3>4. PICK about : about = [role |-> target, envelope |-> s.rec.pk]
      OBVIOUS
    <3>5. /\ target = "decoy" => s.rec.decoy # None
          /\ calls' = [calls EXCEPT ![c].op = "unlock", ![c].about = about]
      BY <1>7, <2>3, <3>1, <3>3, <3>4 DEF PasskeyAnswers
    <3>6. PICK s2 : s2 = [[s EXCEPT !.op = "unlock"] EXCEPT !.about = about]
      OBVIOUS
    <3>7. calls' = [calls EXCEPT ![c] = s2]
      BY <3>1, <3>5, <3>6 DEF DemoInv, CallsInv
    <3>8. s2.op = "unlock" /\ s2.rec = s.rec /\ s2.about.role = target
      BY <3>2, <3>4, <3>6 DEF Call
    <3>9. target = "decoy" => enabled
      BY <3>3, DecoyNeedsTheFeature
    <3>10. Routed(s2)
      BY <3>5, <3>8, <3>9 DEF Routed
    <3> QED BY <2>1, <3>7, <3>10, ModeGoesOn DEF ModeInv
  <2> QED BY <2>2, <2>3
<1>8. CASE Unlocked(c)
  <2>1. PICK s : s = calls[c]
    OBVIOUS
  <2>2. s # None /\ s.op = "unlock" /\ Routed(s)
    BY <1>8, <2>1, TheRoute DEF Unlocked, Awaited
  <2>3. PICK r : r = s.about.role
    OBVIOUS
  <2>4. /\ meta' = [meta EXCEPT !.active = @ \/ r = "decoy"] /\ pin' = (pin \/ r = "decoy")
        /\ enabled' = enabled /\ End(c)
    BY <1>8, <2>1, <2>3 DEF Unlocked, InstallSession
  <2>5. meta'.active = (meta.active \/ r = "decoy")
    BY <2>4 DEF DemoInv, HeldInv, VariablesOK
  <2>6. r = "decoy" => enabled
    BY <2>2, <2>3 DEF Routed
  <2>7. pin' => enabled' /\ meta'.active
    BY <2>4, <2>5, <2>6, Zenon DEF ModeInv
  <2> QED BY <2>4, <2>7, ModeEnds
<1>9. CASE OpenCreated(c) \/ UnlockFails(c) \/ Recovered(c)
  <2>1. enabled' = enabled /\ meta' = meta /\ End(c)
    BY <1>9 DEF OpenCreated, UnlockFails, Recovered, store
  <2>2. ASSUME NEW k, InstallSession(k, "primary") PROVE pin' => pin
    BY <2>2 DEF InstallSession
  <2>3. pin' => pin
    BY <1>9, <2>2 DEF OpenCreated, UnlockFails, Recovered, session
  <2> QED BY <2>1, <2>3, ModeEnds DEF ModeInv
<1>10. CASE Exited(c)
  <2>1. enabled' = enabled /\ End(c) /\ (pin' => pin' = pin /\ meta' = meta)
    BY <1>10 DEF Exited, session
  <2> QED BY <2>1, ModeEnds DEF ModeInv
<1> QED
  BY <1>1, <1>2, <1>3, <1>4, <1>5, <1>6, <1>7, <1>8, <1>9, <1>10, Zenon DEF Opening

LEMMA ModeChanging ==
  ASSUME DemoInv, ModeInv, NEW c \in Calls, Changing(c)
  PROVE  ModeInv'
<1>1. ASSUME NEW op, NEW secret, NEW about, Begin(c, op, secret, about),
             op \notin {"unlock", "enroll", "exit"}
      PROVE  ModeInv'
  BY <1>1, ModeBeginsPlain
<1>2. CASE StartSave(c)
  <2>1. Begin(c, "save", None, [payload EXCEPT !.notes = @ + 1])
    BY <1>2 DEF StartSave
  <2> QED BY <2>1, <1>1
<1>3. CASE StartLink(c)
  <2>1. Begin(c, "link", None, None)
    BY <1>3 DEF StartLink
  <2> QED BY <2>1, <1>1
<1>4. ASSUME NEW p \in Passwords, StartEnroll(c, p) PROVE ModeInv'
  <2>1. Begin(c, "enroll", p, None) /\ enabled
    BY <1>4 DEF StartEnroll
  <2>2. ASSUME NEW s, s = [op |-> "enroll", rec |-> record, key |-> key, secret |-> p,
                           about |-> None, mounted |-> TRUE]
        PROVE  Routed(s)
    BY <2>1, <2>2 DEF Routed
  <2> QED BY <2>1, <2>2, ModeBegins
<1>5. ASSUME NEW p \in Passwords, StartUpgrade(c, p) PROVE ModeInv'
  <2>1. Begin(c, "upgrade_pw", p, None)
    BY <1>5 DEF StartUpgrade
  <2> QED BY <2>1, <1>1
<1>6. ASSUME NEW p \in Passwords, StartGenerate(c, p) PROVE ModeInv'
  <2>1. Begin(c, "generate", p, None)
    BY <1>6 DEF StartGenerate
  <2> QED BY <2>1, <1>1
<1>7. ASSUME NEW p \in Passwords, StartDelete(c, p) PROVE ModeInv'
  <2>1. Begin(c, "delete", p, None)
    BY <1>7 DEF StartDelete
  <2> QED BY <2>1, <1>1
<1>8. ASSUME NEW p \in Passwords, NEW q \in Passwords, StartChange(c, p, q) PROVE ModeInv'
  <2>1. Begin(c, "change", p, q)
    BY <1>8 DEF StartChange
  <2> QED BY <2>1, <1>1
<1>9. ASSUME NEW f, StartUpgradeRecovery(c, f) PROVE ModeInv'
  <2>1. Begin(c, "upgrade_rec", f, None)
    BY <1>9 DEF StartUpgradeRecovery
  <2> QED BY <2>1, <1>1
<1>10. CASE Enrolled(c)
  <2>1. enabled' = enabled /\ pin' = pin /\ meta' = [meta EXCEPT !.sequence = TRUE] /\ End(c)
    BY <1>10 DEF Enrolled, session
  <2>2. meta'.active = meta.active
    BY <2>1 DEF DemoInv, HeldInv, VariablesOK
  <2> QED BY <2>1, <2>2, ModeEnds DEF ModeInv
<1>11. CASE Saved(c) \/ Rewritten(c) \/ Generated(c) \/ Deleted(c)
  <2>1. enabled' = enabled /\ pin' = pin /\ meta' = meta /\ End(c)
    BY <1>11 DEF Saved, Rewritten, Generated, Deleted, store, session
  <2> QED BY <2>1, ModeEnds DEF ModeInv
<1> QED
  BY <1>2, <1>3, <1>4, <1>5, <1>6, <1>7, <1>8, <1>9, <1>10, <1>11, Zenon DEF Changing

LEMMA ModeKept ==
  ASSUME DemoInv, ModeInv, [Next]_vars
  PROVE  ModeInv'
<1>1. ASSUME NEW c \in Calls, Opening(c) PROVE ModeInv'
  BY <1>1, ModeOpening
<1>2. ASSUME NEW c \in Calls, Changing(c) PROVE ModeInv'
  BY <1>2, ModeChanging
<1>3. CASE LoadEnd \/ Lock \/ Unlink \/ Commit \/ UNCHANGED vars
  <2>1. UNCHANGED <<enabled, pin, meta>> /\ calls' = calls
    BY <1>3 DEF LoadEnd, Lock, Unlink, Commit, vars, store, session
  <2> QED BY <2>1, ModeSteady
<1>4. ASSUME NEW p \in Pages, Navigate(p) PROVE ModeInv'
  <2>1. UNCHANGED <<enabled, pin, meta>> /\ Leaving
    BY <1>4 DEF Navigate, store, session
  <2> QED BY <2>1, ModeSteady
<1>5. ASSUME NEW on \in BOOLEAN, Reload(on) PROVE ModeInv'
  <2>1. /\ enabled' = on /\ pin' = (on /\ meta.active) /\ meta' = meta
        /\ calls' = [c \in Calls |-> None]
    BY <1>5 DEF Reload, store
  <2>2. pin' => enabled' /\ meta'.active
    BY <2>1, Zenon
  <2> QED BY <2>1, <2>2 DEF ModeInv
<1> QED BY <1>1, <1>2, <1>3, <1>4, <1>5, Zenon DEF Next

(* What is stored, and what is shown, is of its own vault.                 *)
LEMMA StoredContents ==
  ASSUME DemoInv
  PROVE  /\ record # None => Stored(record) \in Contents /\ ~Stored(record).honey
         /\ record # None /\ record.decoy # None =>
              StoredHoney(record) \in Contents /\ StoredHoney(record).honey
         /\ record # None => Stored(record) # None
         /\ record # None /\ record.decoy # None => StoredHoney(record) # None
<1>1. ASSUME record # None PROVE Stored(record) \in Contents /\ ~Stored(record).honey
  <2>1. Sealed(record, used)
    BY <1>1 DEF DemoInv, HeldInv, RecordInv, RecordOK
  <2>2. record.vault \in Vaults
    BY <2>1, RecordFields DEF Sealed
  <2>3. record.vault.blob.content \in Contents
    BY <2>2, VaultFields
  <2> QED BY <1>1, <2>1, <2>3 DEF Stored, Sealed
<1>2. ASSUME record # None, record.decoy # None
      PROVE  StoredHoney(record) \in Contents /\ StoredHoney(record).honey
  <2>1. Sealed(record, used)
    BY <1>2 DEF DemoInv, HeldInv, RecordInv, RecordOK
  <2>2. record.decoy \in Vaults
    BY <1>2, <2>1, RecordFields DEF Sealed
  <2>3. record.decoy.blob.content \in Contents
    BY <2>2, VaultFields
  <2> QED BY <1>2, <2>1, <2>3 DEF StoredHoney, Sealed
<1> QED BY <1>1, <1>2, NoneAssumption

(* The stored emergency is the one the session is pinned to.               *)
LEMMA TwoEmergency ==
  ASSUME DemoInv, ModeInv
  PROVE  Two!Emergency <=> pin
  BY DEF Two!Emergency, DemoInv, HeldInv, SessionInv, ModeInv

LEMMA TwoOwn ==
  ASSUME DemoInv, ModeInv, NEW content \in Contents, content.honey = pin
  PROVE  content \in Two!Own
<1>1. pin \in BOOLEAN
  BY DEF DemoInv, HeldInv, VariablesOK
<1> QED BY <1>1, TwoEmergency DEF Two!Own

LEMMA TwoStored ==
  ASSUME DemoInv, ModeInv, record # None, pin => record.decoy # None
  PROVE  Two!Stored # None
  BY TwoEmergency, StoredContents DEF Two!Stored

(* Steps that the abstract tab does not notice.                            *)
LEMMA TwoStutters ==
  ASSUME enabled' = enabled, meta'.active = meta.active,
         Stored(record)' = Stored(record), StoredHoney(record)' = StoredHoney(record),
         payload' = payload
  PROVE  UNCHANGED Two!vars
  BY DEF Two!vars

LEMMA TwoRecordKept ==
  ASSUME enabled' = enabled, meta'.active = meta.active, record' = record, payload' = payload
  PROVE  UNCHANGED Two!vars
<1>1. Stored(record)' = Stored(record) /\ StoredHoney(record)' = StoredHoney(record)
  BY DEF Stored, StoredHoney
<1> QED BY <1>1, TwoStutters

LEMMA TwoContentsKept ==
  ASSUME enabled' = enabled, meta'.active = meta.active, payload' = payload,
         record # None, record' # None,
         record'.vault.blob = record.vault.blob, record'.decoy = record.decoy
  PROVE  UNCHANGED Two!vars
<1>1. Stored(record)' = Stored(record) /\ StoredHoney(record)' = StoredHoney(record)
  BY DEF Stored, StoredHoney
<1> QED BY <1>1, TwoStutters

LEMMA TwoHides ==
  ASSUME enabled' = enabled, meta'.active = meta.active, record' = record,
         payload' \in {payload, None}
  PROVE  Two!Hide \/ UNCHANGED Two!vars
<1>1. CASE payload' = payload
  BY <1>1, TwoRecordKept
<1>2. CASE payload' = None
  <2>1. Stored(record)' = Stored(record) /\ StoredHoney(record)' = StoredHoney(record)
    BY DEF Stored, StoredHoney
  <2> QED BY <1>2, <2>1 DEF Two!Hide
<1> QED BY <1>1, <1>2

LEMMA LockHides ==
  ASSUME LockSession PROVE payload' \in {payload, None}
  BY DEF LockSession

LEMMA LockedShowsNothing ==
  ASSUME DemoInv, LockSession PROVE payload' = None
  BY HiddenWhenLocked DEF LockSession, DemoInv

-----------------------------------------------------------------------------
(* The steps it does notice.                                               *)

LEMMA TwoLoadEnd ==
  ASSUME DemoInv, ModeInv, LoadEnd
  PROVE  Two!Show \/ UNCHANGED Two!vars
<1>1. /\ load # None /\ enabled' = enabled /\ meta' = meta /\ record' = record
  BY DEF LoadEnd, store
<1>2. load.read /\ (load.result # None => Shows(load.result, key))
  BY <1>1 DEF DemoInv, HeldInv, ViewInv
<1>3. payload' = IF load.result = None THEN payload ELSE load.result
  BY <1>2 DEF LoadEnd
<1>4. CASE load.result = None
  BY <1>1, <1>3, <1>4, TwoRecordKept
<1>5. CASE load.result # None
  <2>1. /\ payload' = load.result /\ payload' \in Contents /\ payload'.honey = pin
        /\ record # None /\ (pin => record.decoy # None)
    BY <1>2, <1>3, <1>5 DEF Shows
  <2>2. payload' \in Two!Own /\ Two!Stored # None
    <3>1. PICK content : content = payload'
      OBVIOUS
    <3>2. content \in Two!Own
      BY <2>1, <3>1, TwoOwn
    <3> QED BY <2>1, <3>1, <3>2, TwoStored
  <2>3. Stored(record)' = Stored(record) /\ StoredHoney(record)' = StoredHoney(record)
    BY <1>1 DEF Stored, StoredHoney
  <2> QED BY <1>1, <2>2, <2>3 DEF Two!Show
<1> QED BY <1>4, <1>5

LEMMA TwoCreated ==
  ASSUME DemoInv, DemoInv', NEW c \in Calls, Current(calls[c]), Created(c)
  PROVE  Two!Create
<1>1. PICK s : s = calls[c]
  OBVIOUS
<1>2. CallBase(s) /\ CallAbout(s) /\ s.op = "create"
  BY <1>1, TheCall DEF Created, Awaited, CallOK
<1>3. record = None /\ s.secret \in Passwords
  BY <1>1, <1>2 DEF CallAbout, Current
<1>4. PICK k \in Keys \ used, f \in Phrases \ used : record' = NewRecord(k, s.secret, f)
  BY <1>1 DEF Created
<1>5. record' # None /\ record'.decoy = None
  <2>1. PICK r : r = NewRecord(k, s.secret, f)
    OBVIOUS
  <2>2. Sealed(r, {k})
    BY <1>3, <2>1, NewRecordOK
  <2>3. r # None
    BY <2>2, RecordFields DEF Sealed
  <2>4. r.decoy = None
    BY <2>1 DEF NewRecord
  <2> QED BY <1>4, <2>1, <2>3, <2>4
<1>6. Stored(record)' \in Contents /\ ~Stored(record)'.honey
  <2>1. (record # None)'
    BY <1>5
  <2>2. (record # None => Stored(record) \in Contents /\ ~Stored(record).honey)'
    BY StoredContents, PTL
  <2> QED BY <2>1, <2>2
<1>7. Stored(record) = None /\ StoredHoney(record) = None /\ StoredHoney(record)' = None
  BY <1>3, <1>5 DEF Stored, StoredHoney
<1>8. enabled' = enabled /\ meta' = meta /\ payload' = payload
  BY DEF Created, view
<1> QED BY <1>6, <1>7, <1>8 DEF Two!Create

LEMMA TwoEnrolled ==
  ASSUME DemoInv, DemoInv', ModeInv, NEW c \in Calls, Current(calls[c]), Enrolled(c)
  PROVE  Two!Enroll
<1>1. Routed(calls[c]) /\ calls[c].op = "enroll"
  BY TheRoute DEF Enrolled, Awaited
<1>2. /\ record # None /\ record' # None
      /\ record'.vault.blob = record.vault.blob /\ record'.decoy # None
  BY EnrolledStep
<1>3. enabled' = enabled /\ meta' = [meta EXCEPT !.sequence = TRUE] /\ payload' = payload
  BY DEF Enrolled, view
<1>4. meta'.active = meta.active
  BY <1>3 DEF DemoInv, HeldInv, VariablesOK
<1>5. StoredHoney(record)' \in Contents /\ StoredHoney(record)'.honey
  <2>1. (record # None /\ record.decoy # None =>
           StoredHoney(record) \in Contents /\ StoredHoney(record).honey)'
    BY StoredContents, PTL
  <2> QED BY <1>2, <2>1
<1>6. Stored(record)' = Stored(record) /\ Stored(record) # None
  BY <1>2, StoredContents DEF Stored
<1>7. enabled
  BY <1>1 DEF Routed
<1> QED BY <1>3, <1>4, <1>5, <1>6, <1>7 DEF Two!Enroll

(* A save edits the vault of the mode, and that one only.                  *)
LEMMA TwoSaved ==
  ASSUME DemoInv, ModeInv, NEW c \in Calls, Current(calls[c]), Saved(c)
  PROVE  \E content \in {d \in Contents : ~d.honey} \cup {d \in Contents : d.honey} :
           Two!Edit(content)
<1>1. PICK content : content = calls[c].about
  OBVIOUS
<1>2. /\ record # None /\ record' # None
      /\ content \in Contents /\ content.honey = pin
      /\ payload' \in {payload, content}
      /\ IF pin THEN /\ record.decoy # None /\ record'.decoy # None
                     /\ record'.decoy.blob.content = content
                     /\ record'.vault.blob = record.vault.blob
                ELSE /\ record'.vault.blob.content = content
                     /\ record'.decoy = record.decoy
  BY <1>1, SavedStep
<1>3. content \in Two!Own /\ Two!Stored # None
  BY <1>2, TwoOwn, TwoStored
<1>4. enabled' = enabled /\ meta' = meta
  BY DEF Saved
<1>5. IF pin THEN StoredHoney(record)' = content /\ Stored(record)' = Stored(record)
             ELSE Stored(record)' = content /\ StoredHoney(record)' = StoredHoney(record)
  BY <1>2 DEF Stored, StoredHoney
<1>6. Two!Edit(content)
  BY <1>2, <1>3, <1>4, <1>5, TwoEmergency DEF Two!Edit
<1> QED BY <1>2, <1>6

(* An emergency is raised by the unlock that was routed to the decoy there *)
(* is, with nothing on the screen.                                         *)
LEMMA TwoUnlocked ==
  ASSUME DemoInv, ModeInv, NEW c \in Calls, Current(calls[c]), Unlocked(c)
  PROVE  Two!Raise \/ UNCHANGED Two!vars
<1>1. PICK s : s = calls[c]
  OBVIOUS
<1>2. Current(s) /\ s.op = "unlock" /\ Routed(s)
  BY <1>1, TheRoute DEF Unlocked, Awaited
<1>3. PICK r : r = s.about.role
  OBVIOUS
<1>4. /\ meta' = [meta EXCEPT !.active = @ \/ r = "decoy"]
      /\ record' = record /\ enabled' = enabled /\ payload' = payload
  BY <1>1, <1>3 DEF Unlocked, InstallSession
<1>5. meta.active \in BOOLEAN /\ meta'.active = (meta.active \/ r = "decoy")
  BY <1>4 DEF DemoInv, HeldInv, VariablesOK
<1>6. CASE r # "decoy" \/ meta.active
  <2>1. meta'.active = meta.active
    BY <1>5, <1>6
  <2> QED BY <1>4, <2>1, TwoRecordKept
<1>7. CASE r = "decoy" /\ ~meta.active
  <2>1. enabled /\ s.rec.decoy # None
    BY <1>2, <1>3, <1>7 DEF Routed
  <2>2. key = None /\ record # None /\ record.decoy # None
    BY <1>2, <2>1 DEF Current, SameVault
  <2>3. payload = None
    BY <2>2, HiddenWhenLocked DEF DemoInv
  <2>4. StoredHoney(record) # None
    BY <2>2, StoredContents
  <2>5. Stored(record)' = Stored(record) /\ StoredHoney(record)' = StoredHoney(record)
    BY <1>4 DEF Stored, StoredHoney
  <2>6. meta'.active = TRUE
    BY <1>5, <1>7
  <2> QED BY <1>4, <1>7, <2>1, <2>3, <2>4, <2>5, <2>6 DEF Two!Raise
<1> QED BY <1>5, <1>6, <1>7

LEMMA TwoExited ==
  ASSUME DemoInv, ModeInv, NEW c \in Calls, Current(calls[c]), Exited(c)
  PROVE  Two!End \/ Two!Hide \/ UNCHANGED Two!vars
<1>1. PICK s : s = calls[c]
  OBVIOUS
<1>2. Current(s) /\ s.op = "exit" /\ Routed(s)
  BY <1>1, TheRoute DEF Exited, Awaited
<1>3. enabled /\ record # None
  BY <1>2 DEF Routed, Current, SameVault
<1>4. enabled' = enabled /\ record' = record
  BY DEF Exited
<1>5. CASE UnlockEnvelope(calls[c].rec.vault.rec, calls[c].secret, DefaultProfile) # None
  <2>1. LockSession /\ meta' = [meta EXCEPT !.active = FALSE]
    BY <1>5 DEF Exited
  <2>2. payload' = None /\ meta'.active = FALSE
    BY <2>1, LockedShowsNothing DEF DemoInv, HeldInv, VariablesOK
  <2>3. Stored(record)' = Stored(record) /\ StoredHoney(record)' = StoredHoney(record)
    BY <1>4 DEF Stored, StoredHoney
  <2>4. Stored(record) # None
    BY <1>3, StoredContents
  <2>5. CASE pin
    BY <1>4, <2>2, <2>3, <2>4, <2>5, TwoEmergency DEF Two!End
  <2>6. CASE ~pin
    <3>1. meta.active = FALSE
      BY <1>3, <2>6 DEF DemoInv, HeldInv, SessionInv, VariablesOK
    <3> QED BY <1>4, <2>2, <3>1, TwoHides
  <2> QED BY <2>5, <2>6
<1>6. CASE UnlockEnvelope(calls[c].rec.vault.rec, calls[c].secret, DefaultProfile) = None
  <2>1. meta' = meta /\ payload' = payload
    BY <1>6 DEF Exited, view
  <2> QED BY <1>4, <2>1, TwoRecordKept
<1> QED BY <1>5, <1>6

LEMMA TwoDeleted ==
  ASSUME DemoInv, NEW c \in Calls, Current(calls[c]), Deleted(c)
  PROVE  Two!Delete \/ UNCHANGED Two!vars
<1>3. record # None
  BY DEF Deleted, Awaited, Current, SameVault
<1>4. enabled' = enabled /\ meta' = meta
  BY DEF Deleted
<1>5. CASE UnlockEnvelope(calls[c].rec.vault.pw, calls[c].secret, DefaultProfile) # None
  <2>1. record' = None /\ LockSession
    BY <1>5 DEF Deleted
  <2>2. payload' = None
    BY <2>1, LockedShowsNothing
  <2>3. Stored(record)' = None /\ StoredHoney(record)' = None
    BY <2>1 DEF Stored, StoredHoney
  <2>4. Stored(record) # None
    BY <1>3, StoredContents
  <2> QED BY <1>4, <2>2, <2>3, <2>4 DEF Two!Delete
<1>6. CASE UnlockEnvelope(calls[c].rec.vault.pw, calls[c].secret, DefaultProfile) = None
  <2>1. record' = record /\ payload' = payload
    BY <1>6 DEF Deleted, view
  <2> QED BY <1>4, <2>1, TwoRecordKept
<1> QED BY <1>5, <1>6

LEMMA TwoReload ==
  ASSUME NEW on \in BOOLEAN, Reload(on)
  PROVE  Two!Restart(on)
<1>1. enabled' = on /\ meta' = meta /\ record' = record /\ payload' = None
  BY DEF Reload, store
<1>2. Stored(record)' = Stored(record) /\ StoredHoney(record)' = StoredHoney(record)
  BY <1>1 DEF Stored, StoredHoney
<1> QED BY <1>1, <1>2 DEF Two!Restart

LEMMA TwoInit ==
  ASSUME Init, DemoInv
  PROVE  Two!Init
<1>1. /\ meta = [active |-> FALSE, sequence |-> FALSE] /\ enabled \in BOOLEAN /\ payload = None
      /\ \/ record = None
         \/ \E k \in Keys, p \in Passwords, f \in Phrases, c \in OlderContexts, l \in BOOLEAN :
              record = OlderRecord(k, p, f, c, l) /\ used = {k, f}
  BY Zenon DEF Init
<1>2. record # None => record.decoy = None
  <2> SUFFICES ASSUME record # None PROVE record.decoy = None
    OBVIOUS
  <2>1. PICK k \in Keys, p \in Passwords, f \in Phrases, c \in OlderContexts, l \in BOOLEAN :
          record = OlderRecord(k, p, f, c, l) /\ used = {k, f}
    BY <1>1
  <2> QED BY <2>1, OlderRecordOK
<1>3. StoredHoney(record) = None
  BY <1>2 DEF StoredHoney
<1>4. Stored(record) \in {c \in Contents : ~c.honey} \cup {None}
  <2>1. CASE record = None
    BY <2>1 DEF Stored
  <2>2. CASE record # None
    BY <2>2, StoredContents
  <2> QED BY <2>1, <2>2
<1> QED BY <1>1, <1>3, <1>4 DEF Two!Init

LEMMA TwoStep ==
  ASSUME DemoInv, DemoInv', ModeInv, Next, Orderly
  PROVE  Two!Next \/ UNCHANGED Two!vars
<1> DEFINE Goal == Two!Next \/ UNCHANGED Two!vars
<1>0. ASSUME NEW c \in Calls, Resumes(c) PROVE Current(calls[c])
  BY <1>0 DEF Orderly
<1>1. ASSUME NEW c \in Calls, Created(c) PROVE Goal
  BY <1>0, <1>1, TwoCreated DEF Two!Next, Resumes
<1>2. ASSUME NEW c \in Calls, Enrolled(c) PROVE Goal
  BY <1>0, <1>2, TwoEnrolled DEF Two!Next, Resumes
<1>3. ASSUME NEW c \in Calls, Saved(c) PROVE Goal
  BY <1>0, <1>3, TwoSaved DEF Two!Next, Resumes
<1>4. ASSUME NEW c \in Calls, Unlocked(c) PROVE Goal
  BY <1>0, <1>4, TwoUnlocked DEF Two!Next, Resumes
<1>5. ASSUME NEW c \in Calls, Exited(c) PROVE Goal
  BY <1>0, <1>5, TwoExited DEF Two!Next, Resumes
<1>6. ASSUME NEW c \in Calls, Deleted(c) PROVE Goal
  BY <1>0, <1>6, TwoDeleted DEF Two!Next, Resumes
<1>7. ASSUME NEW c \in Calls, Rewritten(c) PROVE Goal
  <2>1. enabled' = enabled /\ meta' = meta /\ payload' = payload
    BY <1>7 DEF Rewritten, view
  <2> QED BY <1>0, <1>7, <2>1, RewrittenStep, TwoContentsKept DEF Resumes
<1>8. ASSUME NEW c \in Calls, Opening(c), ~Created(c), ~Unlocked(c), ~Exited(c) PROVE Goal
  <2>1. ASSUME NEW k, NEW r, InstallSession(k, r) PROVE payload' = payload
    BY <2>1 DEF InstallSession
  <2>2. enabled' = enabled /\ meta' = meta /\ record' = record
    BY <1>8, Zenon DEF Opening, StartCreate, StartUnlock, StartPasskey, StartRecovery, StartExit,
      OpenCreated, PasskeyAnswers, UnlockFails, Recovered, Begin, store
  <2>3. payload' = payload
    BY <1>8, <2>1, Zenon DEF Opening, StartCreate, StartUnlock, StartPasskey, StartRecovery,
      StartExit, OpenCreated, PasskeyAnswers, UnlockFails, Recovered, Begin, view
  <2> QED BY <2>2, <2>3, TwoRecordKept
<1>9. ASSUME NEW c \in Calls, Changing(c),
             ~Enrolled(c), ~Saved(c), ~Rewritten(c), ~Deleted(c)
      PROVE  Goal
  <2>1. enabled' = enabled /\ meta' = meta /\ record' = record /\ payload' = payload
    BY <1>9, Zenon DEF Changing, StartSave, StartLink, StartEnroll, StartUpgrade, StartGenerate,
      StartDelete, StartChange, StartUpgradeRecovery, Generated, Begin, store, view
  <2> QED BY <2>1, TwoRecordKept
<1>10. CASE LoadEnd
  BY <1>10, TwoLoadEnd DEF Two!Next
<1>11. CASE Lock
  <2>1. /\ enabled' = enabled /\ meta' = meta /\ record' = record
        /\ payload' \in {payload, None}
    BY <1>11, LockHides DEF Lock, store
  <2> QED BY <2>1, TwoHides DEF Two!Next
<1>12. CASE Unlink
  <2>1. enabled' = enabled /\ meta' = meta /\ payload' = payload
    BY <1>12 DEF Unlink, view
  <2> QED BY <1>12, <2>1, UnlinkStep, TwoContentsKept
<1>13. CASE Commit
  <2>1. enabled' = enabled /\ meta' = meta /\ payload' = payload
    BY <1>13 DEF Commit
  <2> QED BY <1>13, <2>1, CommitStep, TwoContentsKept
<1>14. ASSUME NEW p \in Pages, Navigate(p) PROVE Goal
  <2>1. enabled' = enabled /\ meta' = meta /\ record' = record /\ payload' = None
    BY <1>14 DEF Navigate, Leaving, store
  <2> QED BY <2>1, TwoHides DEF Two!Next
<1>15. ASSUME NEW on \in BOOLEAN, Reload(on) PROVE Goal
  BY <1>15, TwoReload DEF Two!Next
<1> HIDE DEF Goal
<1>17. ASSUME NEW c \in Calls, Opening(c) \/ Changing(c) PROVE Goal
  BY <1>1, <1>2, <1>3, <1>4, <1>5, <1>6, <1>7, <1>8, <1>9, <1>17
<1>18. Goal
  BY <1>10, <1>11, <1>12, <1>13, <1>14, <1>15, <1>17, Zenon DEF Next, Goal
<1> QED BY <1>18 DEF Goal

LEMMA TwoStutter ==
  ASSUME UNCHANGED vars
  PROVE  UNCHANGED Two!vars
<1>1. enabled' = enabled /\ meta' = meta /\ record' = record /\ payload' = payload
  BY DEF vars, store, view
<1> QED BY <1>1, TwoRecordKept

(* Whatever pins, keys, roles and pages it has, and wherever locks and     *)
(* reloads fall between the halves of a call, the tab behaves as two       *)
(* vaults: the stored emergency, not the session, decides which one is     *)
(* shown and edited; the other one stays as it is. Nothing but a call that *)
(* ends over what it did not find takes a step the two vaults have not.    *)
THEOREM TabIsTwoVaults == Spec /\ [][Orderly]_vars => TwoVaultsKeptApart
<1>1. Init => ModeInv
  BY DEF Init, ModeInv
<1>2. DemoInv /\ ModeInv /\ [Next]_vars => ModeInv'
  BY ModeKept
<1>3. Init /\ DemoInv => Two!Init
  BY TwoInit
<1>4. DemoInv /\ DemoInv' /\ ModeInv /\ [Next]_vars /\ [Orderly]_vars
        => [Two!Next]_Two!vars
  BY TwoStep, TwoStutter
<1> QED
  BY <1>1, <1>2, <1>3, <1>4, DemoInvariant, PTL DEF Spec, TwoVaultsKeptApart, Two!Spec

-----------------------------------------------------------------------------
(* Types alone, which no order of the calls disturbs.                      *)

CallData(s) ==
  /\ s.op \in {"create", "enroll", "change", "upgrade_pw"} => s.secret \in Passwords
  /\ s.op = "upgrade_rec" => s.secret \in Phrases
  /\ s.op = "created" => s.about \in Envelope(Passwords, Keys)
  /\ s.op = "change" => s.about \in Passwords
  /\ s.op = "passkey" => s.rec.pk # None
  /\ s.op = "unlock" =>
       /\ s.about.role \in {"primary", "decoy"}
       /\ s.about.envelope \in Envelope(Passwords \cup {Prf}, Keys)
  /\ s.op = "save" => s.about \in Contents

CallTyped(s) ==
  /\ Call(s)
  /\ s.op \in Under => s.key \in Keys
  /\ s.op # "create" => s.rec \in Records
  /\ CallData(s)

DataTyped ==
  /\ VariablesOK
  /\ record \in Records \cup {None}
  /\ payload \in Contents \cup {None}
  /\ pending \in Envelope(Phrases, Keys) \cup {None}
  /\ load # None /\ load.read => load.result \in Contents \cup {None}

CallsTyped ==
  /\ calls = [c \in Calls |-> calls[c]]
  /\ \A c \in Calls : calls[c] # None => CallTyped(calls[c])

TypeInv == DataTyped /\ CallsTyped

(* A part of a record is replaced by one of its type.                      *)
LEMMA PartsReplaced ==
  ASSUME NEW r \in Records
  PROVE  /\ \A b \in [key : Keys, content : Contents] :
              /\ WithVaultBlob(r, b) \in Records
              /\ r.decoy # None => WithDecoyBlob(r, b) \in Records
         /\ \A e \in Envelope(Passwords, Keys) : [r EXCEPT !.vault.pw = e] \in Records
         /\ \A e \in Envelope(Phrases, Keys) : WithRecovery(r, e) \in Records
         /\ \A v \in Vaults : [r EXCEPT !.decoy = v] \in Records
         /\ [r EXCEPT !.pk = None] \in Records
<1>1. r.vault \in Vaults /\ r.decoy \in Vaults \cup {None}
  BY RecordFields
<1>2. ASSUME NEW v \in Vaults
      PROVE  [vault |-> v, pk |-> r.pk, decoy |-> r.decoy] \in Records
  BY DEF Records
<1>3. ASSUME NEW v \in Vaults
      PROVE  [vault |-> r.vault, pk |-> r.pk, decoy |-> v] \in Records
  BY DEF Records
<1>4. ASSUME NEW b \in [key : Keys, content : Contents] PROVE WithVaultBlob(r, b) \in Records
  <2> DEFINE v == [blob |-> b, pw |-> r.vault.pw, rec |-> r.vault.rec]
  <2>1. v \in Vaults
    BY <1>1 DEF Vaults
  <2>2. WithVaultBlob(r, b) = [vault |-> v, pk |-> r.pk, decoy |-> r.decoy]
    BY <1>1 DEF WithVaultBlob, Records, Vaults
  <2> HIDE DEF v
  <2> QED BY <1>2, <2>1, <2>2
<1>5. ASSUME NEW b \in [key : Keys, content : Contents], r.decoy # None
      PROVE  WithDecoyBlob(r, b) \in Records
  <2> DEFINE v == [blob |-> b, pw |-> r.decoy.pw, rec |-> r.decoy.rec]
  <2>1. v \in Vaults
    BY <1>1, <1>5 DEF Vaults
  <2>2. WithDecoyBlob(r, b) = [vault |-> r.vault, pk |-> r.pk, decoy |-> v]
    BY <1>1, <1>5 DEF WithDecoyBlob, Records, Vaults
  <2> HIDE DEF v
  <2> QED BY <1>3, <2>1, <2>2
<1>6. ASSUME NEW e \in Envelope(Passwords, Keys) PROVE [r EXCEPT !.vault.pw = e] \in Records
  <2> DEFINE v == [blob |-> r.vault.blob, pw |-> e, rec |-> r.vault.rec]
  <2>1. v \in Vaults
    BY <1>1 DEF Vaults
  <2>2. [r EXCEPT !.vault.pw = e] = [vault |-> v, pk |-> r.pk, decoy |-> r.decoy]
    BY <1>1 DEF Records, Vaults
  <2> HIDE DEF v
  <2> QED BY <1>2, <2>1, <2>2
<1>7. ASSUME NEW e \in Envelope(Phrases, Keys) PROVE WithRecovery(r, e) \in Records
  <2> DEFINE v == [blob |-> r.vault.blob, pw |-> r.vault.pw, rec |-> e]
  <2>1. v \in Vaults
    BY <1>1 DEF Vaults
  <2>2. WithRecovery(r, e) = [vault |-> v, pk |-> r.pk, decoy |-> r.decoy]
    BY <1>1 DEF WithRecovery, Records, Vaults
  <2> HIDE DEF v
  <2> QED BY <1>2, <2>1, <2>2
<1>8. /\ \A v \in Vaults : [r EXCEPT !.decoy = v] \in Records
      /\ [r EXCEPT !.pk = None] \in Records
  BY DEF Records
<1> QED BY <1>4, <1>5, <1>6, <1>7, <1>8

LEMMA RewriteTyped ==
  ASSUME NEW s, s.op \in Rewrites, s.key \in Keys, s.rec \in Records, CallData(s),
         NEW r, r = Rewrite(s), r # None
  PROVE  r \in Records
<1>1. \E e :
        \/ e \in Envelope(Passwords, Keys) /\ r = [s.rec EXCEPT !.vault.pw = e]
        \/ e \in Envelope(Phrases, Keys) /\ r = WithRecovery(s.rec, e)
  BY RewriteMade DEF CallData
<1> QED BY <1>1, PartsReplaced

LEMMA DecryptTyped ==
  ASSUME NEW r \in Records, NEW k, NEW emergency,
         NEW content, content = DecryptForSession(r, k, emergency)
  PROVE  content \in Contents \cup {None}
<1>1. r.vault.blob.content \in Contents
      /\ (r.decoy # None => r.decoy.blob.content \in Contents)
  BY RecordFields, VaultFields
<1>2. PICK blob : blob = SessionEncryptedBlob(r, emergency)
  OBVIOUS
<1>3. blob # None => blob = r.vault.blob \/ (r.decoy # None /\ blob = r.decoy.blob)
  BY <1>2 DEF SessionEncryptedBlob
<1>4. content # None => blob # None /\ content = blob.content
  BY <1>2 DEF DecryptForSession, DecryptVaultPayload
<1> QED BY <1>1, <1>3, <1>4

LEMMA RefreshTyped ==
  ASSUME NEW r \in Records \cup {None}, NEW k, NEW emergency, NEW l,
         l = IF r = None THEN [read |-> FALSE]
             ELSE [read |-> TRUE, result |-> DecryptForSession(r, k, emergency)]
  PROVE  l.read => l.result \in Contents \cup {None}
<1>1. CASE r = None
  BY <1>1
<1>2. CASE r # None
  <2>1. l.result = DecryptForSession(r, k, emergency)
    BY <1>2
  <2> QED BY <1>2, <2>1, DecryptTyped
<1> QED BY <1>1, <1>2

LEMMA RecoveryTyped ==
  ASSUME NEW r \in Records, NEW k \in Keys, NEW secret, NEW f \in Phrases, NEW e,
         e = RotateRecoveryPhrase(r.vault.pw, secret, k, f, DefaultProfile), e # None
  PROVE  e \in Envelope(Phrases, Keys)
<1>1. r.vault.pw \in Envelope(Passwords, Keys)
  BY RecordFields, VaultFields
<1> QED BY <1>1, RotatedRecovery

(* Of the calls one begins, goes on or ends, or all are left by their      *)
(* page.                                                                   *)
LEMMA TypedCall ==
  ASSUME CallsTyped, NEW c \in Calls, NEW s,
         calls' = [calls EXCEPT ![c] = s], s # None => CallTyped(s)
  PROVE  CallsTyped'
<1>1. calls' = [x \in Calls |-> IF x = c THEN s ELSE calls[x]]
  BY DEF CallsTyped
<1>2. ASSUME NEW x \in Calls, calls'[x] # None PROVE CallTyped(calls[x])'
  <2>1. PICK s2 : s2 = calls'[x]
    OBVIOUS
  <2>2. s2 # None /\ s2 \in {s, calls[x]}
    BY <1>1, <1>2, <2>1
  <2>3. CallTyped(s2)
    BY <2>2 DEF CallsTyped
  <2> QED BY <2>1, <2>3
<1>3. calls' = [x \in Calls |-> calls'[x]]
  BY <1>1
<1> QED BY <1>2, <1>3 DEF CallsTyped

LEMMA TypedEnd ==
  ASSUME CallsTyped, NEW c \in Calls, End(c)
  PROVE  CallsTyped'
BY TypedCall DEF End

LEMMA TypedSteady ==
  ASSUME CallsTyped, calls' = calls
  PROVE  CallsTyped'
<1>1. ASSUME NEW c \in Calls, calls'[c] # None PROVE CallTyped(calls[c])'
  <2>1. PICK s : s = calls[c] /\ s = calls'[c]
    OBVIOUS
  <2>2. CallTyped(s)
    BY <1>1, <2>1 DEF CallsTyped
  <2> QED BY <2>1, <2>2
<1> QED BY <1>1 DEF CallsTyped

LEMMA TypedLeaving ==
  ASSUME CallsTyped, Leaving
  PROVE  CallsTyped'
<1>1. calls' = [c \in Calls |-> IF calls[c] = None THEN None
                                ELSE [calls[c] EXCEPT !.mounted = FALSE]]
  BY DEF Leaving
<1>2. ASSUME NEW c \in Calls, calls'[c] # None PROVE CallTyped(calls[c])'
  <2>1. PICK s : s = calls[c]
    OBVIOUS
  <2>2. s # None /\ calls'[c] = [s EXCEPT !.mounted = FALSE]
    BY <1>1, <1>2, <2>1
  <2>3. CallTyped(s)
    BY <2>1, <2>2 DEF CallsTyped
  <2>4. PICK s2 : s2 = [op |-> s.op, rec |-> s.rec, key |-> s.key, secret |-> s.secret,
                        about |-> s.about, mounted |-> FALSE]
    OBVIOUS
  <2>5. [s EXCEPT !.mounted = FALSE] = s2
    <3> DEFINE fields(m) == [op |-> s.op, rec |-> s.rec, key |-> s.key, secret |-> s.secret,
                             about |-> s.about, mounted |-> m]
    <3>1. s = fields(s.mounted)
      BY <2>3 DEF CallTyped, Call
    <3>2. \A m, x : [fields(m) EXCEPT !.mounted = x] = fields(x)
      OBVIOUS
    <3>3. s2 = fields(FALSE)
      BY <2>4
    <3> HIDE DEF fields
    <3>4. [fields(s.mounted) EXCEPT !.mounted = FALSE] = fields(FALSE)
      BY <3>2
    <3> QED BY <3>1, <3>3, <3>4
  <2>6. /\ s2.op = s.op /\ s2.rec = s.rec /\ s2.key = s.key /\ s2.secret = s.secret
        /\ s2.about = s.about /\ s2.mounted = FALSE
    BY <2>4
  <2>7. CallTyped(s2)
    BY <2>3, <2>4, <2>6 DEF CallTyped, CallData, Call
  <2> QED BY <2>2, <2>5, <2>7
<1>3. calls' = [c \in Calls |-> calls'[c]]
  BY <1>1
<1> QED BY <1>2, <1>3 DEF CallsTyped

LEMMA TypedData ==
  ASSUME DataTyped, UNCHANGED <<store, enabled, session, view>>, used' \in SUBSET (Keys \cup Phrases)
  PROVE  DataTyped'
BY DEF DataTyped, VariablesOK, store, session, view

LEMMA TypedBegin ==
  ASSUME TypeInv, NEW c \in Calls, NEW op, NEW secret, NEW about,
         Begin(c, op, secret, about),
         op \in Under => key # None, op # "create" => record # None,
         \A s : s = [op |-> op, rec |-> record, key |-> key, secret |-> secret,
                     about |-> about, mounted |-> TRUE] => CallData(s)
  PROVE  TypeInv'
<1>1. PICK s : s = [op |-> op, rec |-> record, key |-> key, secret |-> secret,
                    about |-> about, mounted |-> TRUE]
  OBVIOUS
<1>2. calls' = [calls EXCEPT ![c] = s] /\ UNCHANGED <<store, enabled, session, view, used>>
  BY <1>1 DEF Begin
<1>3. s.op = op /\ s.rec = record /\ s.key = key /\ s.secret = secret /\ s.about = about
  BY <1>1
<1>4. CallTyped(s)
  BY <1>1, <1>3 DEF CallTyped, Call, TypeInv, DataTyped, VariablesOK
<1>5. CallsTyped'
  BY <1>2, <1>4, TypedCall DEF TypeInv
<1>6. DataTyped'
  BY <1>2, TypedData DEF TypeInv, DataTyped, VariablesOK
<1> QED BY <1>5, <1>6 DEF TypeInv

(* One that is about nothing but what was typed.                           *)
LEMMA TypedBeginPlain ==
  ASSUME TypeInv, NEW c \in Calls, NEW op, NEW secret, NEW about,
         Begin(c, op, secret, about), op \notin {"created", "passkey", "unlock", "save"},
         op \in Under => key # None, op # "create" => record # None,
         op \in {"create", "enroll", "change", "upgrade_pw"} => secret \in Passwords,
         op = "upgrade_rec" => secret \in Phrases, op = "change" => about \in Passwords
  PROVE  TypeInv'
<1>1. ASSUME NEW s, s = [op |-> op, rec |-> record, key |-> key, secret |-> secret,
                         about |-> about, mounted |-> TRUE]
      PROVE  CallData(s)
  <2>1. s.op = op /\ s.secret = secret /\ s.about = about
    BY <1>1
  <2> QED BY <2>1 DEF CallData
<1> QED BY <1>1, TypedBegin

LEMMA TypedStarts ==
  ASSUME TypeInv, NEW c \in Calls,
         \/ \E p \in Passwords : StartCreate(c, p) \/ StartUnlock(c, p)
         \/ \E d \in BOOLEAN : StartPasskey(c, d)
         \/ \E f \in used \cap Phrases : StartRecovery(c, f) \/ StartExit(c, f)
         \/ StartSave(c) \/ StartLink(c)
         \/ \E p \in Passwords :
              \/ StartEnroll(c, p) \/ StartUpgrade(c, p)
              \/ StartGenerate(c, p) \/ StartDelete(c, p)
              \/ \E q \in Passwords : StartChange(c, p, q)
         \/ \E f \in used \cap Phrases : StartUpgradeRecovery(c, f)
  PROVE  TypeInv'
<1>1. ASSUME NEW p \in Passwords, StartCreate(c, p) PROVE TypeInv'
  <2>1. Begin(c, "create", p, None)
    BY <1>1 DEF StartCreate
  <2> QED BY <2>1, TypedBeginPlain DEF Under, Rewrites
<1>2. ASSUME NEW p \in Passwords, StartUnlock(c, p) PROVE TypeInv'
  <2> DEFINE target == UnlockTarget(meta.sequence /\ p \in DuressPasswords)
             about == [role |-> target,
                       envelope |-> IF target = "decoy" THEN record.decoy.pw ELSE record.vault.pw]
  <2>1. /\ record # None /\ (target = "decoy" => record.decoy # None)
        /\ Begin(c, "unlock", p, about)
    BY <1>2 DEF StartUnlock
  <2>2. target \in {"primary", "decoy"}
    BY DEF UnlockTarget
  <2>3. record \in Records
    BY <2>1 DEF TypeInv, DataTyped
  <2>4. /\ record.vault.pw \in Envelope(Passwords, Keys)
        /\ record.decoy # None => record.decoy.pw \in Envelope(Passwords, Keys)
    BY <2>3, RecordFields, VaultFields
  <2>5. \A e : e \in Envelope(Passwords, Keys) => e \in Envelope(Passwords \cup {Prf}, Keys)
    BY DEF Envelope
  <2> HIDE DEF target
  <2>6. /\ about.role \in {"primary", "decoy"}
        /\ about.envelope \in Envelope(Passwords \cup {Prf}, Keys)
    BY <2>1, <2>2, <2>4, <2>5
  <2> HIDE DEF about
  <2>7. ASSUME NEW s, s = [op |-> "unlock", rec |-> record, key |-> key, secret |-> p,
                           about |-> about, mounted |-> TRUE]
        PROVE  CallData(s)
    <3>1. s.op = "unlock" /\ s.about = about
      BY <2>7
    <3> QED BY <3>1, <2>6 DEF CallData
  <2> QED BY <2>1, <2>7, TypedBegin DEF Under, Rewrites
<1>3. ASSUME NEW d \in BOOLEAN, StartPasskey(c, d) PROVE TypeInv'
  <2>1. /\ record # None /\ record.pk # None
        /\ Begin(c, "passkey", Prf, [duress |-> d])
    BY <1>3 DEF StartPasskey
  <2>2. ASSUME NEW s, s = [op |-> "passkey", rec |-> record, key |-> key, secret |-> Prf,
                           about |-> [duress |-> d], mounted |-> TRUE]
        PROVE  CallData(s)
    <3>1. s.op = "passkey" /\ s.rec = record
      BY <2>2
    <3> QED BY <3>1, <2>1 DEF CallData
  <2> QED BY <2>1, <2>2, TypedBegin DEF Under, Rewrites
<1>4. ASSUME NEW f, StartRecovery(c, f) PROVE TypeInv'
  <2>1. record # None /\ Begin(c, "recover", f, None)
    BY <1>4 DEF StartRecovery
  <2> QED BY <2>1, TypedBeginPlain DEF Under, Rewrites
<1>5. ASSUME NEW f, StartExit(c, f) PROVE TypeInv'
  <2>1. record # None /\ Begin(c, "exit", f, None)
    BY <1>5 DEF StartExit
  <2> QED BY <2>1, TypedBeginPlain DEF Under, Rewrites
<1>6. CASE StartSave(c)
  <2>1. PICK about : about = [payload EXCEPT !.notes = @ + 1]
    OBVIOUS
  <2>2. /\ key # None /\ record # None /\ payload # None /\ payload.notes < MaxNotes
        /\ Begin(c, "save", None, about)
    BY <1>6, <2>1 DEF StartSave
  <2>3. payload \in [honey : BOOLEAN, notes : 0..MaxNotes]
    BY <2>2 DEF TypeInv, DataTyped, Contents
  <2>4. payload.notes + 1 \in 0..MaxNotes
    BY <2>2, <2>3, ConstantsAssumption, SMT
  <2>5. about \in Contents
    BY <2>1, <2>3, <2>4 DEF Contents
  <2>6. ASSUME NEW s, s = [op |-> "save", rec |-> record, key |-> key, secret |-> None,
                           about |-> about, mounted |-> TRUE]
        PROVE  CallData(s)
    <3>1. s.op = "save" /\ s.about = about
      BY <2>6
    <3> QED BY <3>1, <2>5 DEF CallData
  <2> QED BY <2>2, <2>6, TypedBegin
<1>7. CASE StartLink(c)
  <2>1. key # None /\ record # None /\ Begin(c, "link", None, None)
    BY <1>7 DEF StartLink, OnSettings
  <2> QED BY <2>1, TypedBeginPlain
<1>8. ASSUME NEW p \in Passwords, StartEnroll(c, p) PROVE TypeInv'
  <2>1. key # None /\ record # None /\ Begin(c, "enroll", p, None)
    BY <1>8 DEF StartEnroll, OnSettings
  <2> QED BY <2>1, TypedBeginPlain
<1>9. ASSUME NEW p \in Passwords, StartUpgrade(c, p) PROVE TypeInv'
  <2>1. key # None /\ record # None /\ Begin(c, "upgrade_pw", p, None)
    BY <1>9 DEF StartUpgrade, OnSettings
  <2> QED BY <2>1, TypedBeginPlain
<1>10. ASSUME NEW p \in Passwords, StartGenerate(c, p) \/ StartDelete(c, p) PROVE TypeInv'
  <2>1. key # None /\ record # None
        /\ (Begin(c, "generate", p, None) \/ Begin(c, "delete", p, None))
    BY <1>10 DEF StartGenerate, StartDelete, OnSettings
  <2> QED BY <2>1, TypedBeginPlain
<1>11. ASSUME NEW p \in Passwords, NEW q \in Passwords, StartChange(c, p, q) PROVE TypeInv'
  <2>1. key # None /\ record # None /\ Begin(c, "change", p, q)
    BY <1>11 DEF StartChange, OnSettings
  <2> QED BY <2>1, TypedBeginPlain
<1>12. ASSUME NEW f \in used \cap Phrases, StartUpgradeRecovery(c, f) PROVE TypeInv'
  <2>1. key # None /\ record # None /\ Begin(c, "upgrade_rec", f, None)
    BY <1>12 DEF StartUpgradeRecovery, OnSettings
  <2> QED BY <2>1, TypedBeginPlain
<1> QED
  BY <1>1, <1>2, <1>3, <1>4, <1>5, <1>6, <1>7, <1>8, <1>9, <1>10, <1>11, <1>12, Zenon

(* A session of some key is installed over the record there is, or none.   *)
LEMMA InstallTyped ==
  ASSUME DataTyped, NEW k \in Keys \cup {None}, NEW r \in {"primary", "decoy"},
         InstallSession(k, r), record' = record, enabled' = enabled, used' = used,
         meta' \in [active : BOOLEAN, sequence : BOOLEAN]
  PROVE  DataTyped'
<1>1. /\ key' = k /\ role' = r /\ pin' = (pin \/ r = "decoy")
      /\ page' = page /\ payload' = payload /\ pending' = pending
  BY DEF InstallSession
<1>2. load' # None /\ load'.read => load'.result \in Contents \cup {None}
  <2>1. CASE page = "vault" /\ key = None
    <3>1. load' = IF record' = None THEN [read |-> FALSE]
                  ELSE [read |-> TRUE,
                        result |-> DecryptForSession(record', key', pin' \/ role' = "decoy")]
      BY <2>1 DEF InstallSession, Refresh
    <3> QED BY <3>1, RefreshTyped DEF DataTyped
  <2>2. CASE ~(page = "vault" /\ key = None)
    BY <2>2 DEF InstallSession, DataTyped
  <2> QED BY <2>1, <2>2
<1>3. loading' \in BOOLEAN
  BY DEF InstallSession, Refresh, DataTyped, VariablesOK
<1> QED BY <1>1, <1>2, <1>3 DEF DataTyped, VariablesOK

LEMMA LockTyped ==
  ASSUME DataTyped, LockSession, record' \in {record, None}, enabled' = enabled, used' = used,
         pin' \in BOOLEAN, meta' \in [active : BOOLEAN, sequence : BOOLEAN]
  PROVE  DataTyped'
BY DEF DataTyped, VariablesOK, LockSession

LEMMA RecordTyped ==
  ASSUME DataTyped, record' \in Records, UNCHANGED <<enabled, session, page, loading, load>>,
         payload' \in Contents \cup {None}, pending' \in Envelope(Phrases, Keys) \cup {None},
         used' \in SUBSET (Keys \cup Phrases),
         meta' \in [active : BOOLEAN, sequence : BOOLEAN]
  PROVE  DataTyped'
BY DEF DataTyped, VariablesOK, session

LEMMA TheTyped ==
  ASSUME TypeInv, NEW c \in Calls, calls[c] # None
  PROVE  CallTyped(calls[c])
  BY DEF TypeInv, CallsTyped

LEMMA CreatedTyped ==
  ASSUME TypeInv, NEW c \in Calls, Created(c)
  PROVE  TypeInv'
<1>1. PICK s : s = calls[c]
  OBVIOUS
<1>2. CallTyped(s) /\ s.op = "create"
  BY <1>1, TheTyped DEF Created, Awaited
<1>3. PICK k \in Keys \ used, f \in Phrases \ used :
        /\ record' = NewRecord(k, s.secret, f)
        /\ used' = used \cup {k, f}
        /\ calls' = [calls EXCEPT ![c].op = "created", ![c].rec = record',
                                  ![c].about = record'.vault.pw]
  BY <1>1 DEF Created
<1>4. PICK r : r = NewRecord(k, s.secret, f)
  OBVIOUS
<1>5. s.secret \in Passwords
  BY <1>2 DEF CallTyped, CallData
<1>6. r \in Records
  <2>1. Sealed(r, {k})
    BY <1>4, <1>5, NewRecordOK
  <2> QED BY <2>1 DEF Sealed
<1>7. r.vault.pw \in Envelope(Passwords, Keys)
  BY <1>6, RecordFields, VaultFields
<1>8. PICK s2 : s2 = [op |-> "created", rec |-> r, key |-> s.key, secret |-> s.secret,
                      about |-> r.vault.pw, mounted |-> s.mounted]
  OBVIOUS
<1>9. calls' = [calls EXCEPT ![c] = s2]
  <2>1. calls = [x \in Calls |-> calls[x]] /\ Call(s)
    BY <1>2 DEF TypeInv, CallsTyped, CallTyped
  <2>2. PICK a : a = r.vault.pw
    OBVIOUS
  <2>3. calls' = [calls EXCEPT ![c] = [[[s EXCEPT !.op = "created"]
                                          EXCEPT !.rec = r] EXCEPT !.about = a]]
    BY <1>1, <1>3, <1>4, <2>1, <2>2
  <2>4. s2 = [op |-> "created", rec |-> r, key |-> s.key, secret |-> s.secret,
              about |-> a, mounted |-> s.mounted]
    BY <2>2, <1>8
  <2>5. [[[s EXCEPT !.op = "created"] EXCEPT !.rec = r] EXCEPT !.about = a] = s2
    BY <2>1, <2>4, CallGoesOnWith
  <2> QED BY <2>3, <2>5
<1>10. CallTyped(s2)
  <2>1. /\ s2.op = "created" /\ s2.rec = r /\ s2.key = s.key /\ s2.secret = s.secret
        /\ s2.about = r.vault.pw /\ s2.mounted = s.mounted
    BY <1>8
  <2> QED BY <1>6, <1>7, <1>8, <2>1 DEF CallTyped, CallData, Call, Under, Rewrites
<1>11. CallsTyped'
  BY <1>9, <1>10, TypedCall DEF TypeInv
<1>12. DataTyped'
  BY <1>3, <1>4, <1>6, RecordTyped DEF Created, TypeInv, DataTyped, VariablesOK, view, session
<1> QED BY <1>11, <1>12 DEF TypeInv

LEMMA PasskeyTyped ==
  ASSUME TypeInv, NEW c \in Calls, PasskeyAnswers(c)
  PROVE  TypeInv'
<1>1. PICK s : s = calls[c]
  OBVIOUS
<1>2. CallTyped(s) /\ s.op = "passkey"
  BY <1>1, TheTyped DEF PasskeyAnswers, Awaited
<1>3. DataTyped'
  BY TypedData DEF PasskeyAnswers, TypeInv, DataTyped, VariablesOK
<1>4. CASE End(c)
  BY <1>3, <1>4, TypedEnd DEF TypeInv
<1>5. CASE ~End(c)
  <2>1. PICK target : target = UnlockTarget(s.about.duress)
    OBVIOUS
  <2>2. target \in {"primary", "decoy"}
    BY <2>1 DEF UnlockTarget
  <2>3. PICK about : about = [role |-> target, envelope |-> s.rec.pk]
    OBVIOUS
  <2>4. calls' = [calls EXCEPT ![c].op = "unlock", ![c].about = about]
    BY <1>1, <1>5, <2>1, <2>3 DEF PasskeyAnswers
  <2>5. PICK s2 : s2 = [op |-> "unlock", rec |-> s.rec, key |-> s.key, secret |-> s.secret,
                        about |-> about, mounted |-> s.mounted]
    OBVIOUS
  <2>6. calls' = [calls EXCEPT ![c] = s2]
    <3>1. calls = [x \in Calls |-> calls[x]] /\ Call(s)
      BY <1>2 DEF TypeInv, CallsTyped, CallTyped
    <3>2. calls' = [calls EXCEPT ![c] = [[s EXCEPT !.op = "unlock"] EXCEPT !.about = about]]
      BY <1>1, <2>4, <3>1
    <3>3. [[s EXCEPT !.op = "unlock"] EXCEPT !.about = about] = s2
      BY <2>5, <3>1, CallGoesOn
    <3> QED BY <3>2, <3>3
  <2>7. /\ s2.op = "unlock" /\ s2.rec = s.rec /\ s2.key = s.key /\ s2.secret = s.secret
        /\ s2.about = about /\ s2.mounted = s.mounted
    BY <2>5
  <2>8. s.rec \in Records /\ s.rec.pk # None
    BY <1>2 DEF CallTyped, CallData
  <2>9. s.rec.pk \in Envelope({Prf}, Keys)
    BY <2>8, RecordFields
  <2>10. about.role \in {"primary", "decoy"} /\ about.envelope \in Envelope(Passwords \cup {Prf}, Keys)
    BY <2>2, <2>3, <2>9 DEF Envelope
  <2>11. CallTyped(s2)
    BY <2>5, <2>7, <2>8, <2>10 DEF CallTyped, CallData, Call, Under, Rewrites
  <2> QED BY <1>3, <2>6, <2>11, TypedCall DEF TypeInv
<1> QED BY <1>4, <1>5

LEMMA OpenedTyped ==
  ASSUME NEW S, NEW e \in Envelope(S, Keys), NEW secret, NEW k,
         k = UnlockEnvelope(e, secret, DefaultProfile)
  PROVE  k \in Keys \cup {None}
BY OpenedKey

(* A call that opens, leaves or deletes the vault.                         *)
LEMMA SessionTyped ==
  ASSUME TypeInv, NEW c \in Calls,
         OpenCreated(c) \/ Unlocked(c) \/ Recovered(c) \/ Exited(c) \/ Deleted(c)
  PROVE  TypeInv'
<1>1. PICK s : s = calls[c]
  OBVIOUS
<1>2. CallTyped(s)
  BY <1>1, TheTyped DEF OpenCreated, Unlocked, Recovered, Exited, Deleted, Awaited
<1>3. End(c) /\ enabled' = enabled /\ used' = used
  BY DEF OpenCreated, Unlocked, Recovered, Exited, Deleted
<1>4. /\ meta \in [active : BOOLEAN, sequence : BOOLEAN] /\ pin \in BOOLEAN
      /\ DataTyped /\ used \in SUBSET (Keys \cup Phrases)
  BY DEF TypeInv, DataTyped, VariablesOK
<1>5. CASE OpenCreated(c)
  <2>1. s.about \in Envelope(Passwords, Keys)
    BY <1>1, <1>2, <1>5 DEF OpenCreated, Awaited, CallTyped, CallData
  <2>2. PICK k : k = UnlockEnvelope(s.about, s.secret, DefaultProfile)
    OBVIOUS
  <2>3. k \in Keys \cup {None}
    BY <2>1, <2>2, OpenedTyped
  <2>4. InstallSession(k, "primary") /\ record' = record /\ meta' = meta
    BY <1>1, <1>5, <2>2 DEF OpenCreated, store
  <2> QED BY <1>3, <1>4, <2>3, <2>4, InstallTyped, TypedEnd DEF TypeInv
<1>6. CASE Unlocked(c)
  <2>1. /\ s.about.role \in {"primary", "decoy"}
        /\ s.about.envelope \in Envelope(Passwords \cup {Prf}, Keys)
    BY <1>1, <1>2, <1>6 DEF Unlocked, Awaited, CallTyped, CallData
  <2>2. PICK k : k = UnlockEnvelope(s.about.envelope, s.secret, DefaultProfile)
    OBVIOUS
  <2>3. k \in Keys \cup {None}
    BY <2>1, <2>2, OpenedTyped
  <2>4. /\ InstallSession(k, s.about.role) /\ record' = record
        /\ meta' = [meta EXCEPT !.active = @ \/ s.about.role = "decoy"]
    BY <1>1, <1>6, <2>2 DEF Unlocked
  <2>5. PICK active \in BOOLEAN : active = (meta.active \/ s.about.role = "decoy")
    OBVIOUS
  <2>6. meta' = [meta EXCEPT !.active = active]
    BY <2>4, <2>5
  <2>7. meta' \in [active : BOOLEAN, sequence : BOOLEAN]
    BY <1>4, <2>6
  <2> QED BY <1>3, <1>4, <2>1, <2>3, <2>4, <2>7, InstallTyped, TypedEnd DEF TypeInv
<1>7. CASE Recovered(c)
  <2>1. s.rec \in Records
    BY <1>1, <1>2, <1>7 DEF Recovered, Awaited, CallTyped
  <2>2. s.rec.vault.rec \in Envelope(Phrases, Keys)
    BY <2>1, RecordFields, VaultFields
  <2>3. PICK k : k = UnlockEnvelope(s.rec.vault.rec, s.secret, DefaultProfile)
    OBVIOUS
  <2>4. k \in Keys \cup {None}
    BY <2>2, <2>3, OpenedTyped
  <2>5. /\ meta' = meta /\ record' = record
        /\ InstallSession(k, "primary") \/ UNCHANGED <<session, view>>
    BY <1>1, <1>7, <2>3 DEF Recovered
  <2>6. DataTyped'
    BY <1>3, <1>4, <2>4, <2>5, InstallTyped, TypedData DEF store
  <2> QED BY <1>3, <2>6, TypedEnd DEF TypeInv
<1>8. CASE Exited(c)
  <2>1. /\ record' = record
        /\ \/ pin' = FALSE /\ LockSession /\ meta' = [meta EXCEPT !.active = FALSE]
           \/ UNCHANGED <<session, view, meta>>
    BY <1>8 DEF Exited
  <2>2. DataTyped'
    BY <1>3, <1>4, <2>1, LockTyped, TypedData DEF store
  <2> QED BY <1>3, <2>2, TypedEnd DEF TypeInv
<1>9. CASE Deleted(c)
  <2>1. /\ meta' = meta /\ pin' = pin
        /\ \/ record' = None /\ LockSession
           \/ UNCHANGED <<record, key, role, view>>
    BY <1>9 DEF Deleted
  <2>2. DataTyped'
    BY <1>3, <1>4, <2>1, LockTyped, TypedData DEF store, session
  <2> QED BY <1>3, <2>2, TypedEnd DEF TypeInv
<1> QED BY <1>5, <1>6, <1>7, <1>8, <1>9

(* A call that stores a record or a rotation.                              *)
LEMMA StoredTyped ==
  ASSUME TypeInv, NEW c \in Calls, Enrolled(c) \/ Saved(c) \/ Rewritten(c) \/ Generated(c)
  PROVE  TypeInv'
<1>1. PICK s : s = calls[c]
  OBVIOUS
<1>2. CallTyped(s)
  BY <1>1, TheTyped DEF Enrolled, Saved, Rewritten, Generated, Awaited
<1>3. /\ s.op \in {"enroll", "save", "generate"} \cup Rewrites
      /\ End(c) /\ UNCHANGED <<enabled, session, page, loading, load>>
  BY <1>1 DEF Enrolled, Saved, Rewritten, Generated, Awaited, Rewrites, view
<1>4. s.rec \in Records /\ s.key \in Keys /\ CallData(s)
  BY <1>2, <1>3 DEF CallTyped, Under, Rewrites
<1>5. /\ DataTyped /\ used \in SUBSET (Keys \cup Phrases)
      /\ meta \in [active : BOOLEAN, sequence : BOOLEAN]
      /\ payload \in Contents \cup {None} /\ record \in Records \cup {None}
      /\ pending \in Envelope(Phrases, Keys) \cup {None}
  BY DEF TypeInv, DataTyped, VariablesOK
<1>6. CASE Enrolled(c)
  <2>1. s.secret \in Passwords
    BY <1>1, <1>4, <1>6 DEF Enrolled, Awaited, CallData
  <2>2. PICK k \in Keys \ used, f \in Phrases \ used :
          /\ record' = [s.rec EXCEPT !.decoy = CreateDecoyVaultSetup(k, s.secret, f)]
          /\ used' = used \cup {k, f}
    BY <1>1, <1>6 DEF Enrolled
  <2>3. [honey |-> TRUE, notes |-> 0] \in Contents
    BY ConstantsAssumption, SMT DEF Contents
  <2>4. CreateDecoyVaultSetup(k, s.secret, f) \in Vaults
    BY <2>1, <2>3, VaultOfOK DEF CreateDecoyVaultSetup
  <2>5. record' \in Records
    BY <1>4, <2>2, <2>4, PartsReplaced
  <2>6. meta' = [meta EXCEPT !.sequence = TRUE] /\ payload' = payload /\ pending' = pending
    BY <1>6 DEF Enrolled, view
  <2>7. DataTyped'
    BY <1>3, <1>5, <2>2, <2>5, <2>6, RecordTyped
  <2> QED BY <1>3, <2>7, TypedEnd DEF TypeInv
<1>7. CASE Saved(c)
  <2>1. s.about \in Contents
    BY <1>1, <1>4, <1>7 DEF Saved, Awaited, CallData
  <2>2. PICK blob : blob = EncryptVaultPayload(s.about, s.key)
    OBVIOUS
  <2>3. blob \in [key : Keys, content : Contents]
    BY <1>4, <2>1, <2>2, NewBlob
  <2>4. /\ record' = IF Emergency /\ s.rec.decoy # None
                     THEN WithDecoyBlob(s.rec, blob) ELSE WithVaultBlob(s.rec, blob)
        /\ payload' = IF s.mounted THEN s.about ELSE payload
    BY <1>1, <1>7, <2>2, Zenon DEF Saved, WithDecoyBlob, WithVaultBlob
  <2>5. record' \in Records
    BY <1>4, <2>3, <2>4, PartsReplaced
  <2>6. meta' = meta /\ used' = used /\ pending' = pending
    BY <1>7 DEF Saved
  <2>7. DataTyped'
    BY <1>3, <1>5, <2>1, <2>4, <2>5, <2>6, RecordTyped
  <2> QED BY <1>3, <2>7, TypedEnd DEF TypeInv
<1>8. CASE Rewritten(c)
  <2>1. PICK r : r = Rewrite(s)
    OBVIOUS
  <2>2. /\ record' = IF r = None THEN record ELSE r
        /\ meta' = meta /\ used' = used /\ payload' = payload /\ pending' = pending
    BY <1>1, <1>8, <2>1 DEF Rewritten, view
  <2>3. s.op \in Rewrites
    BY <1>1, <1>8 DEF Rewritten, Rewrites
  <2>4. r # None => r \in Records
    BY <1>4, <2>1, <2>3, RewriteTyped
  <2>5. DataTyped'
    BY <1>3, <1>5, <2>2, <2>4 DEF DataTyped, VariablesOK, session
  <2> QED BY <1>3, <2>5, TypedEnd DEF TypeInv
<1>9. CASE Generated(c)
  <2>1. PICK f \in Phrases \ used :
          LET e == RotateRecoveryPhrase(calls[c].rec.vault.pw, calls[c].secret, calls[c].key,
                                        f, DefaultProfile)
          IN  /\ pending' = IF calls[c].mounted /\ e # None THEN e ELSE pending
              /\ used' = IF e = None THEN used ELSE used \cup {f}
    BY <1>9, Zenon DEF Generated
  <2>2. PICK e :
          /\ e = RotateRecoveryPhrase(s.rec.vault.pw, s.secret, s.key, f, DefaultProfile)
          /\ pending' = IF s.mounted /\ e # None THEN e ELSE pending
          /\ used' = IF e = None THEN used ELSE used \cup {f}
    BY <1>1, <2>1
  <2>3. e # None => e \in Envelope(Phrases, Keys)
    BY <1>4, <2>2, RecoveryTyped
  <2>4. record' = record /\ meta' = meta /\ payload' = payload
    BY <1>9 DEF Generated, store
  <2>5. DataTyped'
    BY <1>3, <1>5, <2>2, <2>3, <2>4 DEF DataTyped, VariablesOK, session
  <2> QED BY <1>3, <2>5, TypedEnd DEF TypeInv
<1> QED BY <1>6, <1>7, <1>8, <1>9

(* The steps of no call.                                                   *)
LEMMA PagesTyped ==
  ASSUME TypeInv,
         \/ LoadEnd \/ Lock \/ Unlink \/ Commit \/ UNCHANGED vars
         \/ \E p \in Pages : Navigate(p)
         \/ \E on \in BOOLEAN : Reload(on)
  PROVE  TypeInv'
<1>1. DataTyped /\ CallsTyped
  BY DEF TypeInv
<1>2. CASE LoadEnd
  <2>1. /\ calls' = calls /\ record' = record /\ meta' = meta /\ enabled' = enabled
        /\ UNCHANGED session /\ page' = page /\ pending' = pending /\ used' = used
        /\ loading' = FALSE /\ load' = None
    BY <1>2 DEF LoadEnd, store
  <2>2. payload' \in Contents \cup {None}
    BY <1>1, <1>2 DEF LoadEnd, DataTyped
  <2>3. DataTyped'
    BY <1>1, <2>1, <2>2 DEF DataTyped, VariablesOK, session
  <2> QED BY <1>1, <2>1, <2>3, TypedSteady DEF TypeInv
<1>3. CASE Lock
  <2>1. DataTyped'
    BY <1>1, <1>3, LockTyped DEF Lock, store, DataTyped, VariablesOK
  <2> QED BY <1>1, <1>3, <2>1, TypedSteady DEF TypeInv, Lock
<1>4. CASE Unlink
  <2>1. /\ record \in Records /\ record' = [record EXCEPT !.pk = None]
        /\ meta' = meta /\ used' = used /\ calls' = calls
        /\ UNCHANGED <<enabled, session, page, loading, load>>
        /\ payload' = payload /\ pending' = pending
    BY <1>1, <1>4 DEF Unlink, OnSettings, view, DataTyped
  <2>2. DataTyped'
    BY <1>1, <2>1, PartsReplaced, RecordTyped DEF DataTyped, VariablesOK
  <2> QED BY <1>1, <2>1, <2>2, TypedSteady DEF TypeInv
<1>5. CASE Commit
  <2>1. /\ record \in Records /\ pending \in Envelope(Phrases, Keys)
        /\ record' = WithRecovery(record, pending)
        /\ meta' = meta /\ used' = used /\ calls' = calls
        /\ UNCHANGED <<enabled, session, page, loading, load>>
        /\ payload' = payload /\ pending' = None
    BY <1>1, <1>5 DEF Commit, OnSettings, DataTyped, WithRecovery
  <2>2. DataTyped'
    BY <1>1, <2>1, PartsReplaced, RecordTyped DEF DataTyped, VariablesOK
  <2> QED BY <1>1, <2>1, <2>2, TypedSteady DEF TypeInv
<1>6. CASE UNCHANGED vars
  BY <1>1, <1>6, TypedData, TypedSteady DEF TypeInv, vars, DataTyped, VariablesOK
<1>7. ASSUME NEW p \in Pages, Navigate(p) PROVE TypeInv'
  <2>1. /\ page' = p /\ payload' = None /\ pending' = None /\ used' = used /\ Leaving
        /\ record' = record /\ meta' = meta /\ enabled' = enabled /\ UNCHANGED session
    BY <1>7 DEF Navigate, Leaving, store
  <2>2. load' # None /\ load'.read => load'.result \in Contents \cup {None}
    <3>1. CASE p = "vault" /\ key # None
      <4>1. load' = IF record' = None THEN [read |-> FALSE]
                    ELSE [read |-> TRUE,
                          result |-> DecryptForSession(record', key', pin' \/ role' = "decoy")]
        BY <1>7, <3>1 DEF Navigate, Refresh
      <4> QED BY <1>1, <2>1, <4>1, RefreshTyped DEF DataTyped
    <3>2. CASE ~(p = "vault" /\ key # None)
      BY <1>7, <3>2 DEF Navigate
    <3> QED BY <3>1, <3>2
  <2>3. loading' \in BOOLEAN
    BY <1>7 DEF Navigate, Refresh
  <2>4. DataTyped'
    BY <1>1, <2>1, <2>2, <2>3 DEF DataTyped, VariablesOK, session
  <2> QED BY <1>1, <2>1, <2>4, TypedLeaving DEF TypeInv
<1>8. ASSUME NEW on \in BOOLEAN, Reload(on) PROVE TypeInv'
  <2>1. /\ enabled' = on /\ key' = None /\ role' = "none" /\ pin' = (on /\ meta.active)
        /\ payload' = None /\ loading' = FALSE /\ load' = None /\ pending' = None
        /\ calls' = [c \in Calls |-> None]
        /\ record' = record /\ meta' = meta /\ page' = page /\ used' = used
    BY <1>8 DEF Reload, store
  <2>2. CallsTyped'
    BY <2>1 DEF CallsTyped
  <2>3. DataTyped'
    <3>1. meta.active \in BOOLEAN
      BY <1>1 DEF DataTyped, VariablesOK
    <3> QED BY <1>1, <2>1, <3>1 DEF DataTyped, VariablesOK
  <2> QED BY <2>2, <2>3 DEF TypeInv
<1> QED BY <1>2, <1>3, <1>4, <1>5, <1>6, <1>7, <1>8

LEMMA InitTyped ==
  ASSUME Init PROVE TypeInv
<1>1. DemoInv
  BY InitOK
<1>2. load = None /\ calls = [c \in Calls |-> None] /\ payload = None /\ pending = None
  BY DEF Init
<1>3. record \in Records \cup {None} /\ VariablesOK
  BY <1>1 DEF DemoInv, HeldInv, RecordInv, RecordOK, Sealed
<1> QED BY <1>2, <1>3 DEF TypeInv, DataTyped, CallsTyped

(* Whatever the tab does, in whatever order its calls end, the record      *)
(* stored is a whole one, the session has a key of its own or none, a page *)
(* shows a whole payload, and a rotation to be confirmed is a recovery     *)
(* envelope (demo-vault-store.ts).                                         *)
THEOREM DemoTypeCorrect == Spec => []TypeOK
<1>1. ASSUME TypeInv, [Next]_vars PROVE TypeInv'
  <2>1. ASSUME NEW c \in Calls, UnlockFails(c) PROVE TypeInv'
    BY <1>1, <2>1, TypedData, TypedEnd DEF UnlockFails, TypeInv, DataTyped, VariablesOK
  <2>2. ASSUME NEW c \in Calls, Opening(c) PROVE TypeInv'
    BY <1>1, <2>1, <2>2, TypedStarts, CreatedTyped, PasskeyTyped, SessionTyped, Zenon DEF Opening
  <2>3. ASSUME NEW c \in Calls, Changing(c) PROVE TypeInv'
    BY <1>1, <2>3, TypedStarts, StoredTyped, SessionTyped, Zenon DEF Changing
  <2> QED BY <1>1, <2>2, <2>3, PagesTyped, Zenon DEF Next
<1>2. TypeInv => TypeOK
  BY DEF TypeInv, DataTyped, VariablesOK, TypeOK
<1> QED BY <1>1, <1>2, InitTyped, PTL DEF Spec

-----------------------------------------------------------------------------
(* The decoy's session, which no order of the calls disturbs either.       *)

EmergencyOfDecoy ==
  /\ meta \in [active : BOOLEAN, sequence : BOOLEAN] /\ pin \in BOOLEAN
  /\ role = "decoy" => pin /\ meta.active

(* However many operations are awaited, and whenever they end, a decoy     *)
(* session is pinned and stored as an emergency in the turn that opens it, *)
(* and whatever ends the emergency ends the session (onEmergencyEntered,   *)
(* exitVaultEmergencyMode, the reload's hydration).                        *)
THEOREM DecoyIsEmergency == Spec => [](role = "decoy" => pin /\ meta.active)
<1>1. ASSUME Init PROVE EmergencyOfDecoy
  <2>1. meta = [active |-> FALSE, sequence |-> FALSE] /\ role = "none" /\ pin = FALSE
    BY <1>1 DEF Init
  <2> QED BY <2>1 DEF EmergencyOfDecoy
<1>2. ASSUME EmergencyOfDecoy, [Next]_vars PROVE EmergencyOfDecoy'
  <2>1. ASSUME meta' = meta, UNCHANGED session PROVE EmergencyOfDecoy'
    BY <1>2, <2>1 DEF EmergencyOfDecoy, session
  <2>2. ASSUME NEW c \in Calls, Opening(c),
               ~OpenCreated(c), ~Unlocked(c), ~Recovered(c), ~Exited(c)
        PROVE  meta' = meta /\ UNCHANGED session
    BY <2>2, Zenon DEF Opening, StartCreate, StartUnlock, StartPasskey, StartRecovery, StartExit,
      Created, PasskeyAnswers, UnlockFails, Begin, store
  <2>3. ASSUME NEW c \in Calls, Changing(c), ~Enrolled(c), ~Deleted(c)
        PROVE  meta' = meta /\ UNCHANGED session
    BY <2>3, Zenon DEF Changing, StartSave, StartLink, StartEnroll, StartUpgrade, StartGenerate,
      StartDelete, StartChange, StartUpgradeRecovery, Saved, Rewritten, Generated, Begin, store
  <2>4. ASSUME NEW c \in Calls, OpenCreated(c) PROVE EmergencyOfDecoy'
    <3>1. meta' = meta /\ role' = "primary" /\ pin' \in BOOLEAN
      BY <2>4, <1>2 DEF OpenCreated, InstallSession, store, EmergencyOfDecoy
    <3> QED BY <1>2, <3>1 DEF EmergencyOfDecoy
  <2>5. ASSUME NEW c \in Calls, Unlocked(c) PROVE EmergencyOfDecoy'
    <3>1. PICK r : r = calls[c].about.role
      OBVIOUS
    <3>2. /\ meta' = [meta EXCEPT !.active = @ \/ r = "decoy"]
          /\ role' = r /\ pin' = (pin \/ r = "decoy")
      BY <2>5, <3>1 DEF Unlocked, InstallSession
    <3>3. PICK active \in BOOLEAN : active = (meta.active \/ r = "decoy")
      OBVIOUS
    <3>4. meta' = [meta EXCEPT !.active = active]
      BY <3>2, <3>3, Zenon
    <3>5. meta' \in [active : BOOLEAN, sequence : BOOLEAN] /\ meta'.active = active
      BY <1>2, <3>4 DEF EmergencyOfDecoy
    <3> QED BY <1>2, <3>2, <3>3, <3>5 DEF EmergencyOfDecoy
  <2>6. ASSUME NEW c \in Calls, Recovered(c) PROVE EmergencyOfDecoy'
    <3>1. meta' = meta /\ (UNCHANGED session \/ \E k : InstallSession(k, "primary"))
      BY <2>6 DEF Recovered
    <3>2. ASSUME NEW k, InstallSession(k, "primary") PROVE EmergencyOfDecoy'
      BY <1>2, <3>1, <3>2 DEF InstallSession, EmergencyOfDecoy
    <3> QED BY <2>1, <3>1, <3>2
  <2>7. ASSUME NEW c \in Calls, Exited(c) PROVE EmergencyOfDecoy'
    <3>1. \/ pin' = FALSE /\ role' = "none" /\ meta' = [meta EXCEPT !.active = FALSE]
          \/ meta' = meta /\ UNCHANGED session
      BY <2>7 DEF Exited, LockSession
    <3> QED BY <1>2, <2>1, <3>1 DEF EmergencyOfDecoy
  <2>8. ASSUME NEW c \in Calls, Enrolled(c) PROVE EmergencyOfDecoy'
    <3>1. meta' = [meta EXCEPT !.sequence = TRUE] /\ UNCHANGED session
      BY <2>8 DEF Enrolled
    <3> QED BY <1>2, <3>1 DEF EmergencyOfDecoy, session
  <2>9. ASSUME NEW c \in Calls, Deleted(c) PROVE EmergencyOfDecoy'
    <3>1. meta' = meta /\ pin' = pin /\ role' \in {role, "none"}
      BY <2>9 DEF Deleted, LockSession
    <3> QED BY <1>2, <3>1 DEF EmergencyOfDecoy
  <2>10. CASE Lock
    <3>1. meta' = meta /\ pin' = pin /\ role' = "none"
      BY <2>10 DEF Lock, LockSession, store
    <3> QED BY <1>2, <3>1 DEF EmergencyOfDecoy
  <2>11. ASSUME LoadEnd \/ Unlink \/ Commit \/ \E p \in Pages : Navigate(p)
         PROVE  meta' = meta /\ UNCHANGED session
    BY <2>11, Zenon DEF LoadEnd, Unlink, Commit, Navigate, store
  <2>12. ASSUME NEW on \in BOOLEAN, Reload(on) PROVE EmergencyOfDecoy'
    <3>1. meta' = meta /\ pin' = (on /\ meta.active) /\ role' = "none"
      BY <2>12 DEF Reload, store
    <3>2. meta.active \in BOOLEAN
      BY <1>2 DEF EmergencyOfDecoy
    <3> QED BY <1>2, <3>1, <3>2 DEF EmergencyOfDecoy
  <2>13. ASSUME UNCHANGED vars PROVE meta' = meta /\ UNCHANGED session
    BY <2>13 DEF vars, store
  <2> QED
    BY <1>2, <2>1, <2>2, <2>3, <2>4, <2>5, <2>6, <2>7, <2>8, <2>9, <2>10, <2>11, <2>12, <2>13, Zenon
    DEF Next
<1>3. EmergencyOfDecoy => (role = "decoy" => pin /\ meta.active)
  BY DEF EmergencyOfDecoy
<1> QED BY <1>1, <1>2, <1>3, PTL DEF Spec

=============================================================================
