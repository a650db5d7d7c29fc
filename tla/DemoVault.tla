------------------------------ MODULE DemoVault ------------------------------
(***************************************************************************)
(* The vault of the consumer demo in one browser tab: a record in local    *)
(* storage that every operation reads whole and writes back whole, the     *)
(* emergency metadata beside it, the session in memory, and the pages that *)
(* call them. A call reads the record and the session key, awaits its      *)
(* cryptography, and writes; locks, reloads and page changes come between. *)
(*                                                                         *)
(* The rate limiter around the calls is the module RateLimit. Time enters  *)
(* once: unless SlowAes, the vault page's own decryption or encryption, a  *)
(* matter of milliseconds, ends before the session is replaced or locked.  *)
(***************************************************************************)
EXTENDS Envelopes, FiniteSets, Naturals

CONSTANTS
  Keys, Phrases,    \* what the tab can generate: bounds on creations and rotations
  Passwords,        \* what the user types
  DuressPasswords,  \* those that contain the duress sequence
  Prf,              \* the output of the authenticator
  Calls,            \* bound on the operations awaited at once
  OlderContexts,    \* <<stored, bound>> contexts of records of older releases
  SlowAes,          \* whether the vault page's own AES may end after a lock
  MaxNotes          \* bound on the notes added to a payload

ASSUME ConstantsAssumption ==
  /\ DuressPasswords \subseteq Passwords
  /\ OlderContexts \subseteq Contexts \X Contexts
  /\ SlowAes \in BOOLEAN /\ MaxNotes \in Nat

Contents == [honey : BOOLEAN, notes : 0..MaxNotes]
Pages == {"vault", "settings", "exit", "setup", "unlock"}

Vaults ==
  [blob : [key : Keys, content : Contents],
   pw : Envelope(Passwords, Keys), rec : Envelope(Phrases, Keys)]
Records ==
  [vault : Vaults, pk : Envelope({Prf}, Keys) \cup {None}, decoy : Vaults \cup {None}]

(* None is no key, inner material, record or content.                      *)
ASSUME NoneAssumption ==
  /\ None \notin Keys /\ None \notin Records /\ None \notin Vaults /\ None \notin Contents
  /\ \A k \in Keys, r \in BOOLEAN : [uvk |-> k, raw |-> r] # None

VARIABLES
  record,     \* the stored record, or None
  meta,       \* emergencyModeActive, and whether a duress sequence is configured
  enabled,    \* emergencyModeEnabled, as the server rendered the page
  key, role, pin, \* the session: its key, the key's role, the emergency pin
  page,       \* the page mounted
  payload, loading, load, \* the vault page: what it holds, its flag, its decryption
  pending,    \* the settings page: a recovery rotation to be confirmed
  calls,      \* the operations awaited
  used        \* keys and phrases generated so far

store == <<record, meta>>
session == <<key, role, pin>>
view == <<page, payload, loading, load, pending>>
vars == <<store, enabled, session, view, calls, used>>

Emergency == pin \/ role = "decoy"

(* A key set with everything sealed for it.                                *)
VaultOf(k, password, phrase, content) ==
  [blob |-> EncryptVaultPayload(content, k),
   pw |-> CreatePasswordEnvelope(k, password),
   rec |-> CreateRecoveryEnvelope(k, phrase, None)]

NewRecord(k, password, phrase) ==
  [vault |-> VaultOf(k, password, phrase, [honey |-> FALSE, notes |-> 0]), pk |-> None, decoy |-> None]

(* The decoy has a key of its own and no passkey envelope.                 *)
CreateDecoyVaultSetup(k, password, phrase) ==
  VaultOf(k, password, phrase, [honey |-> TRUE, notes |-> 0])

(* A record of an older release: raw key material, kdf-v1, possibly a      *)
(* passkey, linked when session keys could still be exported.              *)
OlderRecord(k, password, phrase, c, linked) ==
  LET older(e) == [e EXCEPT !.kdf = "kdf-v1", !.raw = TRUE, !.stored = c[1], !.bound = c[2]]
      new == NewRecord(k, password, phrase)
  IN [new EXCEPT !.vault.pw = older(@), !.vault.rec = older(@),
                 !.pk = IF linked THEN EncryptField(k, Prf, "none") ELSE None]

Init ==
  /\ \/ record = None /\ used = {}
     \/ \E k \in Keys, p \in Passwords, f \in Phrases, c \in OlderContexts, l \in BOOLEAN :
          record = OlderRecord(k, p, f, c, l) /\ used = {k, f}
  /\ meta = [active |-> FALSE, sequence |-> FALSE]
  /\ enabled \in BOOLEAN
  /\ key = None /\ role = "none" /\ pin = FALSE
  /\ page = IF record = None THEN "setup" ELSE "unlock"
  /\ payload = None /\ loading = FALSE /\ load = None /\ pending = None
  /\ calls = [c \in Calls |-> None]

----------------------------------------------------------------------------
(* The session, the pages, the awaited calls                               *)

SessionEncryptedBlob(rec, emergency) ==
  IF ~emergency THEN rec.vault.blob
  ELSE IF rec.decoy = None THEN None ELSE rec.decoy.blob

(* Mutation: whichever payload the key opens is taken.                     *)
DecryptWhatOpens(rec, k, emergency) ==
  IF rec.vault.blob.key = k THEN rec.vault.blob.content
  ELSE IF rec.decoy = None THEN None ELSE DecryptVaultPayload(rec.decoy.blob, k)

(* None: it throws, and the page keeps what it holds.                      *)
DecryptForSession(rec, k, emergency) ==
  LET blob == SessionEncryptedBlob(rec, emergency)
  IN IF blob = None \/ (emergency /\ blob = rec.vault.blob) THEN None
     ELSE DecryptVaultPayload(blob, k)

(* The vault page decrypts when it is mounted or the vault is opened: what *)
(* it reads it reads then, in the mode of that moment.                     *)
Refresh ==
  /\ loading' = TRUE
  /\ load' = IF record' = None THEN [read |-> FALSE]
             ELSE [read |-> TRUE, result |-> DecryptForSession(record', key', pin' \/ role' = "decoy")]

LoadEnd ==
  /\ load # None
  /\ payload' = CASE ~load.read -> None
                  [] load.read /\ load.result = None -> payload
                  [] OTHER -> load.result
  /\ loading' = FALSE
  /\ load' = None
  /\ UNCHANGED <<store, enabled, session, page, pending, calls, used>>

Running(ops) == \E c \in Calls : calls[c] # None /\ calls[c].mounted /\ calls[c].op \in ops

AesEnded == SlowAes \/ (load = None /\ ~Running({"save"}))

InstallSession(k, r) ==
  /\ AesEnded
  /\ key' = k /\ role' = r /\ pin' = (pin \/ r = "decoy")
  /\ IF page = "vault" /\ key = None THEN Refresh ELSE UNCHANGED <<loading, load>>
  /\ UNCHANGED <<page, payload, pending>>

(* Pages stay mounted behind the lock overlay; the vault page drops what   *)
(* it holds, the settings page does not.                                   *)
LockSession ==
  /\ AesEnded
  /\ key' = None /\ role' = "none"
  /\ IF page = "vault" /\ key # None THEN payload' = None /\ loading' = FALSE
     ELSE UNCHANGED <<payload, loading>>
  /\ UNCHANGED <<page, load, pending>>

Lock ==
  /\ key # None
  /\ LockSession
  /\ UNCHANGED <<store, enabled, pin, calls, used>>

Leaving ==
  /\ payload' = None /\ pending' = None
  /\ calls' = [c \in Calls |-> IF calls[c] = None THEN None ELSE [calls[c] EXCEPT !.mounted = FALSE]]

MayVisit(p) ==
  CASE p \in {"vault", "settings"} -> record # None
    [] p = "setup" -> record = None
    [] p = "unlock" -> record # None /\ key = None
    [] p = "exit" -> enabled /\ (Emergency \/ meta.active)

Navigate(p) ==
  /\ p # page /\ MayVisit(p)
  /\ page' = p
  /\ Leaving
  /\ UNCHANGED <<store, enabled, session, used>>
  /\ IF p = "vault" /\ key # None THEN Refresh ELSE loading' = FALSE /\ load' = None

(* Mutation: the emergency flag is not applied again.                      *)
ReloadUnhydrated(on) ==
  /\ enabled' = on
  /\ key' = None /\ role' = "none" /\ pin' = FALSE
  /\ payload' = None /\ loading' = FALSE /\ load' = None /\ pending' = None
  /\ calls' = [c \in Calls |-> None]
  /\ UNCHANGED <<store, page, used>>

(* A reload forgets all that is in memory and awaited; the emergency flag  *)
(* is applied again before anything is opened, if the feature is on.       *)
Reload(on) ==
  /\ enabled' = on
  /\ key' = None /\ role' = "none" /\ pin' = (on /\ meta.active)
  /\ payload' = None /\ loading' = FALSE /\ load' = None /\ pending' = None
  /\ calls' = [c \in Calls |-> None]
  /\ UNCHANGED <<store, page, used>>

(* What a call takes with it: the record and the key of the moment, what   *)
(* was typed, the envelope or payload it is about.                         *)
Begin(c, op, secret, about) ==
  /\ calls[c] = None
  /\ calls' = [calls EXCEPT ![c] = [op |-> op, rec |-> record, key |-> key, secret |-> secret,
                                   about |-> about, mounted |-> TRUE]]
  /\ UNCHANGED <<store, enabled, session, view, used>>

Awaited(c, op) == calls[c] # None /\ calls[c].op = op
End(c) == calls' = [calls EXCEPT ![c] = None]

(* The settings page runs one of these at a time; setting up the decoy     *)
(* waits for them, but they do not wait for it.                            *)
OnSettings ==
  /\ page = "settings" /\ key # None /\ record # None
  /\ ~Running({"change", "generate", "link", "upgrade_pw", "upgrade_rec", "delete"})

----------------------------------------------------------------------------
(* Creating the vault and its decoy                                        *)

StartCreate(c, password) ==
  /\ page = "setup" /\ record = None
  /\ ~Running({"create", "created"})
  /\ Begin(c, "create", password, None)

(* The record is stored before its session is opened and before its        *)
(* recovery phrase has been shown.                                         *)
Created(c) ==
  /\ Awaited(c, "create")
  /\ \E k \in Keys \ used, f \in Phrases \ used :
       /\ record' = NewRecord(k, calls[c].secret, f)
       /\ used' = used \cup {k, f}
       /\ calls' = [calls EXCEPT ![c].op = "created", ![c].rec = record', ![c].about = record'.vault.pw]
  /\ UNCHANGED <<meta, enabled, session, view>>

OpenCreated(c) ==
  /\ Awaited(c, "created")
  /\ End(c)
  /\ UNCHANGED <<store, enabled, used>>
  /\ InstallSession(UnlockEnvelope(calls[c].about, calls[c].secret, DefaultProfile), "primary")

StartEnroll(c, password) ==
  /\ OnSettings /\ enabled
  /\ password \in DuressPasswords
  /\ Begin(c, "enroll", password, None)

(* Another decoy replaces the one there is, whoever is in session.         *)
Enrolled(c) ==
  /\ Awaited(c, "enroll")
  /\ \E k \in Keys \ used, f \in Phrases \ used :
       /\ record' = [calls[c].rec EXCEPT !.decoy = CreateDecoyVaultSetup(k, calls[c].secret, f)]
       /\ used' = used \cup {k, f}
  /\ meta' = [meta EXCEPT !.sequence = TRUE]
  /\ End(c)
  /\ UNCHANGED <<enabled, session, view>>

----------------------------------------------------------------------------
(* Opening it                                                              *)

(* What the metadata tells the routing counts only while the feature is on.*)
UnlockTarget(duress) ==
  IF Emergency \/ (enabled /\ (meta.active \/ duress)) THEN "decoy" ELSE "primary"

StartUnlock(c, password) ==
  /\ record # None /\ key = None
  /\ LET target == UnlockTarget(meta.sequence /\ password \in DuressPasswords)
     IN /\ target = "decoy" => record.decoy # None
        /\ Begin(c, "unlock", password,
                 [role |-> target,
                  envelope |-> IF target = "decoy" THEN record.decoy.pw ELSE record.vault.pw])

StartPasskey(c, duress) ==
  /\ record # None /\ key = None /\ record.pk # None
  /\ Begin(c, "passkey", Prf, [duress |-> duress])

(* The routing is decided when the authenticator has answered. The decoy   *)
(* has no passkey envelope, and the vault's own is taken for it.           *)
PasskeyAnswers(c) ==
  /\ Awaited(c, "passkey")
  /\ LET s == calls[c]
         target == UnlockTarget(s.about.duress)
     IN IF target = "decoy" /\ s.rec.decoy = None
        THEN End(c)
        ELSE calls' = [calls EXCEPT ![c].op = "unlock",
                                    ![c].about = [role |-> target, envelope |-> s.rec.pk]]
  /\ UNCHANGED <<store, enabled, session, view, used>>

(* Mutation: onEmergencyEntered only pins the session.                     *)
UnlockedForgetting(c) ==
  /\ Awaited(c, "unlock")
  /\ LET s == calls[c]
         k == UnlockEnvelope(s.about.envelope, s.secret, DefaultProfile)
     IN /\ k # None
        /\ UNCHANGED <<record, meta>>
        /\ InstallSession(k, s.about.role)
  /\ End(c)
  /\ UNCHANGED <<enabled, used>>

(* The key is installed and the emergency flag stored in one turn.         *)
Unlocked(c) ==
  /\ Awaited(c, "unlock")
  /\ LET s == calls[c]
         k == UnlockEnvelope(s.about.envelope, s.secret, DefaultProfile)
     IN /\ k # None
        /\ meta' = [meta EXCEPT !.active = @ \/ s.about.role = "decoy"]
        /\ UNCHANGED record
        /\ InstallSession(k, s.about.role)
  /\ End(c)
  /\ UNCHANGED <<enabled, used>>

UnlockFails(c) ==
  /\ Awaited(c, "unlock")
  /\ UnlockEnvelope(calls[c].about.envelope, calls[c].secret, DefaultProfile) = None
  /\ End(c)
  /\ UNCHANGED <<store, enabled, session, view, used>>

StartRecovery(c, phrase) ==
  /\ record # None /\ key = None
  /\ Begin(c, "recover", phrase, None)

(* The payload is decrypted before the key is installed, so a session that *)
(* is bound to the decoy is not opened this way.                           *)
Recovered(c) ==
  /\ Awaited(c, "recover")
  /\ LET s == calls[c]
         k == UnlockEnvelope(s.rec.vault.rec, s.secret, DefaultProfile)
     IN IF k # None /\ DecryptForSession(s.rec, k, Emergency) # None
        THEN UNCHANGED record /\ InstallSession(k, "primary")
        ELSE UNCHANGED <<record, session, view>>
  /\ End(c)
  /\ UNCHANGED <<meta, enabled, used>>

StartExit(c, phrase) ==
  /\ page = "exit" /\ enabled /\ Emergency /\ record # None
  /\ ~Running({"exit"})
  /\ Begin(c, "exit", phrase, None)

Exited(c) ==
  /\ Awaited(c, "exit")
  /\ IF UnlockEnvelope(calls[c].rec.vault.rec, calls[c].secret, DefaultProfile) # None
     THEN pin' = FALSE /\ LockSession /\ meta' = [meta EXCEPT !.active = FALSE]
     ELSE UNCHANGED <<session, view, meta>>
  /\ End(c)
  /\ UNCHANGED <<record, enabled, used>>

----------------------------------------------------------------------------
(* The payload                                                             *)

StartSave(c) ==
  /\ page = "vault" /\ key # None /\ record # None
  /\ payload # None /\ ~loading /\ payload.notes < MaxNotes
  /\ ~Running({"save"})
  /\ Begin(c, "save", None, [payload EXCEPT !.notes = @ + 1])

(* Mutation: every save goes to the vault's own payload.                   *)
SavedToVault(c) ==
  /\ Awaited(c, "save")
  /\ record' = [calls[c].rec EXCEPT !.vault.blob = EncryptVaultPayload(calls[c].about, calls[c].key)]
  /\ payload' = IF calls[c].mounted THEN calls[c].about ELSE payload
  /\ End(c)
  /\ UNCHANGED <<meta, enabled, session, page, loading, load, pending, used>>

(* The key is the one there was before the encryption, the mode the one    *)
(* there is after it.                                                      *)
Saved(c) ==
  /\ Awaited(c, "save")
  /\ LET s == calls[c]
         blob == EncryptVaultPayload(s.about, s.key)
     IN /\ record' = IF Emergency /\ s.rec.decoy # None
                     THEN [s.rec EXCEPT !.decoy.blob = blob]
                     ELSE [s.rec EXCEPT !.vault.blob = blob]
        /\ payload' = IF s.mounted THEN s.about ELSE payload
  /\ End(c)
  /\ UNCHANGED <<meta, enabled, session, page, loading, load, pending, used>>

----------------------------------------------------------------------------
(* The settings page. Each operation answers the record to be stored, or   *)
(* None when it throws or has nothing to store.                            *)

WithEnvelope(rec, method, envelope) ==
  IF envelope = None THEN None
  ELSE IF method = "pk" THEN [rec EXCEPT !.pk = envelope]
  ELSE [rec EXCEPT !.vault[method] = envelope]

ChangeDemoVaultPassword(s) ==
  WithEnvelope(s.rec, "pw",
    RotateVaultPassword(s.rec.vault.pw, s.key, s.secret, s.about, DefaultProfile))

UpgradeDemoPasswordEnvelope(s) ==
  WithEnvelope(s.rec, "pw",
    MaybeUpgradePasswordEnvelope(s.rec.vault.pw, s.key, s.secret, DefaultProfile))

UpgradeDemoRecoveryEnvelope(s) ==
  WithEnvelope(s.rec, "rec",
    MaybeUpgradeRecoveryEnvelope(s.rec.vault.rec, s.key, s.secret, DefaultProfile))

(* The credential exists by now; the key of a session cannot be exported,  *)
(* and no inner blob is given.                                             *)
LinkDemoPasskeyPrf(s) ==
  WithEnvelope(s.rec, "pk", WrapUserVaultKey(s.key, FALSE, None, Prf, "none"))

Rewrite(s) ==
  CASE s.op = "change" -> ChangeDemoVaultPassword(s)
    [] s.op = "upgrade_pw" -> UpgradeDemoPasswordEnvelope(s)
    [] s.op = "upgrade_rec" -> UpgradeDemoRecoveryEnvelope(s)
    [] s.op = "link" -> LinkDemoPasskeyPrf(s)

StartChange(c, current, new) == OnSettings /\ Begin(c, "change", current, new)
StartUpgrade(c, password) ==
  OnSettings /\ IsUpgradeRecommended(record.vault.pw) /\ Begin(c, "upgrade_pw", password, None)
StartUpgradeRecovery(c, phrase) ==
  OnSettings /\ IsUpgradeRecommended(record.vault.rec) /\ Begin(c, "upgrade_rec", phrase, None)
StartLink(c) == OnSettings /\ record.pk = None /\ Begin(c, "link", None, None)

(* The record that was read is stored again around the one new part.       *)
Rewritten(c) ==
  /\ calls[c] # None /\ calls[c].op \in {"change", "upgrade_pw", "upgrade_rec", "link"}
  /\ record' = IF Rewrite(calls[c]) = None THEN record ELSE Rewrite(calls[c])
  /\ End(c)
  /\ UNCHANGED <<meta, enabled, session, view, used>>

Unlink ==
  /\ OnSettings /\ record.pk # None
  /\ record' = [record EXCEPT !.pk = None]
  /\ UNCHANGED <<meta, enabled, session, view, calls, used>>

StartGenerate(c, password) == OnSettings /\ Begin(c, "generate", password, None)

Generated(c) ==
  /\ Awaited(c, "generate")
  /\ \E f \in Phrases \ used :
       LET s == calls[c]
           e == RotateRecoveryPhrase(s.rec.vault.pw, s.secret, s.key, f, DefaultProfile)
       IN /\ pending' = IF s.mounted /\ e # None THEN e ELSE pending
          /\ used' = IF e = None THEN used ELSE used \cup {f}
  /\ End(c)
  /\ UNCHANGED <<store, enabled, session, page, payload, loading, load>>

Commit ==
  /\ OnSettings /\ pending # None
  /\ record' = [record EXCEPT !.vault.rec = pending]
  /\ pending' = None
  /\ UNCHANGED <<meta, enabled, session, page, payload, loading, load, calls, used>>

StartDelete(c, password) == OnSettings /\ Begin(c, "delete", password, None)

(* The emergency metadata stays, and so does the pin.                      *)
Deleted(c) ==
  /\ Awaited(c, "delete")
  /\ IF UnlockEnvelope(calls[c].rec.vault.pw, calls[c].secret, DefaultProfile) # None
     THEN record' = None /\ LockSession
     ELSE UNCHANGED <<record, key, role, view>>
  /\ End(c)
  /\ UNCHANGED <<meta, enabled, pin, used>>

----------------------------------------------------------------------------
Opening(c) ==
  \/ \E p \in Passwords : StartCreate(c, p) \/ StartUnlock(c, p)
  \/ \E d \in BOOLEAN : StartPasskey(c, d)
  \/ \E f \in used \cap Phrases : StartRecovery(c, f) \/ StartExit(c, f)
  \/ Created(c) \/ OpenCreated(c) \/ PasskeyAnswers(c)
  \/ Unlocked(c) \/ UnlockFails(c) \/ Recovered(c) \/ Exited(c)

Changing(c) ==
  \/ StartSave(c) \/ StartLink(c)
  \/ \E p \in Passwords :
       \/ StartEnroll(c, p) \/ StartUpgrade(c, p) \/ StartGenerate(c, p) \/ StartDelete(c, p)
       \/ \E q \in Passwords : StartChange(c, p, q)
  \/ \E f \in used \cap Phrases : StartUpgradeRecovery(c, f)
  \/ Enrolled(c) \/ Saved(c) \/ Rewritten(c) \/ Generated(c) \/ Deleted(c)

Next ==
  \/ \E c \in Calls : Opening(c) \/ Changing(c)
  \/ LoadEnd \/ Lock \/ Unlink \/ Commit
  \/ \E p \in Pages : Navigate(p)
  \/ \E on \in BOOLEAN : Reload(on)

Spec == Init /\ [][Next]_vars

----------------------------------------------------------------------------
TypeOK ==
  /\ record \in Records \cup {None}
  /\ meta \in [active : BOOLEAN, sequence : BOOLEAN]
  /\ enabled \in BOOLEAN /\ pin \in BOOLEAN /\ loading \in BOOLEAN
  /\ key \in Keys \cup {None} /\ role \in {"none", "primary", "decoy"}
  /\ page \in Pages
  /\ payload \in Contents \cup {None}
  /\ pending \in Envelope(Phrases, Keys) \cup {None}
  /\ used \subseteq Keys \cup Phrases

(* Whatever was stored last, the vault's payload opens with the key that    *)
(* all its envelopes hold, and nothing of the decoy is sealed for that key  *)
(* or holds it. (The decoy's own payload may be sealed for the key of a     *)
(* decoy that was replaced while its session went on.)                     *)
BlobsOpen ==
  record # None =>
    /\ {record.vault.blob.key, record.vault.rec.uvk} = {record.vault.pw.uvk}
    /\ record.pk # None => record.pk.uvk = record.vault.pw.uvk
    /\ record.decoy # None =>
         /\ record.decoy.rec.uvk = record.decoy.pw.uvk
         /\ record.vault.pw.uvk \notin {record.decoy.pw.uvk, record.decoy.blob.key}

(* While the emergency is in force and the feature on, the page shows and  *)
(* edits honey only, and what is stored for the decoy is honey only.       *)
Visible == payload # None /\ key # None /\ ~loading
PrimaryHidden ==
  /\ enabled /\ meta.active /\ Visible => payload.honey
  /\ record # None /\ record.decoy # None => record.decoy.blob.content.honey

(* A decoy session is an emergency that a reload does not end, and honey   *)
(* never replaces the vault's own payload.                                 *)
EmergencyKept ==
  /\ role = "decoy" => pin /\ meta.active
  /\ record # None => ~record.vault.blob.content.honey

(* What a call began with is still so when it ends: what it read is what   *)
(* is stored, but for a passkey unlinked and a recovery phrase rotated; no *)
(* session was opened before its own, none replaced the one it rewrites    *)
(* under, and a save ends in the mode it was begun in. (The code enforces  *)
(* none of this: it is what the theorems about overlapping calls name.)    *)
SameVault(r) ==
  /\ record # None
  /\ r.vault.blob = record.vault.blob /\ r.vault.pw = record.vault.pw
  /\ r.decoy = record.decoy

Current(s) ==
  /\ IF s.op = "create" THEN record = None /\ pending = None ELSE SameVault(s.rec)
  /\ s.op \in {"created", "unlock", "recover"} => key = None
  /\ s.op \in {"change", "upgrade_pw", "upgrade_rec", "link"} => key \in {s.key, None}
  /\ s.op = "save" => s.about.honey = Emergency /\ (s.mounted => key = s.key)

Resumes(c) ==
  \/ Created(c) \/ OpenCreated(c) \/ Unlocked(c) \/ Recovered(c) \/ Exited(c)
  \/ Enrolled(c) \/ Saved(c) \/ Rewritten(c) \/ Generated(c) \/ Deleted(c)

(* However many operations are awaited: none ends over what is not there   *)
(* any more, and the page's decryption not after its session.              *)
Orderly ==
  /\ \A c \in Calls : Resumes(c) => Current(calls[c])
  /\ load # None /\ key' # key => load' # load

(* Under the decoy's key nothing of the vault itself changes but what      *)
(* needs no key: a passkey unlinked, a rotation confirmed that was proved  *)
(* before. A vault password is not changed and no note of it is.           *)
DecoySessionChangesNothing ==
  [][record # None /\ record' # None /\ record.decoy # None /\ key = record.decoy.pw.uvk
       => record'.vault.blob = record.vault.blob /\ record'.vault.pw = record.vault.pw]_vars

(* To its user the tab is two vaults, of which an emergency that is stored *)
(* decides the one that is shown and edited, whatever pins, keys, roles    *)
(* and awaited calls the tab has for it (vault-demo-context.tsx,           *)
(* vault-demo-crypto.ts).                                                  *)
Stored(r) == IF r = None THEN None ELSE r.vault.blob.content
StoredHoney(r) == IF r = None \/ r.decoy = None THEN None ELSE r.decoy.blob.content

Two == INSTANCE TwoVaults WITH
  Real <- {c \in Contents : ~c.honey}, Honey <- {c \in Contents : c.honey},
  on <- enabled, raised <- meta.active,
  real <- Stored(record), honey <- StoredHoney(record), screen <- payload

TwoVaultsKeptApart == Two!Spec

----------------------------------------------------------------------------
(* What comments and guides say, and the code does not do.                 *)

(* A rotation or an upgrade of one envelope leaves the stored payloads as  *)
(* they are. (It stores again the whole record that it read before the key *)
(* derivation: vault-demo-security.ts:81-128.)                             *)
PayloadKept ==
  [][\A c \in Calls :
       /\ calls[c] # None /\ calls[c].op \in {"change", "upgrade_pw", "upgrade_rec"} /\ calls'[c] = None
       /\ record # None /\ record' # None
       => record'.vault.blob = record.vault.blob]_vars

(* docs/CONSUMER_SECURITY_REQUIREMENTS.md:110: no decrypted payload is in   *)
(* the React tree while locked.  A lock clears what the vault page holds,  *)
(* and does not cancel the decryption that is about to fill it again       *)
(* (vault-client-page.tsx:29).                                             *)
LockedPageIsEmpty == key = None => payload = None

(* docs/INTEGRATING_EMERGENCY_DURESS_MODE.md:359: an edit of honey is       *)
(* stored for the decoy only.  saveDemoPayload looks at the mode when the  *)
(* encryption has ended, and the emergency may have been exited by then.   *)
HoneySavedToDecoy ==
  [][\A c \in Calls :
       /\ calls[c] # None /\ calls[c].op = "save" /\ calls[c].rec.decoy # None
       /\ calls[c].about.honey /\ calls'[c] = None /\ record' # record
       => ~record'.vault.blob.content.honey]_vars

(* vault-deletion.ts:31: a deletion clears the session's state in memory,  *)
(* back to that of an unconfigured vault.  The emergency pin stays         *)
(* (lockVaultSession, resetVaultSessionLockState), so that the next vault  *)
(* is asked for a decoy it does not have (deleteDemoVault).                *)
DeletionUnconfigures == record = None => ~Emergency
=============================================================================
