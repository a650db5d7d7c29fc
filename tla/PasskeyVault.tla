----------------------------- MODULE PasskeyVault -----------------------------
(***************************************************************************)
(* Passkey and portable unlocks, and the enrollments that follow them, over *)
(* the one browser session and its cache of inner key material.            *)
(*                                                                         *)
(* A session key cannot be exported. To wrap it again under a passkey or a *)
(* portable key, the code keeps in memory the inner bytes of the envelope  *)
(* that was opened: one buffer, handed out by reference, zeroed in place.  *)
(* Every flow awaits an authenticator, a server or Web Crypto between its  *)
(* steps; a lock, a newer operation or another account comes between, and  *)
(* after it the flow's operation token is no longer live.                  *)
(*                                                                         *)
(* A buffer is tracked while it is meant for the cache. An account's vault *)
(* key is named after the account.                                         *)
(***************************************************************************)
EXTENDS PasskeyOptions

CONSTANTS
  Accounts, Credentials, Devices,
  Flows,        \* bound on the calls in progress
  Buffers,      \* bound on the byte arrays alive
  Browsers, TransportPolicies \* what the ceremonies are prepared with

ASSUME PasskeyAssumption ==
  Browsers \subseteq [credentials : BOOLEAN, extensionResults : BOOLEAN,
                      appleMobile : BOOLEAN, outdated : BOOLEAN]

ASSUME FiniteAssumption == IsFiniteSet(Credentials)

(* None is no account, credential, output, material, entry or list.        *)
ASSUME NoneAssumption ==
  /\ None \notin Accounts /\ None \notin Credentials
  /\ \A c \in Credentials, s \in Salts, d \in Devices : PrfOutput(c, s, "authentication", d) # None
  /\ \A a \in Accounts, r \in BOOLEAN : [uvk |-> a, raw |-> r] # None
  /\ \A b \in Buffers, r \in BOOLEAN : [buf |-> b, acknowledged |-> r] # None
  /\ \A n \in 0..Cardinality(Credentials) : None \notin [1..n -> Credentials]

VARIABLES
  owner, operating, key, \* the session: whose, whether an operation is current, its key
  cache,                 \* the entry of inner key material, or None
  bytes,                 \* what a buffer holds: the key it wraps, or None for zeroes
  flow,                  \* the calls in progress
  registered,            \* the server: whose a credential is
  variants,              \* the server: the PRF envelopes of every credential
  portable,              \* the accounts with a portable envelope at the broker
  ephemeral              \* the broker session of the browser: its one-use private key

session == <<owner, operating, key>>
memory == <<cache, bytes>>
server == <<registered, variants, portable>>
vars == <<session, memory, flow, server, ephemeral>>

Profile == DefaultProfile

Stages == {"install", "ceremony", "repair", "extract", "commit", "rewrap", "sealed",
           "deliver", "open", "receipt"}

Idle == [at |-> "idle"]

(* One call: its token's owner, what it asked the authenticator for, what  *)
(* it got, and the buffer it holds.                                        *)
Call(kind, account, stage) ==
  [kind |-> kind, account |-> account, live |-> TRUE, at |-> stage, allow |-> {}, salt |-> None,
   target |-> None, credential |-> None, prf |-> None, buf |-> None, acknowledged |-> TRUE]

VariantsOf(account, credential) ==
  {v \in variants : v.account = account /\ v.credential = credential}

CredentialsOf(account) == {c \in Credentials : registered[c] = account}

Init ==
  /\ owner = None /\ operating = FALSE /\ key = None
  /\ cache = None /\ bytes = [b \in Buffers |-> None]
  /\ flow = [f \in Flows |-> Idle]
  /\ registered = [c \in Credentials |-> None]
  /\ variants = {} /\ portable = {}
  /\ ephemeral = [held |-> FALSE, opened |-> 0]

----------------------------------------------------------------------------
(* The session                                                             *)

Cancelled == [f \in Flows |-> IF flow[f] = Idle THEN Idle ELSE [flow[f] EXCEPT !.live = FALSE]]

Zeroed == IF cache = None THEN bytes ELSE [bytes EXCEPT ![cache.buf] = None]

ClearCachedEntry == cache' = None /\ bytes' = Zeroed

BeginVaultSessionUnlock(account) ==
  /\ owner' = account /\ operating' = TRUE
  /\ IF owner \in {None, account} THEN UNCHANGED <<key, memory>>
     ELSE key' = None /\ ClearCachedEntry

(* A call begins an operation of its own or runs under the current one.    *)
Enter(f, call) ==
  /\ flow[f] = Idle
  /\ \/ BeginVaultSessionUnlock(call.account) /\ flow' = [Cancelled EXCEPT ![f] = call]
     \/ /\ operating /\ owner = call.account
        /\ flow' = [flow EXCEPT ![f] = call]
        /\ UNCHANGED <<session, memory>>

Goes(f, call) == flow' = [flow EXCEPT ![f] = call]
Ends(f) == flow' = [flow EXCEPT ![f] = Idle]
At(f, stage) == flow[f] # Idle /\ flow[f].at = stage
Then(f, stage) == [flow[f] EXCEPT !.at = stage]

(* After the ceremony its options are of no more use.                      *)
Asserted(f, stage, c, output) ==
  [Then(f, stage) EXCEPT !.allow = {}, !.salt = None, !.credential = c, !.prf = output]

LockVaultSession ==
  /\ operating' = FALSE /\ key' = None
  /\ ClearCachedEntry
  /\ flow' = Cancelled
  /\ UNCHANGED <<owner, server, ephemeral>>

(* Mutation: the owner is forgotten and its operation is not.              *)
SignOutOnly == owner' = None /\ UNCHANGED <<operating, key, memory, flow, server, ephemeral>>

ClearVaultSessionOwner ==
  /\ owner # None
  /\ owner' = None /\ operating' = FALSE /\ key' = None
  /\ ClearCachedEntry
  /\ flow' = Cancelled
  /\ UNCHANGED <<server, ephemeral>>

(* UnlockVaultSession of a call: refused when its operation is not current. *)
Installed(f, account) == flow[f].live /\ key' = account /\ UNCHANGED <<owner, operating>>

Install(f) ==
  /\ At(f, "install")
  /\ IF flow[f].live
     THEN /\ Installed(f, flow[f].account)
          /\ IF flow[f].kind = "broker" THEN Ends(f) ELSE Goes(f, Then(f, "extract"))
     ELSE Ends(f) /\ UNCHANGED session
  /\ UNCHANGED <<memory, server, ephemeral>>

----------------------------------------------------------------------------
(* The cache of inner key material                                         *)

Referenced(b) == (cache # None /\ cache.buf = b) \/ \E f \in Flows : flow[f] # Idle /\ flow[f].buf = b

Allocate(b, content) == ~Referenced(b) /\ bytes[b] = None /\ bytes' = [bytes EXCEPT ![b] = content]

(* The caller's token was asserted before; the bytes come out regardless.  *)
Extract(f) ==
  /\ At(f, "extract")
  /\ \E b \in Buffers :
       /\ Allocate(b, flow[f].account)
       /\ Goes(f, [Then(f, "commit") EXCEPT !.buf = b])
  /\ UNCHANGED <<session, cache, server, ephemeral>>

(* Mutation: the token is not asserted again after the comparison of keys. *)
CommitUnchecked(f) ==
  /\ At(f, "commit")
  /\ cache' = [buf |-> flow[f].buf, acknowledged |-> flow[f].acknowledged]
  /\ bytes' = Zeroed /\ Ends(f)
  /\ UNCHANGED <<session, server, ephemeral>>

Commit(f) ==
  /\ At(f, "commit")
  /\ IF flow[f].live
     THEN /\ cache' = [buf |-> flow[f].buf, acknowledged |-> flow[f].acknowledged]
          /\ bytes' = Zeroed
          /\ IF flow[f].kind = "broker"
             THEN Goes(f, [Then(f, "install") EXCEPT !.buf = None])
             ELSE Ends(f)
     ELSE /\ bytes' = [bytes EXCEPT ![flow[f].buf] = None]
          /\ UNCHANGED cache /\ Ends(f)
  /\ UNCHANGED <<session, server, ephemeral>>

ClearVaultInnerKeyMaterialCache ==
  /\ operating /\ cache # None
  /\ ClearCachedEntry
  /\ UNCHANGED <<session, flow, server, ephemeral>>

(* The password or the recovery phrase opens its envelope, then its inner  *)
(* bytes are taken for the cache.                                          *)
StartPassword(f) ==
  /\ \E a \in Accounts : Enter(f, Call("password", a, "install"))
  /\ UNCHANGED <<server, ephemeral>>

----------------------------------------------------------------------------
(* Unlocking with a passkey                                                *)

(* The server's list for an account: none, its credentials, one of them    *)
(* twice.                                                                  *)
AllowLists(account) ==
  LET own == SetToSeq(CredentialsOf(account))
  IN IF own = <<>> THEN {<<>>} ELSE {<<>>, own, own \o <<own[1]>>}

ServerOptions(allow) == [allow |-> allow, salt |-> "server"]

Ceremony(kind, account, options, target) ==
  [Call(kind, account, "ceremony") EXCEPT !.allow = Range(options.allow), !.salt = options.salt, !.target = target]

(* What a plan and the server's options make of a call, whatever is set.   *)
PreparedUnlock(account, intent, bound, mode, browser, policy, allow) ==
  LET plan == ResolvePasskeyUnlockPlan(intent, \E v \in variants : v.account = account,
                                       PrfHeuristic(browser), bound, mode)
  IN [target |-> IF intent = "quick" THEN bound ELSE None,
      options |-> IF plan.status # "ready" THEN None
                  ELSE PrepareAuthenticationOptions(ServerOptions(allow), plan.selection, policy, browser)]

PreparedUnlocks(account) ==
  {PreparedUnlock(account, intent, bound, mode, browser, policy, allow) :
     intent \in {"quick", "explicit"}, bound \in CredentialsOf(account) \cup {None},
     mode \in {"allow-list", "discoverable"}, browser \in Browsers,
     policy \in TransportPolicies, allow \in AllowLists(account)}

UnlockCeremonies(account) ==
  {Ceremony("unlock", account, r.options, r.target) :
     r \in {r \in PreparedUnlocks(account) : r.options # None}}

StartUnlock(f) ==
  /\ flow[f] = Idle
  /\ \E a \in Accounts : \E call \in UnlockCeremonies(a) : Enter(f, call)
  /\ UNCHANGED <<server, ephemeral>>

(* The shapes of the extension results: nothing, one output, outputs per   *)
(* credential, of the one used or only of another.                         *)
ExtensionResults(credential, output, others) ==
  {None, [first |-> output, byCredential |-> {}], [first |-> None, byCredential |-> {output} \cup others]}
    \cup (IF others = {} THEN {} ELSE {[first |-> None, byCredential |-> others]})

(* The variants of the credential are tried; what opens is installed.      *)
Match(f, c, prf) ==
  LET result == UnlockCandidates(VariantsOf(flow[f].account, c), c, prf, Profile)
  IN CASE result.status = "matched" /\ flow[f].live ->
            Installed(f, result.variant.envelope.uvk) /\ Goes(f, Asserted(f, "extract", c, None))
       [] result.status = "no_match" -> Goes(f, Asserted(f, "repair", c, prf)) /\ UNCHANGED session
       [] OTHER -> Ends(f) /\ UNCHANGED session

(* The inner bytes are those of the cache. Without an entry the key itself *)
(* would have to be exported.                                              *)
Sealing(call) == [call EXCEPT !.at = "rewrap", !.buf = cache.buf]

(* The server verifies the assertion, for a credential of the account.     *)
Answer(f) ==
  /\ At(f, "ceremony")
  /\ \E c \in Credentials, d \in Devices :
       /\ flow[f].allow = {} \/ c \in flow[f].allow
       /\ registered[c] # None
       /\ \E results \in ExtensionResults(c, PrfOutput(c, flow[f].salt, "authentication", d),
                           {PrfOutput(o, flow[f].salt, "authentication", d) : o \in Credentials \ {c}}) :
            LET prf == AuthenticationPrf(results, c)
            IN IF registered[c] # flow[f].account \/ prf = None
               THEN Ends(f) /\ UNCHANGED session
               ELSE IF flow[f].kind = "enroll"
                    THEN /\ IF flow[f].live /\ cache # None
                            THEN Goes(f, Sealing(Asserted(f, "rewrap", c, prf)))
                            ELSE Ends(f)
                         /\ UNCHANGED session
                    ELSE Match(f, c, prf)
  /\ UNCHANGED <<memory, server, ephemeral>>

(* The password authorises a variant for the output that opened none; the  *)
(* session's cache is not asked.                                           *)
AfterIndependentAuthorization(account, password, prf) ==
  LET e == CreatePasswordEnvelope(account, account)
      inner == ExtractInner(e, password)
  IN IF UnlockEnvelope(e, password, Profile) = None THEN None
     ELSE WrapUserVaultKey(account, FALSE, RewrapInner(inner, account), prf, "none")

Store(f, envelope) ==
  variants' = variants \cup {[account |-> flow[f].account, credential |-> flow[f].credential,
                              envelope |-> envelope]}

Repair(f) ==
  /\ At(f, "repair")
  /\ \E password \in Accounts \cup {None} :
       LET envelope == AfterIndependentAuthorization(flow[f].account, password, flow[f].prf)
       IN IF envelope # None /\ flow[f].live
          THEN Installed(f, flow[f].account) /\ Store(f, envelope)
          ELSE UNCHANGED <<session, variants>>
  /\ Ends(f)
  /\ UNCHANGED <<memory, registered, portable, ephemeral>>

----------------------------------------------------------------------------
(* Enrolling: a passkey is registered and then asked once more; a portable *)
(* key is generated.                                                       *)

(* The call that goes on after the registration, with its output or to ask *)
(* for one.                                                                *)
AfterRegistration(next, c, browser) ==
  LET allow == SetToSeq(CredentialsOf(owner) \cup {c})
  IN IF next.status = "ready"
     THEN [Sealing(Call("enroll", owner, "rewrap")) EXCEPT !.credential = c, !.prf = next.prf]
     ELSE Ceremony("enroll", owner,
            PrepareAuthenticationOptions(ServerOptions(allow), next.selection, "preserve", browser), c)

Registered(f, c, next, browser) ==
  /\ registered[c] = None /\ next.status # "rejected"
  /\ next.status = "ready" => cache # None
  /\ registered' = [registered EXCEPT ![c] = owner]
  /\ Enter(f, AfterRegistration(next, c, browser))

StartEnroll(f) ==
  /\ flow[f] = Idle /\ key # None
  /\ \E c \in Credentials, verified \in Credentials, enabled \in {TRUE, FALSE, None}, d \in Devices,
        evaluated \in BOOLEAN, browser \in Browsers :
       LET salt == PrepareRegistrationOptions(ServerOptions(<<>>)).salt
           output == IF evaluated THEN PrfOutput(c, salt, "registration", d) ELSE None
       IN Registered(f, c, EnrollmentAfterRegistration(c, verified, enabled, output), browser)
  /\ UNCHANGED <<variants, portable, ephemeral>>

(* A portable key is generated and used at once.                           *)
StartPackage(f) ==
  /\ key # None /\ cache # None
  /\ Enter(f, Sealing(Call("package", owner, "rewrap")))
  /\ UNCHANGED <<server, ephemeral>>

(* Bytes that do not hold the key make the call drop whatever is cached.   *)
Rewrap(f) ==
  /\ At(f, "rewrap")
  /\ IF bytes[flow[f].buf] = flow[f].account
     THEN Goes(f, [Then(f, "sealed") EXCEPT !.buf = None]) /\ UNCHANGED memory
     ELSE /\ Ends(f)
          /\ IF flow[f].live THEN ClearCachedEntry ELSE UNCHANGED memory
  /\ UNCHANGED <<session, server, ephemeral>>

Sealed(f) ==
  /\ At(f, "sealed")
  /\ Ends(f)
  /\ IF ~flow[f].live THEN UNCHANGED <<variants, portable>>
     ELSE IF flow[f].kind = "enroll"
          THEN /\ Store(f, WrapUserVaultKey(flow[f].account, FALSE,
                             [uvk |-> flow[f].account, raw |-> FALSE], flow[f].prf, "none"))
               /\ UNCHANGED portable
          ELSE portable' = portable \cup {flow[f].account} /\ UNCHANGED variants
  /\ UNCHANGED <<session, memory, registered, ephemeral>>

----------------------------------------------------------------------------
(* Unlocking through the portable broker                                   *)

(* A response is for a new ephemeral session, or is delivered once more.   *)
StartBroker(f) ==
  /\ \E a \in portable :
       /\ Enter(f, [Call("broker", a, "deliver") EXCEPT !.acknowledged = FALSE])
       /\ \/ /\ ~\E g \in Flows \ {f} : flow[g] # Idle /\ flow[g].kind = "broker"
             /\ ephemeral' = [held |-> TRUE, opened |-> 0]
          \/ UNCHANGED ephemeral
  /\ UNCHANGED server

(* Mutation: the private key is dropped when it has been used.             *)
DeliverKeepingKey(f) ==
  /\ At(f, "deliver")
  /\ IF flow[f].live /\ ephemeral.held THEN Goes(f, Then(f, "open")) ELSE Ends(f)
  /\ UNCHANGED <<session, memory, server, ephemeral>>

(* A malformed response disposes of the session.                           *)
Deliver(f) ==
  /\ At(f, "deliver")
  /\ \E wellFormed \in BOOLEAN :
       IF flow[f].live
       THEN /\ ephemeral' = [ephemeral EXCEPT !.held = FALSE]
            /\ IF wellFormed /\ ephemeral.held THEN Goes(f, Then(f, "open")) ELSE Ends(f)
       ELSE Ends(f) /\ UNCHANGED ephemeral
  /\ UNCHANGED <<session, memory, server>>

(* The sealed key opens and then the envelope does, strictly; or either    *)
(* fails.                                                                  *)
Open(f) ==
  /\ At(f, "open")
  /\ \/ /\ \E b \in Buffers :
             /\ Allocate(b, flow[f].account)
             /\ Goes(f, [Then(f, "receipt") EXCEPT !.buf = b])
        /\ ephemeral' = [ephemeral EXCEPT !.opened = @ + 1]
        /\ UNCHANGED cache
     \/ Ends(f) /\ UNCHANGED <<memory, ephemeral>>
  /\ UNCHANGED <<session, server>>

(* Mutation: the bytes of a response whose receipt is refused are kept.    *)
ReceiptOnly(f) ==
  /\ At(f, "receipt")
  /\ \/ Goes(f, [Then(f, "commit") EXCEPT !.acknowledged = TRUE])
     \/ Ends(f)
  /\ UNCHANGED <<session, memory, server, ephemeral>>

Receipt(f) ==
  /\ At(f, "receipt")
  /\ \/ Goes(f, [Then(f, "commit") EXCEPT !.acknowledged = TRUE]) /\ UNCHANGED bytes
     \/ Ends(f) /\ bytes' = [bytes EXCEPT ![flow[f].buf] = None]
  /\ UNCHANGED <<session, cache, server, ephemeral>>

Next ==
  \/ LockVaultSession \/ ClearVaultSessionOwner \/ ClearVaultInnerKeyMaterialCache
  \/ \E f \in Flows :
       \/ StartPassword(f) \/ StartUnlock(f) \/ StartEnroll(f) \/ StartPackage(f) \/ StartBroker(f)
       \/ Install(f) \/ Extract(f) \/ Commit(f)
       \/ Answer(f) \/ Repair(f) \/ Rewrap(f) \/ Sealed(f)
       \/ Deliver(f) \/ Open(f) \/ Receipt(f)

Spec == Init /\ [][Next]_vars

----------------------------------------------------------------------------
(* Properties                                                              *)

Outputs == {PrfOutput(c, s, y, d) : c \in Credentials, s \in Salts,
            y \in {"registration", "authentication"}, d \in Devices}

(* Types. A call whose token is live runs under the current operation of   *)
(* the account it was begun for: locks, sign-outs and account changes      *)
(* cancel every other (vault-session-operation.ts).                        *)
TypeOK ==
  /\ owner \in Accounts \cup {None} /\ operating \in BOOLEAN /\ key \in Accounts \cup {None}
  /\ operating => owner # None
  /\ cache = None \/ cache \in [buf : Buffers, acknowledged : BOOLEAN]
  /\ bytes \in [Buffers -> Accounts \cup {None}]
  /\ \A f \in Flows : flow[f] # Idle =>
       /\ flow[f].at \in Stages /\ flow[f].account \in Accounts
       /\ flow[f].prf \in Outputs \cup {None} /\ flow[f].buf \in Buffers \cup {None}
       /\ flow[f].live => operating /\ owner = flow[f].account
  /\ registered \in [Credentials -> Accounts \cup {None}]
  /\ portable \subseteq Accounts
  /\ ephemeral.held \in BOOLEAN /\ ephemeral.opened \in Nat

(* A PRF envelope that was stored opens at a later sign-in: it is sealed   *)
(* under what its own credential yields at an authentication with the      *)
(* user's own salt, and holds its account's key. Neither the output of the *)
(* registration, nor a server's salt, nor another credential's output, nor *)
(* bytes that were zeroed meanwhile reach it (passkey-prf-enrollment.ts,   *)
(* vault-passkey-prf-auth-options.ts, passkey-prf-output.ts).              *)
EnvelopesOpen ==
  \A v \in variants :
    /\ registered[v.credential] = v.account
    /\ \E d \in Devices :
         UnlockEnvelope(v.envelope, PrfOutput(v.credential, "own", "authentication", d), Profile) = v.account

(* The variants of a credential do not get in each other's way: up to the  *)
(* limit, whatever was enrolled and repaired on which device, no variant   *)
(* makes the list malformed, and a device whose output one of them is      *)
(* sealed under is matched, with its account's key                         *)
(* (passkey-prf-candidates.ts).                                            *)
VariantsUsable ==
  \A v \in variants, d \in Devices :
    LET stored == VariantsOf(v.account, v.credential)
        output == PrfOutput(v.credential, "own", "authentication", d)
        result == UnlockCandidates(stored, v.credential, output, Profile)
    IN /\ ~(Cardinality(stored) > MaxCandidates)
       /\ UnlockEnvelope(v.envelope, output, Profile) # None
       => result.status = "matched" /\ result.variant.envelope.uvk = v.account

(* Inner key bytes taken for the cache never outlive it: a buffer that is  *)
(* not zeroed is the cached one or is held by a call that still has to     *)
(* commit or zero it, whatever was cancelled, refused or replaced in       *)
(* between (session/inner-key-material-cache.ts, portable-vault-broker.ts). *)
NoStrayMaterial ==
  \A b \in Buffers : bytes[b] # None =>
    \/ cache # None /\ cache.buf = b
    \/ \E f \in Flows : flow[f] # Idle /\ flow[f].buf = b /\ flow[f].at \in {"commit", "receipt"}

(* The cached bytes are intact and belong to the account whose session it  *)
(* is, as does the session key; bytes from the broker are there only once  *)
(* their receipt was accepted. A call that was cancelled while it compared *)
(* keys commits nothing, so one account's bytes are never cached under     *)
(* another's session.                                                      *)
CacheBacked ==
  /\ key # None => key = owner
  /\ cache # None => owner # None /\ bytes[cache.buf] = owner /\ cache.acknowledged

(* An ephemeral broker session opens at most one sealed key, also when a   *)
(* response is delivered a second time while the first is being opened     *)
(* ("One-shot authenticated decryption", portable-vault-broker.ts).        *)
UnsealedOnce == ephemeral.opened <= 1

(* What a quick unlock or an enrollment goes on with comes from the        *)
(* credential it was bound to, though the server listed others and the     *)
(* user could choose among what the browser was given.                     *)
BoundCredentialAnswers ==
  \A f \in Flows : flow[f] # Idle /\ flow[f].target # None /\ flow[f].credential # None =>
    flow[f].credential = flow[f].target
=============================================================================
