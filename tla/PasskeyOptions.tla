---------------------------- MODULE PasskeyOptions ----------------------------
(***************************************************************************)
(* What surrounds a WebAuthn ceremony: whether a passkey unlock is planned, *)
(* which credentials and which PRF input the browser is given, what is read *)
(* from its answer, and which stored envelope variant is opened with it.    *)
(* None stands for a call that throws.                                      *)
(***************************************************************************)
EXTENDS Envelopes, FiniteSets, Naturals, Sequences, SequencesExt

CONSTANT MaxCandidates \* MAX_PASSKEY_PRF_ENVELOPE_CANDIDATES

ASSUME MaxCandidatesAssumption == MaxCandidates \in Nat

(* The salt of the user, and one that a server has put in its options.     *)
Salts == {"own", "server"}

(* What an authenticator yields. At a registration it may be another value *)
(* than at an authentication, and for a synced credential another one on   *)
(* every device.                                                           *)
PrfOutput(credential, salt, ceremony, device) == <<credential, salt, ceremony, device>>

----------------------------------------------------------------------------
(* Planning and preparing                                                  *)

PrfHeuristic(browser) ==
  /\ browser.credentials /\ browser.extensionResults
  /\ ~(browser.appleMobile /\ browser.outdated)

Unavailable(reason) == [status |-> "unavailable", reason |-> reason]

(* An account's own list is the default, and a quick unlock is exact.      *)
ResolvePasskeyUnlockPlan(intent, hasEnvelope, prfAvailable, target, mode) ==
  CASE ~hasEnvelope -> Unavailable("no_envelope")
    [] hasEnvelope /\ ~prfAvailable -> Unavailable("prf_unavailable")
    [] hasEnvelope /\ prfAvailable /\ intent = "explicit" ->
         [status |-> "ready", selection |-> [mode |-> mode]]
    [] OTHER ->
         IF target = None THEN Unavailable("binding_required")
         ELSE [status |-> "ready", selection |-> [mode |-> "exact", credential |-> target]]

ParseAllowList(allow) ==
  IF allow = <<>> \/ ~IsInjective(allow) THEN None ELSE allow

(* Mutation: the credential is only moved to the front of the list.        *)
ScopeByOrder(allow, credential) ==
  IF ParseAllowList(allow) = None \/ credential \notin Range(allow) THEN None
  ELSE <<credential>> \o SelectSeq(allow, LAMBDA c : c # credential)

ScopeToCredential(allow, credential) ==
  IF ParseAllowList(allow) = None \/ credential \notin Range(allow) THEN None ELSE <<credential>>

SelectCredentials(allow, selection) ==
  CASE selection.mode = "exact" -> ScopeToCredential(allow, selection.credential)
    [] selection.mode = "discoverable" -> <<>>
    [] selection.mode = "allow-list" -> ParseAllowList(allow)

SelectionConflicts(selection, policy) ==
  \/ policy = "discoverable" /\ selection.mode # "discoverable"
  \/ selection.mode = "discoverable" /\ policy \notin {"preserve", "discoverable"}

(* Hybrid transports are cut off by the platform-only policies.            *)
TransportsOf(policy, appleMobile) ==
  IF policy = "platform-only" \/ (policy = "apple-mobile-internal-workaround" /\ appleMobile)
  THEN "internal" ELSE "stored"

(* The PRF input of the server is replaced by the user's own salt, for all *)
(* credentials at once, and the user is verified.                          *)
PrepareAuthenticationOptions(server, selection, policy, browser) ==
  LET allow == SelectCredentials(server.allow, selection)
  IN IF SelectionConflicts(selection, policy) \/ allow = None THEN None
     ELSE [allow |-> allow, transports |-> TransportsOf(policy, browser.appleMobile),
           salt |-> "own", userVerification |-> "required"]

PrepareRegistrationOptions(server) == [salt |-> "own"]

----------------------------------------------------------------------------
(* Reading the answer: an output under prf.results, or one per credential. *)

(* The output of another credential is the last resort.                    *)
ExtractPrfOutput(results, credential) ==
  LET map == results.byCredential
      own == {o \in map : o[1] = credential}
  IN CASE own # {} -> CHOOSE o \in own : TRUE
       [] own = {} /\ results.first # None -> results.first
       [] OTHER -> IF map = {} THEN None ELSE CHOOSE o \in map : TRUE

ScopeResults(results, credential) ==
  [results EXCEPT !.byCredential = {o \in @ : o[1] = credential}]

(* None: no capability is confirmed by this ceremony.                      *)
AuthenticationPrf(results, verified) ==
  IF results = None THEN None ELSE ExtractPrfOutput(ScopeResults(results, verified), verified)

RegistrationCapability(enabled) ==
  CASE enabled = TRUE -> "confirmed_registration"
    [] enabled = FALSE -> "unavailable"
    [] OTHER -> "incompatible"

(* Mutation: the output of the registration is taken for the envelope.     *)
EnrollWithRegistration(registered, verified, enabled, output) ==
  IF registered # verified \/ RegistrationCapability(enabled) # "confirmed_registration"
  THEN [status |-> "rejected"]
  ELSE IF output = None
       THEN [status |-> "authentication_required", selection |-> [mode |-> "exact", credential |-> verified]]
       ELSE [status |-> "ready", prf |-> output]

(* Whatever the registration yielded, one exact authentication decides.    *)
EnrollmentAfterRegistration(registered, verified, enabled, output) ==
  IF registered # verified \/ RegistrationCapability(enabled) # "confirmed_registration"
  THEN [status |-> "rejected"]
  ELSE [status |-> "authentication_required", selection |-> [mode |-> "exact", credential |-> verified]]

----------------------------------------------------------------------------
(* Opening one of the variants stored for a credential                     *)

(* A set of variants is well formed or none is tried.                      *)
CandidateMalformed(variant, verified, p) ==
  \/ variant.credential # verified
  \/ ~VaultKeyScopeMatches(variant.envelope)
  \/ ~IsVaultKeyAadContextAllowed(variant.envelope.stored, p)

(* Mutation: a list as long as the limit is refused.                       *)
UnlockCandidatesBelowLimit(variants, verified, prf, p) ==
  LET opened == {v \in variants : UnlockEnvelope(v.envelope, prf, p) # None}
  IN CASE prf = None -> [status |-> "prf_unavailable"]
       [] prf # None /\ \/ Cardinality(variants) >= MaxCandidates
                        \/ \E v \in variants : CandidateMalformed(v, verified, p) ->
            [status |-> "malformed_candidate"]
       [] OTHER ->
            IF opened = {} THEN [status |-> "no_match"]
            ELSE [status |-> "matched", variant |-> CHOOSE v \in opened : TRUE]

(* A variant that another output sealed is passed over.                    *)
UnlockCandidates(variants, verified, prf, p) ==
  LET opened == {v \in variants : UnlockEnvelope(v.envelope, prf, p) # None}
  IN CASE prf = None -> [status |-> "prf_unavailable"]
       [] prf # None /\ \/ Cardinality(variants) > MaxCandidates
                        \/ \E v \in variants : CandidateMalformed(v, verified, p) ->
            [status |-> "malformed_candidate"]
       [] OTHER ->
            IF opened = {} THEN [status |-> "no_match"]
            ELSE [status |-> "matched", variant |-> CHOOSE v \in opened : TRUE]
=============================================================================
