---------------------------- MODULE MCDemoVault ----------------------------
(* Instances of DemoVault for TLC.                                         *)
EXTENDS DemoVault, TLC

\* As stored by this release, and stripped of its context after sealing.
MCOlderContexts == {<<"canonical", "canonical">>, <<"missing", "canonical">>}
OneOlderContext == {<<"canonical", "canonical">>}

\* Operations overlap, from a vault there is; none ends over what it did not find.
OrderlySpec == Init /\ record # None /\ record.pk = None /\ [][Next /\ Orderly]_vars

\* Operations that overlap but do not race leave both vaults as one operation at
\* a time leaves them: every stored part on its own key, honey and payload apart,
\* the emergency stored (vault-demo-crypto.ts:352-376, vault-demo-security.ts:81-250).
VaultsApart == BlobsOpen /\ PrimaryHidden /\ EmergencyKept

Symmetry == Permutations(Keys) \cup Permutations(Phrases)
OverlapSymmetry == Symmetry \cup Permutations(Calls)
=============================================================================
