\* Two accounts sign in and out on one page; two calls are awaited at once; a
\* synced credential yields another output on another device.
CONSTANTS
  None = None
  MaxCandidates = 2
  Accounts = {a, b}
  Credentials = {c1, c2}
  Devices = {d1, d2}
  Flows = {f1, f2}
  Buffers = {b1, b2, b3}
  Browsers <- MCBrowsers
  TransportPolicies = {"preserve", "discoverable"}
SPECIFICATION Spec
SYMMETRY Symmetry
INVARIANTS TypeOK EnvelopesOpen NoStrayMaterial VariantsUsable CacheBacked UnsealedOnce BoundCredentialAnswers
