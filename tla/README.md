# A TLA+ verification of forest-trust-gateway

This directory models the parts of the Forest trust gateway (`src/`) that decide
what is stored, what is recorded and what a caller is told, checks them with TLC
on small instances, and proves the results that matter most with TLAPS for every
value of the constants.

Paths of the form `src/rules/...`, `src/routes/...` are relative to the
repository's root. `PROJECT.json` names, for each definition, the source lines it
translates (prefixed with one more `src/`, the directory the repository is kept in).

## 1. The system

The gateway is a Fastify server in one Cloudflare container behind a Worker. It
publishes packages (`POST /v1/package/upload`), hands out download links
(`GET /v1/package/...`) and accepts mirrored tarballs from a sync job
(`PUT /internal/mirror-tarball`). It has no database: everything it knows it asks
the private backend, and everything it keeps it puts in one R2 bucket.

### Inventory

| Component (source) | State | Operations | Talks to | What is hard | What makes it correct |
|---|---|---|---|---|---|
| Publish route (`src/routes/publish.ts`) | per request: parsed upload, facts, decided visibility, license verdict, tarball | parse, authorize, validate, license, put, record, reply | backend (3 calls), R2, rules | facts are used after three more awaits; put and record can each fail, repeat or land late; concurrent publishes of one package | what is recorded can be downloaded; nothing refused is stored; the reply is true |
| Mirror route (`src/routes/mirrorTarball.ts`) | per request: claim and body | check secret and claim, HEAD, put | R2 | HEAD and put are not atomic; any HEAD error counts as absent | only adds; the answer is true |
| Object store access (`src/uploader.ts`) | the bucket (external) | put, HEAD | R2 | the SDK retries: a put can land twice, or after the handler gave up | write-once content addressing |
| Backend client (`src/internalApiClient.ts`) | none | postOrGet and four calls | backend | no timeout; 4xx with an error body is relayed, anything else is a 500; an answer can be lost after the backend committed | 4xx means nothing was done |
| Publish policy, visibility and dependency rules (`src/rules/publishPolicy.ts`, `publishVisibility.ts`, `dependencyVisibility.ts`) | none | pure decisions | called by the publish route | missing facts of an older backend; unresolved dependencies; order of the checks | the decisions compose into the guarantees their comments state |
| Content addressing and tarball encryption (`src/rules/contentAddress.ts`, `tarballEncryption.ts`) | none | key of a hash, per-object key | publish, mirror | the prefix is part of the key, the SSE-C key depends on it | writer and reader derive the same key |
| Access route, access policy, signed URL (`src/routes/access.ts`, `src/rules/accessPolicy.ts`, `signedUrl.ts`) | none; the answer lives on in caches and signed URLs | decide, sign, set cache headers | backend, edge cache, CDN | answers outlive the decision | denied and absent look alike; nothing private is shared-cached |
| Archive validation (`src/rules/validateTgz.ts`) | counters, captures, a timer | entry, data, end, finish, error, timeout | called by publish | callbacks, a timer racing the end, failing while data still arrives | limits hold; the captured LICENSE is the file's; one outcome |
| Hash and pipe (`src/rules/hashAndPipe.ts`) | running hash | data, finish | publish | two consumers of one stream; runs beside the validation, which may fail first | the hash is that of what the sink got; nothing is left running |
| Upload parsing (first half of `publish.ts`) | metadata, forestJson, file | part, truncation | busboy | order and repetition of parts, silent truncation | what is checked is what is used |
| Worker and container (`src/index.ts`, `src/server.ts`) | the container's life, the routes registered | start, set up, forward, 502 | Cloudflare | the container dies with requests in flight; several requests start it; its status lags behind | every request is answered, none is handled twice or by a process half set up |
| UEFN and Roblox rules (`uefnRules.ts`, `robloxRules.ts`) | maps and a tally filled by the extraction | entry rules, lexical and binary scans | validation, publish | several entries of one name; a scan that throws | what an installer extracts obeys the rules |
| Schemas (`src/schemas.ts`) | none | shape checks, conditions across fields | upload parsing | fields that later code reads without a check | a parsed manifest is usable |

## 2. Modules

Dependencies (each arrow is EXTENDS, except where noted):

    GatewayRules <- PackageStore <- Publish <----+- Gateway <- MCGateway
                                 <- MirrorTarball+
    Publish <- MCPublish
    Publish <- PublishProofs; Gateway, PublishProofs <- GatewayProofs
    ContentRegistry: instantiated by Publish (Registry == INSTANCE ... WITH ...)
    GatewayRules <- Access <- MCAccess, AccessProofs
    Totals <- ValidateTgz, UploadParse; Totals <- TotalsProofs
    TarEntries <- ValidateTgz, UefnRules, RobloxRules
    ValidateTgz, HashAndPipe, UefnRules, RobloxRules <- Inspection <- MCInspection
    ValidateTgz, TotalsProofs <- ValidateTgzProofs; Inspection, ValidateTgzProofs <- InspectionProofs
    UploadParse <- MCUpload; UploadParse, TotalsProofs <- UploadParseProofs
    Worker <- MCWorker, WorkerProofs

**GatewayRules** holds the pure rules, one operator per TypeScript function, over
records of facts: `DecidePublishPermission`, `DecidePublishVisibility`,
`DecideDependencyVisibility`, and `PublishVerdict`, the order in which the
publish handler applies them. A TypeScript `boolean | undefined` becomes
"public", "private" or "undefined"; the reason a reply gives becomes the name of the refusal
(`PermissionRefusal` tells the three of `publishPolicy.ts` apart), which Publish keeps in `refusal`.
`ObjectEncryptionKey` is the HMAC derivation seen as an injective function.

**PackageStore** is the bucket: a set of objects with key, bytes and SSE-C key. A
put replaces whatever its key holds, which is what makes "write-once" a property
of the writers and not of the store.

**Publish** is the upload handler, for a set of concurrent requests. Code between
two awaits runs alone on the Node thread, so it is one action; each await is a
stage of `pc`:

| stage | the handler awaits | actions that leave it |
|---|---|---|
| idle | the multipart body | ReceiveUpload, RejectUpload |
| authorizing | getPublishAuthorization | Authorize (all the checks on the facts run in this step), AuthorizeFails |
| validating | validateTgz and hashAndPipe, then the platform scan | Validate, ValidationFails |
| licensing | verifyLicense | LicenseAccepted (sends the put), LicenseRefused |
| storing | putPackageObject | PutLands (sends the record call), PutFails |
| recording | recordPublishedVersion | RecordCommits, RecordRefused, RecordFails |
| done | - | - |

`putNet` and `recNet` hold calls on their way. A put may land several times and
after its handler is gone; a record call is applied at most once but may be
applied after the handler gave up on it. `ContainerDies` drops every handler at
once, answers 502 for each and leaves what is on its way.

**ContentRegistry** is the abstract specification: a grow-only store in which each
key is filled once with the bytes it is the hash of, and a grow-only list of
versions, each listed only when its object is there and its number is free.
`Publish` and `Gateway` implement it (`ImplementsRegistry`,
`GatewayImplementsRegistry`) under the mapping that forgets handlers, calls,
SSE-C keys and who recorded a version.

**MirrorTarball** is the ingest handler: idle, looking (HEAD), putting, done, with
the same kind of network for its puts. `Found` takes whatever is under the key for
the same bytes, as the code does; `NotFound` is enabled in every state, because
the code treats any HEAD error as absent.

**Gateway** composes both routes over the one bucket and the one container.

**Totals** adds up sizes: of the pieces of a content (what `captured` in `validateTgz.ts`
counts) and of the entries of an archive (`totalSize`). It is a recursive function, not a
RECURSIVE operator, so that it can be proved about.

**ValidateTgz** is the one pass over an archive. Each callback registered in
`validateTgz.ts` is an action: `NextEntry` (the header checks, the timer's start, the
choice of listeners), `Data`, `End` (hands over a capture and calls next()), `Finish`,
`Error`, `TimerFires`; `Break` is a failure of gunzip or of tar-stream. `stage` says
whether the stream runs, was destroyed (refused or timed out) or has settled. An
entry's content is the sequence of the sizes of its pieces: all that the code's
caps can tell apart, and enough to notice a lost, doubled or misplaced piece.
tar-stream is external: it delivers one entry at a time and goes on when next()
is called, and delivers nothing after destroy(). An inspector is a record of what it
allows, captures and tallies (`Inspector`, by platform): the proofs hold for any.

**TarEntries** names the types of an entry; a type that tar-stream has no name for is
"undefined", which the rules for names take for a regular file.

**HashAndPipe** is the tap with the hasher and the sink on one event, the sink behind a
buffer of `HighWater` chunks. **UefnRules** and **RobloxRules** give the two inspectors
(`MakeUefnEntryInspector`, `MakeRobloxEntryInspector`) and the scans after the pass. A
name carries its kind (what its base name says of it, for the rules that allow) and whether it
ends with a slash (what the capture of Verse sources sees beside it), a Verse text is the set of its
imports, qualifiers and references, a model file is how it comes out of the scanner.

**Inspection** composes the four as `publish.ts` does: both pipelines run over the
buffered upload, `RefuseEarly` answers as soon as one of them fails (and stops neither),
`Scan` runs when both are done. Its verdict is Publish's `Validate` (cleared) or
`ValidationFails` (400 refused, 500 crashed): `ClearedIsClean` says what Publish means
by a tarball in `ValidBlobs`. `GoodIsNotRefused` is its converse: what is within the
limits and obeys the rules (`Clean`, said of the extracted files and not of the passes that
check them) is refused only because the timer fired, the hash failed, a directory
bears the name of a captured file, or too little Luau source was counted.

**UploadParse** is the handler before that: the size header, the parts in the client's
order, a file chunk by chunk, a body that breaks off. Received is Publish's
`ReceiveUpload`, rejected its `RejectUpload`. Conditions between the fields of a
manifest are spelled out, the shape of each field is one flag.

**Worker** is the other end: requests find the one container by its status, which lags
behind the process, start it, wait for its port, pass on, or get the 502; the process
reads its settings, registers its routes, listens, and may end at any moment.

**Access** is the read side for one package. `Ask`, `BackendAnswers` and `Respond` are
the handler around its one await, so facts may be any time old when the link is
signed; `AnswerTo` is the decision, `CacheControl` the headers. The edge cache and the
backend are external: `ServeCached` serves a copy for the lifetime its header
gives it, while `PackageCreated`, `RatingResolved` and `Tick` go on. A caller's
membership is chosen anew each time facts are read, since nothing else looks at it.

### Peers outside the repository

The backend and R2 are modelled from how the code uses them; these are the
assumptions everything rests on:

- the backend answers each call from its state at one instant;
- it refuses a version already on record and may refuse anything else;
- a new package gets the visibility of its first recorded version, and nothing changes it afterwards:
  neither a change of visibility from the site nor the deletion of a package is modelled;
- a caller's membership and grants do not change between the authorization and the record call
  (the code reads them once, and nothing in `src/` says how they change);
- an older backend leaves the stored visibility and the dependency facts out (`BackendAges`);
- R2 applies a put atomically, replacing the whole object;
- SHA-256 has no collisions on the tarballs at hand (`HashAssumption`), and the per-object key is injective in the storage key.

## 3. Runs

All runs set `CHECK_DEADLOCK FALSE`: each request is served once, so the system
really stops when all are done; an archive is validated once. The safety runs of
Publish and Access use the symmetry of requests; runs with a liveness property
(gateway, inspection, worker) and violation runs use none.

| run | instance | what it shows |
|---|---|---|
| publish_race | 3 requests, 1 package, 1 version number, 4 uploads (two tarballs, both flags, an unset flag, an invalid tarball), callers admin and writer, current backend, encryption on; about 1.5 million states | Types; versions on record are deliverable; what is stored was cleared; replies are honest; write-once; only admins create; the registry is implemented |
| publish_rules | 2 requests, 3 packages of 2 Studios with a chain of dependencies and every initial visibility, an admin and seven kinds of caller that are turned away, both ages of backend, encryption off; about 1.5 million states | nothing is public that its publisher did not want public; denied callers of one standing get one and the same status and reason; the direct dependency check covers the tree of judged dependencies |
| gateway | 1 publish, 2 ingests of the same or other bytes, good and bad claims, fair handlers; about 205,000 states | the mirror's answers are true; every object is accounted for; both routes only add; the registry is implemented; every upload and ingest taken up is answered |
| inspection | uefn archives of up to 2 entries out of 23 and of 3 out of 3, roblox archives of up to 2 out of 13 and of 3 out of 2 (at most 3 entries are allowed, so these are accepted), some of 4, which are refused, whole or broken, beside a pipe of 2 chunks with a buffer of 1; limits of 5 bytes in all, 4 a file, 2 of license, 3 of a captured Verse file; about 742,000 states | the verdict is exact; captures are what an extraction leaves; the first license is rated; the hash is that of the sink's bytes; what is cleared obeys its platform's rules; what obeys them is not refused without one of the causes named; the timer is cleared and changes no outcome; nothing is left running |
| upload | bodies of up to 3 parts out of 14, and of 5 after both fields; a file may have a size of 3; about 82,000 states | the reply is the one deserved; the file is whole; memory is bounded; the manifest is usable |
| worker | one request for each of the 3 routes, any settings, a container that stops and starts any number of times; about 15,600 states | handled at most once; answered by a complete process; always answered |
| access | 2 requests, 5 relations of a caller, a clock of 5 ticks (a link lives 2, a brief copy 1 + 1, a normal copy 4) | private answers are personal; denied looks absent; links are live when handed out; a pending rating is brief |
| license_directory | 2 entries of license names | violated on purpose, finding 3 |
| verse_unscanned | up to 2 entries out of 3 | violated on purpose, finding 5 |
| code_first | 3 entries of one source name and a model | violated on purpose, finding 4 |
| creation_race | 2 requests | violated on purpose, finding 1 |
| unresolved_dependency | 2 requests | violated on purpose, finding 2 |

**Why the bounds are enough.** The hazards are races of two publishes; a third
request lets a late put or record call of the first overlap with two others. One
package and one version number force every conflict. Two valid tarballs and both
flags give four different keys; the third tarball is invalid. Initial visibility
of every package is arbitrary, so a package may be new, public or private. One
mirror ingest can only race a publish; two can race each other as well. The
messages that may be repeated stay in the network without a counter, so nothing
bounds how often or how late they land.

In inspection, two entries are enough for a namesake, a license after another, a limit
passed by the sum and a failure after a capture; three let a namesake or a second
license come after something else, and are as many as an archive may have here, so that a fourth is
refused for the count alone. Each thing that fails a source or a model is in an entry of
its own. In upload, three parts cover every order of the two fields and the file, and the
bodies of five everything that may follow them: a field that replaces what was checked, a
second file, a cut-off one. In worker, three requests let one find the container healthy, one start
it and one be cut off at the same time.

### Findings

1. **creation_race.** README.md:9 says a new version of an existing package is
   "always stored and recorded under the package's stored visibility". Two
   admins who create one package with opposite flags are both told that it is new; the
   slower one stores, and records, under a visibility that is no longer the
   package's. If the backend accepts its record (another version number), that version
   cannot be downloaded. `RecordedIsDeliverable` therefore speaks of versions that
   *settled* (`Settled`): those whose handler knew the stored visibility, or agreed with it. It
   says nothing of the versions this race and an older backend (below) leave under the other
   visibility; of those `PublicIsWanted` says that none is public against its publisher's will.
2. **unresolved_dependency.** `dependencyVisibility.ts` says its invariant "holds
   transitively by induction". Dependencies that do not resolve are skipped and
   never judged again, so it holds over judged dependencies
   (`JudgedTreeInstallable`, proved), not over declared ones.
3. **license_directory.** `validateTgz.ts` says the LICENSE *file's* text is captured.
   The code looks at names only and captures one entry: a directory named LICENSE
   that comes first is captured as an empty text, and the license file after it is skipped.
4. **code_first.** `robloxRules.ts` says a package with models must also ship non-trivial
   Luau source. The tally adds up every entry, also those that a later entry of the same
   name replaces, so less may be shipped than was counted. `ClearedIsClean` therefore
   speaks of the rules for names and models, not of this floor.
5. **verse_unscanned.** `uefnRules.ts` says the scan reads "every .verse file in the tarball". Names
   are allowed by their base name and captured as they stand, so a file entry whose name
   ends with a slash after `.verse` is allowed and not scanned. `ClearedIsClean` asks
   for a scanned text only of names that end in `.verse` as they stand.

Two more things a reader of the documents may not expect need no run, for the code shows them by
itself. Without a stored visibility among the facts (an older backend) the flag decides for an
existing package too (`publishVisibility.ts:40`), as the comment in lines 21-23 says and
README.md:9 does not; such a version is recorded where no download looks for it if the
flag differs. And `isDuplicateVersion` (`contentAddress.ts:18`), "the rule that enforces"
single publication, is called by nothing: the backend's refusal of the record call is the only
protection, after the tarball was stored.

### Fairness

`GatewayFairSpec` asks weak fairness of `Handle(r)` for each upload and of
`HandleIngest(m)` for each ingest, and nothing else. Clients need not send and the
container need not die. A handler that was called runs on whatever the others do
(Node runs every callback that is ready), and a call it awaits is answered or its
connection breaks: neither `postOrGet` nor the S3 client sets a timeout of its own,
so this is an assumption about the transport. `EveryCallAnswered` thus says that no handler is
lost on the way, by a failure, a death or a branch without a reply; it says nothing of how long a
peer can keep one waiting. No fairness is asked of a particular
outcome: answering 500 is enough for `EveryCallAnswered`.

`InspectionFairSpec` asks weak fairness of the validation's stream callbacks, of the
pipe's, and of the handler, and none of the timer or of a failure: the whole archive is
in memory, so the streams always have something to deliver until they settle, and
`NothingLeftRunning` shows that no listener relies on the timer to be rescued and
that the pipeline Promise.all forgot ends by itself.

`WorkerFairSpec` asks weak fairness of `Progress(r)` for each request: what the Worker
awaits answers or throws. The process need not come up, and the library need not notice
that it ended.

## 4. Proofs

Every invariant and every safety action property that a passing run checks is
also a theorem, for every value of the constants that satisfies the named
assumptions. The assumptions are of three kinds: types (what a request, a body, an
archive or a caller is), limits in Nat, and the absence of hash collisions
(`HashAssumption`). TLC evaluates each of them in the run of its module.

| module | proves about | rests on |
|---|---|---|
| PublishProofs | Publish, GatewayRules | |
| GatewayProofs | Gateway, MirrorTarball | PublishProofs |
| AccessProofs | Access | |
| WorkerProofs | Worker | |
| TotalsProofs | Totals | |
| ValidateTgzProofs | ValidateTgz | TotalsProofs |
| InspectionProofs | Inspection, HashAndPipe, UefnRules, RobloxRules | ValidateTgzProofs |
| UploadParseProofs | UploadParse | TotalsProofs |

**`PublishProofs`** shows that `Spec` keeps

    Inv == PublishInv /\ StoredIsCleared
    PublishInv == TypeOK /\ Stages /\ Decided /\ FactsHold /\ Stored /\ Recorded
                  /\ Replied /\ Denied /\ SealedStore

`PublishInv` is what survives when somebody else adds sealed objects to the bucket
(lemma `OthersPut`), `StoredIsCleared` holds on a bucket that only publishes write to.

`TypeOK` and the checked invariants are not inductive. What each other part adds:

- `Stages`: which calls can be on their way in which stage, so that a put or a
  record call in the network belongs to a request that was licensed, whose tarball
  validated and whose reply is not one that denies it;
- `Decided`: past the authorization, the visibility is the rule's decision over the
  facts read;
- `FactsHold`: facts once read stay true in the way later steps need (a stored visibility
  read from the backend is still the stored one, for nothing changes it);
- `SealedStore`: every object sits under the hash of its bytes with the SSE-C key of its
  storage key, so two puts of one key write the same object. `StoredOnce`
  follows from it, though a put replaces;
- `Stored`, `Recorded`: a request in its record call, and each version on record, has its object in the store;
- `Replied`, `Denied`: which reply and refusal go with which stage and with which denied facts.

| theorem | states | argument |
|---|---|---|
| TypeCorrect | `Spec => []TypeOK` | part of Inv |
| Invariance | `Spec => []Inv` | one lemma per action |
| OnlyClearedStored | StoredIsCleared | part of Inv, from Stages when a put lands |
| Deliverable | RecordedIsDeliverable | Recorded, FactsHold and SealedStore: the stored key is the key downloads look for |
| Honest | HonestReply | Replied and Recorded |
| DenialsAlike | DeniedLearnsNothing | Denied: a denied request has the refusal of PublishVerdict, which for denied facts of one standing is one (lemma DenialHidesTheRest) |
| PublicAsWanted | PublicIsWanted | Stored, Decided and FactsHold: a public decision was asked for, or read from a package that stays public |
| TreeInstallable | JudgedTreeInstallable | the set of packages the readers of p can install is closed under judged dependencies |
| StoredOnce | WriteOnce | SealedStore before and after |
| AdminsCreate | CreatedByAdmin | Decided: the recording request was permitted on facts that called the package new, or its facts had a package already |
| Refinement | `Spec => ImplementsRegistry` | each action maps to AddObject, AddVersion or a stutter under Inv |

**`AccessProofs`**, for every set of requests and relations and all lifetimes:

| theorem | property |
|---|---|
| Invariance, TypeCorrect | the inductive invariant, TypeOK |
| Personal | PrivateIsPersonal |
| DenialsAlike | DeniedLooksAbsent |
| LinksLive | LinkIsLive |
| PendingBrief | PendingIsBrief |

The four properties are not inductive: an answer may come out of the shared
cache, so the invariant says what can get there (`CacheShared`: public, without a link,
brief if pending), and two denials can be compared only through the facts each
handler read (`FactsOnce`, `AnswerSound`). `DeniedLooksAbsent` then needs no
step of its own: the code of a denial is a function of the credential (`Refusal`).

**`ValidateTgzProofs`**, for every set of archives and all limits in Nat:

| theorem | property |
|---|---|
| Invariance, TypeCorrect | the inductive invariant, TypeOK |
| ScanReadsTheExtracted | ScannedIsExtracted |
| ExactVerdict | VerdictIsExact |
| FirstLicense | LicenseIsTheFirst |
| AllChecked | every entry of an accepted archive passed its header checks, the total is within its limit |
| TimerGone | TimerCleared |
| OneOutcome | OutcomeIsFinal |

The invariant `Inv` follows the entries: the current one is captured as far as it has been
read (`ReadSoFar`), the ones before it were handed over (`HandedOver`) and checked
(`Checked`), and acceptance means all were seen (`Complete`). The lemma `FilesOfNext`
is the heart of it: handing one entry over is what an extraction does
with it, whatever namesakes came before.

The verdict and the license need a second invariant, proved over the first:

    VerdictInv == Counted /\ CaptureCounted /\ LicenseRead /\ SmallEnough
                  /\ LicenseTaken /\ RefusedForCause /\ AcceptedWhole

`Counted` and `CaptureCounted` say that the counters the code compares with its limits are
the sums of the sizes up to the entry and the piece at hand; `RefusedForCause` follows
because sums only grow (`RunningTotalsGrow`), so a limit passed midway is passed by
the whole. `LicenseRead` says what was kept of a license up to the current piece: the
pieces before the first one that passes the cap.

**`TotalsProofs`** holds the facts about sums that those counters need. They are inductions
over data, which the library's induction theorems cannot give here; each is proved by
least counterexample instead. The set of numbers for which the claim fails is a subset of
Nat, `LeastNumber` (from the library's well-founded order on Nat) picks its smallest
element, and the step from the one below contradicts it. `RunningTotalsDef` shows in
the same way that a function as the recursive definition asks for exists.

**`InspectionProofs`**, for any archives, limits, rules of a platform and chunks:

| theorem | property |
|---|---|
| PassRefined | `InspectionSpec => Spec`: each step is one of the validation or leaves it alone |
| InspectionInvariance, InspectionTypeCorrect | the inductive invariant, InspectionTypeOK |
| PassKeepsPromises | VerdictIsExact, ScannedIsExtracted, LicenseIsTheFirst, TimerCleared, OutcomeIsFinal in the composition |
| HashMatchesSink | HashIsOfSunk |
| OnlyCleanGoesOn | ClearedIsClean |
| NoneRefusedWithoutCause | GoodIsNotRefused |

By `PassRefined` nothing of the validation is proved twice. The composition adds
`PipeInv` (what the tap emitted is in the sink or its buffer, in order, and the hash is taken
once) and, for the handler, `Cleared` and `TurnedAway`: both were scanned after both
pipelines were done, so their captures are final. ClearedIsClean and
GoodIsNotRefused then compare two ways of saying the rules. The code looks
at entries as they pass and at captured files; the property speaks of the
extracted package. `ScannedIsExtracted` and `VerdictIsExact` are the bridge.

**`UploadParseProofs`**, for bodies of any length and any limit:

| theorem | property |
|---|---|
| ParseInvariance, ParseTypeCorrect | the inductive invariant, ParseTypeOK |
| DeservedReply | ReplyIsDeserved |
| WholeFile | ReceivedIsWhole |
| BoundedHold | HeldIsBounded |
| UsableManifest | ManifestIsUsable |

The invariant says that what the handler holds is a function of the parts it is done with
(`LastFieldsHeld`, `OneFileHeld`), that none of these had a fault (`NoFaultYet`), and that the file
at hand is what was sent as long as it is within the limit (`FileRead`). The reply a body
deserves is defined by its first faulty part, so DeservedReply comes down to this: the
part at which the handler stops is faulty, and those before it are not.

**`GatewayProofs`**, for any numbers of publishes and ingests:

| theorem | property |
|---|---|
| GatewayInvariance, GatewayTypeCorrect | the inductive invariant, GatewayTypeOK (no run checks it by itself) |
| MirrorTellsTrue | MirroredIsStored |
| AllAccounted | StoredIsAccounted (an ingest had the secret and a body with the hash it claimed) |
| PublishKeepsPromises | RecordedIsDeliverable, HonestReply, DeniedLearnsNothing, JudgedTreeInstallable beside the mirror |
| StillAdminsCreate | CreatedByAdmin |
| BothOnlyAdd | OnlyAdds |
| GatewayRefinement | GatewayImplementsRegistry |

A step is a publish's or an ingest's (`GatewaySteps`). The first kind keeps PublishInv by
the lemmas of PublishProofs, the second by `OthersPut`, since an ingest that reached its put has a
claim that holds (`Claims`) and so puts a sealed object. `FoundIsIdentical` is the code's
"byte-identical by construction": in a sealed store, whatever is found under an
ingest's key is what the ingest would have put. `StoredIsCleared` is not among the
theorems, for it is false beside the mirror, which stores without a license verdict;
`StoredIsAccounted` takes its place.

**`WorkerProofs`**, for every set of requests and every routing of them:

| theorem | property |
|---|---|
| Invariance, TypeCorrect | the inductive invariant, WorkerTypeOK |
| NeverTwice | HandledOnce |
| SetUpFirst | AnsweredBySetUp |

`Given` adds that a request is unhandled before its fetch, and handled once by a
listening process while it is with it; `SetUp` that a process which binds or holds
its port has its settings in order and all its routes. Respond is the step that needs
both. The lemmas are by effect (a request moves on, the process changes, a request is
answered) and each action cites one.

**Only model-checked:** the liveness properties `EveryCallAnswered`,
`NothingLeftRunning` and `EveryRequestAnswered`: they rest on fairness, hence on
ENABLED, which the prover does not handle. The five violation runs are
counterexamples and have nothing to prove. TLC also checked `VerdictInv`, `InspectionInv`,
`ParseInv` and `GatewayInv` as invariants of the runs inspection, upload and gateway.

## 5. Not modelled, and why

- The shape of single manifest fields (`schemas.ts`): lengths, patterns, trimming and the
  clean-up of descriptions are one flag of a JSON text; nothing after the parse looks at them.
- The regular expressions of the UEFN scan and the parser of model files (a library): a
  content is abstracted to what they find in it.
- Warnings' wording, and the fields of a record that are only passed on (readme, license rating, caveats).
- Archived-dependency warnings (`collectDependencyWarnings`): text of a 200 reply, no effect on what is done.
- Environment variables that are only handed on, `createS3Client`, and the outbound proxy of
  `index.ts`, which passes the container's calls on unchanged.
- The access answer's metadata, and the different casings of one URL in the edge cache.
- Two spellings of one path ("./a" and "a", "d" and "d/") are two names, as they are in the maps the
  code keeps; an extraction writes both to one place.
- In the extraction: the checks for traversal and depth are one flag of an entry (`safePath`),
  and text and binary captures are one kind; they differ in their cap only.

## 6. Plan

Built: every component of the inventory; every safety property of the passing runs is proved. Left:

1. A one-step abstract specification of the inspection (an upload is cleared or refused, and the
   hash belongs to it) and of the parsing, refined by Inspection and UploadParse, as the
   single steps that Publish takes for them; the link is stated in prose so far.
2. How far `CodeFirst` can be saved: the floor holds for archives whose Luau sources have different names.
3. The cooldown of 0 seconds (`BlockVerdict`): no source says what it should be answered.
