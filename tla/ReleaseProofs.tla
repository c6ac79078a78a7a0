---------------------------- MODULE ReleaseProofs ----------------------------
(***************************************************************************)
(* Theorems about Release: what the release tool reports and records is    *)
(* true of the canister, whatever happens between two of its reads.        *)
(*                                                                         *)
(* A command is the sequence of the steps still to do.  What holds in the  *)
(* middle of a command is said by which steps are still to come: a check   *)
(* that is no longer to come has passed.  Only three things matter about   *)
(* the order of the steps: which steps are left, which pairs are never in  *)
(* the wrong order, and which step is always followed by another.  All     *)
(* three survive the removal of the first step.                            *)
(***************************************************************************)
EXTENDS Release, TLAPS

----------------------------------------------------------------------------
(* Sequences of steps *)

\* The steps of the upgrade commands, and of the activation commands.
Word ==
  {"Snapshot", "Compare", "CurrentState", "CurrentCertified", "Registration", "Sign",
   "StoredChunks", "Upload", "ModuleStill", "Send", "Outcome", "Report",
   "RegistrationExecuted", "ProposalExecuted", "UpgradeObserved",
   "Status", "Pending", "Management", "Attestation", "Lifecycle", "SealReceipt",
   "Activated", "OpenAttestation", "Open", "TryRefresh", "ScheduleLive", "CallSeal",
   "ReadAttestation", "WriteSealReceipt", "Stamp", "WriteAuthorization", "Authorized",
   "Fresh", "CallPrepare", "Answer", "WriteArtifact", "Bind", "Recover", "ArtifactBound",
   "CallReplace", "CallConfirm", "WriteConfirmation", "Refresh", "StatusMatches",
   "WriteReceipt"}
StepsOf(q) == {q[k] : k \in 1..Len(q)}

\* y does not come after x.
NeverAfter(x, y) ==
  \/ x \in {"Send", "Report", "WriteReceipt"} \/ y = "Outcome"
  \/ x = "Outcome" /\ y = "Send"
  \/ x \in {"Answer", "Recover", "CallReplace", "WriteArtifact", "Bind"} /\ y = "Authorized"
  \/ x = "WriteArtifact" /\ y \in {"Answer", "Recover", "CallReplace", "WriteArtifact"}
  \/ x = "Bind" /\ y = "WriteArtifact"
  \/ x = "CallReplace" /\ y = "CallReplace"
  \/ x = "WriteAuthorization" /\ y \in {"Stamp", "Pending", "WriteAuthorization"}
Ordered(q) == \A i, j \in 1..Len(q) : i < j => ~NeverAfter(q[i], q[j])

\* Every x is followed by a y.
Followed(q, x, y) ==
  \A i \in 1..Len(q) : q[i] = x => \E j \in 1..Len(q) : i < j /\ q[j] = y

\* The steps that need another one after them, and which.
Needing == {"UpgradeObserved", "Snapshot", "Stamp", "CallReplace"}
Needed(x) ==
  IF x \in {"UpgradeObserved", "Snapshot"} THEN "CurrentCertified"
  ELSE IF x = "Stamp" THEN "Pending" ELSE "WriteArtifact"

WellPlanned(q) ==
  q \in Seq(Word) /\ Ordered(q) /\ \A x \in Needing : Followed(q, x, Needed(x))

----------------------------------------------------------------------------
(* Upgrades *)

Registered == controllers = {"root"}

\* The clock, the controllers, which only move from the installer to Root, and
\* what Root and the installer can have done under them.
UpgradeEnv ==
  /\ now \in Nat /\ now > 0
  /\ controllers \in {{"installer"}, {"installer", "root"}, {"root"}}
  /\ sns = [registered |-> sns.registered, at |-> sns.at, proposals |-> sns.proposals]
  /\ sns.proposals \in Seq([module : Modules, runs : BOOLEAN, at : Nat])
  /\ sns.registered \/ sns.proposals # <<>> => Registered
  /\ rootRan \in [Modules -> Nat]
  /\ \A m \in Modules : rootRan[m] <= now
  /\ \A n \in 1..Len(sns.proposals) : sns.proposals[n].at <= now
  /\ observation # None /\ observation[1].by = "root" =>
       /\ Registered /\ module \in Modules
       /\ observation[1].at = rootRan[module]

\* The operator has always kept to the wait.
Patient == ~installer.early

\* A signed request ends before the wait for it does.
RequestsOk ==
  /\ installer = [sends |-> installer.sends, live |-> installer.live, ran |-> installer.ran,
                  waitUntil |-> installer.waitUntil, early |-> installer.early]
  /\ installer.waitUntil \in Nat /\ installer.early \in BOOLEAN
  /\ \A r \in installer.live : r.expiry \in Nat /\ now <= r.expiry
  /\ Patient => \A r \in installer.live : r.expiry < installer.waitUntil

SessionFields ==
  /\ session = [kind |-> session.kind, expect |-> session.expect,
                candidate |-> session.candidate, id |-> session.id,
                expiry |-> session.expiry, before |-> session.before, todo |-> session.todo]
  /\ session.kind \in {"none", "direct", "sns"}
  /\ session.expiry \in Nat /\ session.expiry <= now + IngressLife
  /\ session = NoSession \/ session.kind # "none"
  /\ session # NoSession => report = None

Left(x) == x \in StepsOf(session.todo)

SessionPlan ==
  /\ WellPlanned(session.todo)
  /\ session.kind = "direct" /\ Left("Snapshot") => Left("Send")
  /\ session.kind = "sns" => ~Left("Send") /\ ~Left("Outcome") /\ ~Left("Sign")

\* The check of an SNS upgrade.
SnsSession ==
  session.kind = "sns" =>
    /\ session.expect \in Modules /\ session.id \in 1..Len(sns.proposals)
    /\ ~Left("UpgradeObserved") =>
         /\ observation # None /\ observation[1].by = "root"
         /\ sns.proposals[session.id].at > 0
         /\ observation[1].at >= sns.proposals[session.id].at
    /\ ~Left("CurrentCertified") =>
         /\ sns.proposals[session.id].at > 0
         /\ rootRan[session.expect] >= sns.proposals[session.id].at

Sole == {"installer"}

\* The installer's upgrade before the request is sent, ...
BeforeSend ==
  Patient /\ session.kind = "direct" /\ Left("Send") =>
    /\ installer.live = {} /\ installer.ran = None /\ session.expect # session.candidate
    /\ ~Left("Snapshot") /\ controllers = Sole => session.before[1][1] = Sole
    /\ ~Left("CurrentCertified") => session.before[1][1] = Sole
    /\ ~Left("ModuleStill") /\ controllers = Sole => module = session.expect

\* ... while the request may run, ...
Sent ==
  Patient /\ session.kind = "direct" /\ Left("Outcome") =>
    /\ session.before[1][1] = Sole /\ session.expect # session.candidate
    /\ controllers = Sole =>
         \/ /\ installer.ran = None /\ module = session.expect
            /\ \A r \in installer.live : r.id = session.id /\ r.module = session.candidate
            /\ \A r, s \in installer.live : r = s
         \/ /\ installer.ran = <<[id |-> session.id, over |-> session.expect]>>
            /\ installer.live = {} /\ module = session.candidate

\* ... and once it was seen to have run.
Seen ==
  Patient /\ session.kind = "direct" /\ ~Left("Send") /\ ~Left("Outcome") =>
    /\ installer.ran = <<[id |-> session.id, over |-> session.candidate]>>
    /\ installer.live = {}

\* What a report says stays true.
Reported ==
  \A n \in DOMAIN report :
    /\ report[n].kind = "sns" =>
         /\ report[n].module \in Modules /\ report[n].id \in 1..Len(sns.proposals)
         /\ sns.proposals[report[n].id].at > 0
         /\ rootRan[report[n].module] >= sns.proposals[report[n].id].at
    /\ Patient /\ report[n].kind = "direct" =>
         /\ installer.ran = <<[id |-> report[n].id, over |-> report[n].over]>>
         /\ installer.live = {}

UpgradeInv ==
  /\ UpgradeEnv /\ RequestsOk /\ SessionFields /\ SessionPlan
  /\ SnsSession /\ BeforeSend /\ Sent /\ Seen /\ Reported

----------------------------------------------------------------------------
(* Activation *)

\* The steps the invariant is about, and those among them that write an
\* artifact or need one.
ArtifactSteps == {"Answer", "Recover", "CallReplace", "WriteArtifact", "Bind"}
PhaseSteps ==
  ArtifactSteps \cup {"CallPrepare", "WriteAuthorization", "WriteConfirmation", "WriteReceipt"}

Signature == [phase : Phases, id : Nat, op : Nat, gen : Nat, signedAt : Nat]
Verified == [id : Nat, op : Nat, signedAt : Nat, authorizedAt : Nat, verifiedAt : Nat]
Transaction == [phase : Phases, id : Nat, op : Nat, attempts : Seq(Nat)]
PhaseFiles ==
  [auth : Seq(Nat), art : [Generations -> Seq(Signature)], bound : [Generations -> BOOLEAN],
   conf : [Generations -> Seq(BOOLEAN)], receipt : Seq(Verified)]

CanisterFields ==
  {"lifecycle", "paused", "emergency", "attestedAt", "attestedPaused", "tx", "timelock",
   "last", "done", "nextId"}

CanisterOk(c) ==
  /\ DOMAIN c = CanisterFields
  /\ c.tx \in Seq(Transaction) /\ c.timelock \in Seq(Nat)
  /\ c.nextId \in Nat /\ c.attestedAt \in Nat

Drivers ==
  [phase : Phases \cup {"none", "seal"}, slot : Generations, at : Nat, got : Seq(Signature),
   todo : Seq(Word)]

ActivationTypes ==
  now \in Nat /\ CanisterOk(can) /\ files \in [Phases -> PhaseFiles] /\ driver \in Drivers

\* No attempt of the pending transaction was signed before a.
SignedSince(c, a) ==
  c.tx # None => \A i \in 1..Len(c.tx[1].attempts) : a <= c.tx[1].attempts[i]
Since(a) == SignedSince(can, a)

\* What the files of a phase say.
FilesOk(p) ==
  /\ files[p].auth # None =>
       /\ files[p].auth[1] <= now /\ Since(files[p].auth[1])
       /\ p = "execute" =>
            /\ files["schedule"].receipt # None
            /\ files["schedule"].receipt[1].verifiedAt <= files[p].auth[1]
  /\ \A g \in Generations :
       /\ files[p].art[g] # None =>
            /\ files[p].auth # None /\ files[p].auth[1] <= files[p].art[g][1].signedAt
            /\ files[p].art[g][1].phase = p
       /\ files[p].bound[g] => files[p].art[g] # None
  /\ files[p].receipt # None => files[p].receipt[1].verifiedAt <= now

Ahead(x) == x \in StepsOf(driver.todo)
AheadOf(S) == \E x \in S : Ahead(x)

DriverPlan ==
  /\ WellPlanned(driver.todo)
  /\ AheadOf(PhaseSteps) => driver.phase \in Phases
  /\ Ahead("WriteReceipt") => ~AheadOf(ArtifactSteps)
  /\ Ahead("WriteAuthorization") => ~AheadOf({"ReadAttestation", "CallConfirm",
       "WriteConfirmation"})
  /\ driver.phase = "execute" => files["schedule"].receipt # None
  /\ Ahead("CallReplace") => driver.slot + 1 \in Generations
       /\ files[driver.phase].bound[driver.slot]

\* An authorization on its way is not older than the last look at the pending
\* transactions, ...
Authorizing ==
  Ahead("WriteAuthorization") /\ ~Ahead("Stamp") =>
    /\ driver.at <= now
    /\ driver.phase = "execute" => files["schedule"].receipt[1].verifiedAt <= driver.at
    /\ ~Ahead("Pending") => Since(driver.at)

\* ... an artifact on its way is of the phase and was signed since, ...
Fetching ==
  /\ AheadOf(ArtifactSteps) => Ahead("Authorized") \/ files[driver.phase].auth # None
  /\ Ahead("WriteArtifact") => driver.got # None \/ AheadOf({"Answer", "Recover", "CallReplace"})
  /\ driver.got # None =>
       /\ driver.phase \in Phases /\ files[driver.phase].auth # None
       /\ files[driver.phase].auth[1] <= driver.got[1].signedAt
       /\ driver.got[1].phase = driver.phase
  /\ Ahead("Bind") => Ahead("WriteArtifact") \/ files[driver.phase].art[driver.slot] # None

\* ... and a receipt on its way is of the operation that was scheduled.
Verifying ==
  Ahead("WriteReceipt") /\ ~Ahead("StatusMatches") /\ driver.phase = "execute" =>
    LET art == files["execute"].art[driver.slot][1]
        r == files["schedule"].receipt[1]
    IN  art.op = r.op /\ r.id < art.id

ActivationInv ==
  /\ ActivationTypes /\ \A p \in Phases : FilesOk(p)
  /\ DriverPlan /\ Authorizing /\ Fetching /\ Verifying /\ SignedUnderAuthorization

----------------------------------------------------------------------------
(* Sequences of steps: the first one removed, and two put together *)

LEMMA TailIndex ==
  ASSUME NEW q \in Seq(Word), q # <<>>
  PROVE  /\ Tail(q) \in Seq(Word) /\ Len(q) \in Nat /\ Len(q) >= 1 /\ Len(Tail(q)) = Len(q) - 1
         /\ q[1] \in Word
         /\ \A k \in 1..Len(Tail(q)) : k + 1 \in 2..Len(q) /\ Tail(q)[k] = q[k + 1]
         /\ \A k \in 2..Len(q) : k - 1 \in 1..Len(Tail(q)) /\ q[k] = Tail(q)[k - 1]
  OBVIOUS

LEMMA TailSteps ==
  ASSUME NEW q \in Seq(Word), q # <<>>
  PROVE  Tail(q) \in Seq(Word) /\ StepsOf(q) = {q[1]} \cup StepsOf(Tail(q))
  <1>1. StepsOf(q) \subseteq {q[1]} \cup StepsOf(Tail(q))
    <2>1. ASSUME NEW k \in 1..Len(q)
          PROVE  q[k] = q[1] \/ \E j \in 1..Len(Tail(q)) : q[k] = Tail(q)[j]
      <3>1. CASE k = 1
        BY <3>1
      <3>2. CASE k # 1
        <4>1. k \in 2..Len(q)
          BY <3>2, TailIndex
        <4> QED BY <4>1, TailIndex, Zenon
      <3> QED BY <3>1, <3>2
    <2>2. ASSUME NEW x \in StepsOf(q) PROVE x \in {q[1]} \cup StepsOf(Tail(q))
      <3>1. PICK k \in 1..Len(q) : x = q[k]
        BY Zenon DEF StepsOf
      <3>2. x = q[1] \/ \E j \in 1..Len(Tail(q)) : x = Tail(q)[j]
        BY <2>1, <3>1, Zenon
      <3> QED BY <3>2 DEF StepsOf
    <2> QED BY <2>2
  <1>2. {q[1]} \cup StepsOf(Tail(q)) \subseteq StepsOf(q)
    <2>1. 1 \in 1..Len(q)
      BY TailIndex
    <2>2. ASSUME NEW k \in 1..Len(Tail(q)) PROVE \E j \in 1..Len(q) : Tail(q)[k] = q[j]
      <3>1. k + 1 \in 2..Len(q) /\ Tail(q)[k] = q[k + 1]
        BY TailIndex, Zenon
      <3>2. k + 1 \in 1..Len(q)
        BY <3>1, TailIndex
      <3> QED BY <3>1, <3>2, Zenon
    <2> QED BY <2>1, <2>2, Zenon DEF StepsOf
  <1> QED BY <1>1, <1>2, TailIndex

LEMMA TailOrdered ==
  ASSUME NEW q \in Seq(Word), q # <<>>, Ordered(q)
  PROVE  Ordered(Tail(q)) /\ \A y \in StepsOf(Tail(q)) : ~NeverAfter(q[1], y)
  <1>1. ASSUME NEW i \in 1..Len(Tail(q)), NEW j \in 1..Len(Tail(q)), i < j
        PROVE  ~NeverAfter(Tail(q)[i], Tail(q)[j])
    <2>1. /\ i + 1 \in 1..Len(q) /\ j + 1 \in 1..Len(q) /\ i + 1 < j + 1
          /\ Tail(q)[i] = q[i + 1] /\ Tail(q)[j] = q[j + 1]
      BY <1>1, TailIndex
    <2> QED BY <2>1, Zenon DEF Ordered
  <1>2. ASSUME NEW j \in 1..Len(Tail(q)) PROVE ~NeverAfter(q[1], Tail(q)[j])
    <2>1. 1 \in 1..Len(q) /\ j + 1 \in 1..Len(q) /\ 1 < j + 1 /\ Tail(q)[j] = q[j + 1]
      BY TailIndex
    <2> QED BY <2>1, Zenon DEF Ordered
  <1> QED BY <1>1, <1>2, Zenon DEF Ordered, StepsOf

LEMMA TailFollowed ==
  ASSUME NEW q \in Seq(Word), q # <<>>, NEW x, NEW y, Followed(q, x, y)
  PROVE  Followed(Tail(q), x, y) /\ (q[1] = x => y \in StepsOf(Tail(q)))
  <1>1. ASSUME NEW i \in 1..Len(q), q[i] = x
        PROVE  \E k \in 1..Len(Tail(q)) : i <= k /\ Tail(q)[k] = y
    <2>1. PICK j \in 1..Len(q) : i < j /\ q[j] = y
      BY <1>1, Zenon DEF Followed
    <2>2. j \in 2..Len(q) /\ j - 1 \in 1..Len(Tail(q)) /\ i <= j - 1
      BY <2>1, TailIndex
    <2>3. Tail(q)[j - 1] = y
      BY <2>1, <2>2, TailIndex, Zenon
    <2> QED BY <2>2, <2>3, Zenon
  <1>2. ASSUME NEW i \in 1..Len(Tail(q)), Tail(q)[i] = x
        PROVE  \E k \in 1..Len(Tail(q)) : i < k /\ Tail(q)[k] = y
    <2>1. i + 1 \in 1..Len(q) /\ q[i + 1] = x
      BY <1>2, TailIndex
    <2>2. PICK k \in 1..Len(Tail(q)) : i + 1 <= k /\ Tail(q)[k] = y
      BY <1>1, <2>1, Zenon
    <2>3. i < k
      BY <2>2, TailIndex
    <2> QED BY <2>2, <2>3, Zenon
  <1>3. q[1] = x => y \in StepsOf(Tail(q))
    <2>1. 1 \in 1..Len(q)
      BY TailIndex
    <2> QED BY <1>1, <2>1, Zenon DEF StepsOf
  <1> QED BY <1>2, <1>3, Zenon DEF Followed

LEMMA ConcatIndex ==
  ASSUME NEW s \in Seq(Word), NEW t \in Seq(Word)
  PROVE  /\ s \o t \in Seq(Word) /\ Len(s) \in Nat /\ Len(t) \in Nat
           /\ Len(s \o t) = Len(s) + Len(t)
         /\ \A k \in 1..Len(s \o t) :
              \/ k \in 1..Len(s) /\ (s \o t)[k] = s[k]
              \/ k > Len(s) /\ k - Len(s) \in 1..Len(t) /\ (s \o t)[k] = t[k - Len(s)]
         /\ \A k \in 1..Len(s) : k \in 1..Len(s \o t) /\ (s \o t)[k] = s[k]
         /\ \A k \in 1..Len(t) : Len(s) + k \in 1..Len(s \o t) /\ (s \o t)[Len(s) + k] = t[k]
  OBVIOUS

LEMMA ConcatSteps ==
  ASSUME NEW s \in Seq(Word), NEW t \in Seq(Word)
  PROVE  s \o t \in Seq(Word) /\ StepsOf(s \o t) = StepsOf(s) \cup StepsOf(t)
  <1>1. ASSUME NEW x \in StepsOf(s \o t) PROVE x \in StepsOf(s) \cup StepsOf(t)
    <2>1. PICK k \in 1..Len(s \o t) : x = (s \o t)[k]
      BY Zenon DEF StepsOf
    <2>2. (\E j \in 1..Len(s) : x = s[j]) \/ (\E j \in 1..Len(t) : x = t[j])
      BY <2>1, ConcatIndex
    <2> QED BY <2>2 DEF StepsOf
  <1>2. ASSUME NEW x \in StepsOf(s) \cup StepsOf(t) PROVE x \in StepsOf(s \o t)
    <2>1. (\E j \in 1..Len(s) : x = s[j]) \/ (\E j \in 1..Len(t) : x = t[j])
      BY DEF StepsOf
    <2>2. \E k \in 1..Len(s \o t) : x = (s \o t)[k]
      <3>1. ASSUME NEW j \in 1..Len(s), x = s[j] PROVE \E k \in 1..Len(s \o t) : x = (s \o t)[k]
        BY <3>1, ConcatIndex, Zenon
      <3>2. ASSUME NEW j \in 1..Len(t), x = t[j] PROVE \E k \in 1..Len(s \o t) : x = (s \o t)[k]
        <4>1. PICK k : k = Len(s) + j
          BY Zenon
        <4>2. k \in 1..Len(s \o t) /\ (s \o t)[k] = t[j]
          BY <4>1, ConcatIndex
        <4> QED BY <3>2, <4>2, Zenon
      <3> QED BY <2>1, <3>1, <3>2, Zenon
    <2> QED BY <2>2, Zenon DEF StepsOf
  <1>3. StepsOf(s \o t) = StepsOf(s) \cup StepsOf(t)
    BY ONLY <1>1, <1>2
  <1> QED BY <1>3, ConcatIndex, Zenon

LEMMA ConcatOrdered ==
  ASSUME NEW s \in Seq(Word), NEW t \in Seq(Word), Ordered(s), Ordered(t),
         \A x \in StepsOf(s), y \in StepsOf(t) : ~NeverAfter(x, y)
  PROVE  Ordered(s \o t)
  <1>1. ASSUME NEW i \in 1..Len(s \o t), NEW j \in 1..Len(s \o t), i < j
        PROVE  ~NeverAfter((s \o t)[i], (s \o t)[j])
    <2>1. CASE j \in 1..Len(s)
      <3>1. i \in 1..Len(s) /\ (s \o t)[i] = s[i] /\ (s \o t)[j] = s[j]
        BY <1>1, <2>1, ConcatIndex
      <3> QED BY <1>1, <2>1, <3>1, Zenon DEF Ordered
    <2>2. CASE i \in 1..Len(s) /\ j > Len(s)
      <3>1. j - Len(s) \in 1..Len(t) /\ (s \o t)[i] = s[i] /\ (s \o t)[j] = t[j - Len(s)]
        BY <2>2, ConcatIndex
      <3> QED BY <2>2, <3>1, Zenon DEF StepsOf
    <2>3. CASE i > Len(s) /\ j > Len(s)
      <3>1. /\ i - Len(s) \in 1..Len(t) /\ j - Len(s) \in 1..Len(t) /\ i - Len(s) < j - Len(s)
            /\ (s \o t)[i] = t[i - Len(s)] /\ (s \o t)[j] = t[j - Len(s)]
        BY <1>1, <2>3, ConcatIndex
      <3> QED BY <3>1, Zenon DEF Ordered
    <2> QED BY <1>1, <2>1, <2>2, <2>3, ConcatIndex
  <1> QED BY <1>1, Zenon DEF Ordered

LEMMA ConcatFollowed ==
  ASSUME NEW s \in Seq(Word), NEW t \in Seq(Word), NEW x, NEW y,
         Followed(s, x, y) \/ y \in StepsOf(t), Followed(t, x, y)
  PROVE  Followed(s \o t, x, y)
  <1>1. ASSUME NEW i \in 1..Len(s \o t), (s \o t)[i] = x
        PROVE  \E j \in 1..Len(s \o t) : i < j /\ (s \o t)[j] = y
    <2>1. CASE i \in 1..Len(s) /\ y \in StepsOf(t)
      <3>1. PICK k \in 1..Len(t) : t[k] = y
        BY <2>1, Zenon DEF StepsOf
      <3>2. Len(s) + k \in 1..Len(s \o t) /\ (s \o t)[Len(s) + k] = y
        BY <3>1, ConcatIndex, Zenon
      <3>3. i < Len(s) + k
        BY <2>1, ConcatIndex
      <3> QED BY <3>2, <3>3, Zenon
    <2>2. CASE i \in 1..Len(s) /\ Followed(s, x, y)
      <3>1. s[i] = x
        BY <1>1, <2>2, ConcatIndex, Zenon
      <3>2. PICK k \in 1..Len(s) : i < k /\ s[k] = y
        BY <2>2, <3>1, Zenon DEF Followed
      <3> QED BY <3>2, ConcatIndex, Zenon
    <2>3. CASE i > Len(s) /\ i - Len(s) \in 1..Len(t) /\ (s \o t)[i] = t[i - Len(s)]
      <3>1. PICK k \in 1..Len(t) : i - Len(s) < k /\ t[k] = y
        BY <1>1, <2>3, Zenon DEF Followed
      <3>2. Len(s) + k \in 1..Len(s \o t) /\ (s \o t)[Len(s) + k] = y
        BY <3>1, ConcatIndex, Zenon
      <3>3. i < Len(s) + k
        BY <2>3, <3>1, ConcatIndex
      <3> QED BY <3>2, <3>3, Zenon
    <2> QED BY <2>1, <2>2, <2>3, ConcatIndex
  <1> QED BY <1>1, Zenon DEF Followed

\* q is made of the steps in S, in an allowed order.
Part(q, S) == q \in Seq(Word) /\ StepsOf(q) = S /\ Ordered(q)

\* A part of a command in which at most the steps in U miss the step they need.
Plan(q, S, U) == Part(q, S) /\ \A x \in Needing : x \in U \/ Followed(q, x, Needed(x))

LEMMA PartOne == ASSUME NEW x \in Word PROVE Part(<<x>>, {x})
  <1>1. <<x>> \in Seq(Word) /\ Len(<<x>>) = 1 /\ <<x>>[1] = x
    OBVIOUS
  <1>2. StepsOf(<<x>>) = {x}
    BY <1>1 DEF StepsOf
  <1>3. Ordered(<<x>>)
    BY <1>1 DEF Ordered
  <1> QED BY <1>1, <1>2, <1>3, Zenon DEF Part

LEMMA PartTwo ==
  ASSUME NEW a \in Word, NEW b \in Word, ~NeverAfter(a, b)
  PROVE  Part(<<a, b>>, {a, b})
  <1>1. PICK q : q = <<a, b>>
    BY Zenon
  <1>2. q \in Seq(Word) /\ Len(q) = 2 /\ q[1] = a /\ q[2] = b
    BY <1>1
  <1>3. StepsOf(q) = {a, b}
    BY ONLY <1>2 DEF StepsOf
  <1>4. \A i, j \in 1..2 : i < j => i = 1 /\ j = 2
    BY ONLY TRUE
  <1>5. Ordered(q)
    BY <1>2, <1>4, Zenon DEF Ordered
  <1> QED BY <1>1, <1>2, <1>3, <1>5, Zenon DEF Part

LEMMA PartThree ==
  ASSUME NEW a \in Word, NEW b \in Word, NEW c \in Word,
         ~NeverAfter(a, b), ~NeverAfter(a, c), ~NeverAfter(b, c)
  PROVE  Part(<<a, b, c>>, {a, b, c})
  <1>1. PICK q : q = <<a, b, c>>
    BY Zenon
  <1>2. q \in Seq(Word) /\ Len(q) = 3 /\ q[1] = a /\ q[2] = b /\ q[3] = c
    BY <1>1
  <1>3. StepsOf(q) = {a, b, c}
    BY ONLY <1>2 DEF StepsOf
  <1>4. \A i, j \in 1..3 : i < j => (i = 1 /\ j = 2) \/ (i = 1 /\ j = 3) \/ (i = 2 /\ j = 3)
    BY ONLY TRUE
  <1>5. Ordered(q)
    BY <1>2, <1>4, Zenon DEF Ordered
  <1> QED BY <1>1, <1>2, <1>3, <1>5, Zenon DEF Part

LEMMA PartFour ==
  ASSUME NEW a \in Word, NEW b \in Word, NEW c \in Word, NEW d \in Word,
         ~NeverAfter(a, b), ~NeverAfter(a, c), ~NeverAfter(b, c),
         ~NeverAfter(a, d), ~NeverAfter(b, d), ~NeverAfter(c, d)
  PROVE  Part(<<a, b, c, d>>, {a, b, c, d})
  <1>1. PICK q : q = <<a, b, c, d>>
    BY Zenon
  <1>2. q \in Seq(Word) /\ Len(q) = 4 /\ q[1] = a /\ q[2] = b /\ q[3] = c /\ q[4] = d
    BY <1>1
  <1>3. StepsOf(q) = {a, b, c, d}
    BY ONLY <1>2 DEF StepsOf
  <1>4. \A i, j \in 1..4 : i < j =>
          \/ (i = 1 /\ j = 2) \/ (i = 1 /\ j = 3) \/ (i = 2 /\ j = 3)
          \/ (i = 1 /\ j = 4) \/ (i = 2 /\ j = 4) \/ (i = 3 /\ j = 4)
    BY ONLY TRUE
  <1>5. Ordered(q)
    BY <1>2, <1>4, Zenon DEF Ordered
  <1> QED BY <1>1, <1>2, <1>3, <1>5, Zenon DEF Part

LEMMA PartConcat ==
  ASSUME NEW s, NEW t, NEW S, NEW T, Part(s, S), Part(t, T),
         \A x \in S, y \in T : ~NeverAfter(x, y)
  PROVE  Part(s \o t, S \cup T)
  BY ConcatSteps, ConcatOrdered, Zenon DEF Part

\* A segment, whose own steps may need what follows it.
LEMMA PlanSegment ==
  ASSUME NEW q, NEW S, NEW U, Part(q, S), \A x \in Needing : x \in S => x \in U
  PROVE  Plan(q, S, U)
  <1>1. \A i \in 1..Len(q) : q[i] \in S
    BY DEF StepsOf, Part
  <1>2. ASSUME NEW x \in Needing, x \notin U PROVE Followed(q, x, Needed(x))
    BY <1>1, <1>2, Zenon DEF Followed
  <1> QED BY <1>2, Zenon DEF Plan

\* A segment of the steps in T may come after one of those in S; W is what is
\* still missing then.
Fits(S, U, T, V, W) ==
  /\ \A x \in S, y \in T : ~NeverAfter(x, y)
  /\ \A x \in V : x \in W
  /\ \A x \in U : x \in W \/ Needed(x) \in T

LEMMA PlanConcat ==
  ASSUME NEW s, NEW t, NEW S, NEW T, NEW U, NEW V, NEW W, Plan(s, S, U), Plan(t, T, V),
         Fits(S, U, T, V, W)
  PROVE  Plan(s \o t, S \cup T, W)
  <1> USE DEF Fits
  <1>1. Part(s, S) /\ Part(t, T)
    BY Zenon DEF Plan
  <1>2. ASSUME NEW x \in Needing, x \notin W PROVE Followed(s \o t, x, Needed(x))
    <2>1. Followed(t, x, Needed(x))
      BY <1>2, Zenon DEF Plan
    <2>2. Followed(s, x, Needed(x)) \/ Needed(x) \in StepsOf(t)
      BY <1>2, <1>1, Zenon DEF Plan, Part
    <2> QED BY <1>1, <2>1, <2>2, ConcatFollowed, Zenon DEF Part
  <1>3. Part(s \o t, S \cup T)
    BY <1>1, PartConcat, Zenon
  <1> QED BY <1>2, <1>3, Zenon DEF Plan

LEMMA PlanWhole ==
  ASSUME NEW q, NEW S, Plan(q, S, {})
  PROVE  WellPlanned(q) /\ StepsOf(q) = S
  BY Zenon DEF Plan, Part, WellPlanned

\* Nothing is left to do.
LEMMA NothingLeft == WellPlanned(<<>>) /\ StepsOf(<<>>) = {}
  <1>1. <<>> \in Seq(Word) /\ Len(<<>>) = 0 /\ 1..0 = {}
    OBVIOUS
  <1>2. StepsOf(<<>>) = {} /\ Ordered(<<>>) /\ \A x, y : Followed(<<>>, x, y)
    BY <1>1, Zenon DEF StepsOf, Ordered, Followed
  <1> QED BY <1>1, <1>2, Zenon DEF WellPlanned

\* What the removal of the first step leaves of a command.
Advanced(q, t) ==
  /\ WellPlanned(t) /\ q[1] \in StepsOf(q)
  /\ \A x : x \in StepsOf(t) => x \in StepsOf(q) /\ ~NeverAfter(q[1], x)
  /\ \A x : x \in StepsOf(q) => x = q[1] \/ x \in StepsOf(t)
  /\ \A x \in Needing : x \in StepsOf(q) => Needed(x) \in StepsOf(t)

LEMMA TailAdvanced ==
  ASSUME NEW q, WellPlanned(q), q # <<>>
  PROVE  Advanced(q, Tail(q))
  <1>1. q \in Seq(Word) /\ Ordered(q)
    BY Zenon DEF WellPlanned
  <1>2. Tail(q) \in Seq(Word) /\ StepsOf(q) = {q[1]} \cup StepsOf(Tail(q))
    BY <1>1, TailSteps, Zenon
  <1>3. Ordered(Tail(q)) /\ \A y \in StepsOf(Tail(q)) : ~NeverAfter(q[1], y)
    BY <1>1, TailOrdered, Zenon
  <1>4. ASSUME NEW x \in Needing
        PROVE  /\ Followed(Tail(q), x, Needed(x))
               /\ x \in StepsOf(q) => Needed(x) \in StepsOf(Tail(q))
    <2>1. Followed(q, x, Needed(x))
      BY Zenon DEF WellPlanned
    <2>2. Followed(Tail(q), x, Needed(x)) /\ (q[1] = x => Needed(x) \in StepsOf(Tail(q)))
      BY <1>1, <2>1, TailFollowed, Zenon
    <2>3. ASSUME x \in StepsOf(Tail(q)) PROVE Needed(x) \in StepsOf(Tail(q))
      BY <2>2, <2>3, Zenon DEF Followed, StepsOf
    <2> QED BY <1>2, <2>2, <2>3, Zenon
  <1>5. WellPlanned(Tail(q))
    BY <1>2, <1>3, <1>4, Zenon DEF WellPlanned
  <1> QED BY <1>2, <1>3, <1>4, <1>5, Zenon DEF Advanced

----------------------------------------------------------------------------
(* The upgrade commands *)

CurrentSteps == {"CurrentState", "CurrentCertified", "Registration"}
UploadSteps == {"Sign", "StoredChunks", "Upload", "ModuleStill"}
ProposalSteps == {"RegistrationExecuted", "ProposalExecuted", "UpgradeObserved", "Compare"}

LEMMA Singles ==
  /\ Plan(<<"Snapshot">>, {"Snapshot"}, {"Snapshot"}) /\ Plan(<<"Compare">>, {"Compare"}, {})
  /\ Plan(<<"Send">>, {"Send"}, {}) /\ Plan(<<"Outcome">>, {"Outcome"}, {})
  /\ Plan(<<"Report">>, {"Report"}, {})
  /\ Plan(<<"RegistrationExecuted">>, {"RegistrationExecuted"}, {})
  <1>1. {"Snapshot", "Compare", "Send", "Outcome", "Report", "RegistrationExecuted"} \subseteq Word
    BY DEF Word
  <1>2. /\ Part(<<"Snapshot">>, {"Snapshot"}) /\ Part(<<"Compare">>, {"Compare"})
        /\ Part(<<"Send">>, {"Send"}) /\ Part(<<"Outcome">>, {"Outcome"})
        /\ Part(<<"Report">>, {"Report"})
        /\ Part(<<"RegistrationExecuted">>, {"RegistrationExecuted"})
    BY <1>1, PartOne
  <1>3. \A y \in {"Compare", "Send", "Outcome", "Report", "RegistrationExecuted"} : y \notin Needing
    BY DEF Needing
  <1> QED BY <1>2, <1>3, PlanSegment, Zenon

LEMMA UploadSegment == Plan(<<"Sign", "StoredChunks", "Upload", "ModuleStill">>, UploadSteps, {})
  <1>1. UploadSteps \subseteq Word /\ \A x, y \in UploadSteps : ~NeverAfter(x, y)
    BY DEF UploadSteps, Word, NeverAfter
  <1>2. \A x \in Needing : x \notin UploadSteps
    BY DEF UploadSteps, Needing
  <1>3. Part(<<"Sign", "StoredChunks", "Upload", "ModuleStill">>, UploadSteps)
    BY <1>1, PartFour, Zenon DEF UploadSteps
  <1> QED BY <1>2, <1>3, PlanSegment, Zenon

LEMMA ProposalSegment ==
  Plan(<<"RegistrationExecuted", "ProposalExecuted", "UpgradeObserved", "Compare">>,
       ProposalSteps, {"UpgradeObserved"})
  <1>1. ProposalSteps \subseteq Word /\ \A x, y \in ProposalSteps : ~NeverAfter(x, y)
    BY DEF ProposalSteps, Word, NeverAfter
  <1>2. \A x \in Needing : x \in ProposalSteps => x \in {"UpgradeObserved"}
    BY DEF ProposalSteps, Needing
  <1>3. Part(<<"RegistrationExecuted", "ProposalExecuted", "UpgradeObserved", "Compare">>,
             ProposalSteps)
    BY <1>1, PartFour, Zenon DEF ProposalSteps
  <1> QED BY <1>2, <1>3, PlanSegment, Zenon

LEMMA VerifyCurrentSegment == Plan(VerifyCurrent, CurrentSteps, {})
  <1>1. CurrentSteps \subseteq Word /\ \A x, y \in CurrentSteps : ~NeverAfter(x, y)
    BY DEF CurrentSteps, Word, NeverAfter
  <1>2. \A x \in Needing : x \notin CurrentSteps
    BY DEF CurrentSteps, Needing
  <1>3. Part(<<"CurrentState", "CurrentCertified", "Registration">>, CurrentSteps)
    BY <1>1, PartThree, Zenon DEF CurrentSteps
  <1>4. VerifyCurrent = <<"CurrentState", "CurrentCertified", "Registration">>
                        \o <<"CurrentState", "CurrentCertified", "Registration">>
    BY DEF VerifyCurrent
  <1>5. Part(VerifyCurrent, CurrentSteps)
    BY <1>1, <1>3, <1>4, PartConcat, Zenon
  <1> QED BY <1>2, <1>5, PlanSegment, Zenon

LEMMA DirectSendPlan == Plan(DirectSend, {"Snapshot"} \cup CurrentSteps \cup {"Compare"}
    \cup UploadSteps \cup {"Compare"} \cup {"Send"}, {})
  <1> DEFINE Q1 == <<"Snapshot">> \o VerifyCurrent
             Q2 == Q1 \o <<"Compare">>
             Q3 == Q2 \o <<"Sign", "StoredChunks", "Upload", "ModuleStill">>
             Q4 == Q3 \o <<"Compare">>
             Q5 == Q4 \o <<"Send">>
  <1>1. Plan(Q1, {"Snapshot"} \cup CurrentSteps, {})
    <2>1. Fits({"Snapshot"}, {"Snapshot"}, CurrentSteps, {}, {})
      BY ONLY DEF CurrentSteps, Fits, NeverAfter, Needed
    <2> QED BY Singles, VerifyCurrentSegment, <2>1, PlanConcat, Zenon
  <1> HIDE DEF Q1
  <1>2. Plan(Q2, {"Snapshot"} \cup CurrentSteps \cup {"Compare"}, {})
    <2>1. Fits({"Snapshot"} \cup CurrentSteps, {}, {"Compare"}, {}, {})
      BY ONLY DEF CurrentSteps, Fits, NeverAfter, Needed
    <2> QED BY <1>1, Singles, <2>1, PlanConcat, Zenon
  <1> HIDE DEF Q2
  <1>3. Plan(Q3, {"Snapshot"} \cup CurrentSteps \cup {"Compare"} \cup UploadSteps, {})
    <2>1. Fits({"Snapshot"} \cup CurrentSteps \cup {"Compare"}, {}, UploadSteps, {}, {})
      BY ONLY DEF CurrentSteps, UploadSteps, Fits, NeverAfter, Needed
    <2> QED BY <1>2, UploadSegment, <2>1, PlanConcat, Zenon
  <1> HIDE DEF Q3
  <1>4. Plan(Q4, {"Snapshot"} \cup CurrentSteps \cup {"Compare"} \cup UploadSteps \cup {"Compare"},
          {})
    <2>1. Fits({"Snapshot"} \cup CurrentSteps \cup {"Compare"} \cup UploadSteps, {}, {"Compare"},
            {}, {})
      BY ONLY DEF CurrentSteps, UploadSteps, Fits, NeverAfter, Needed
    <2> QED BY <1>3, Singles, <2>1, PlanConcat, Zenon
  <1> HIDE DEF Q4
  <1>5. Plan(Q5, {"Snapshot"} \cup CurrentSteps \cup {"Compare"} \cup UploadSteps \cup {"Compare"}
          \cup {"Send"}, {})
    <2>1. Fits({"Snapshot"} \cup CurrentSteps \cup {"Compare"} \cup UploadSteps \cup {"Compare"},
            {}, {"Send"}, {}, {})
      BY ONLY DEF CurrentSteps, UploadSteps, Fits, NeverAfter, Needed
    <2> QED BY <1>4, Singles, <2>1, PlanConcat, Zenon
  <1> QED BY <1>5, Zenon DEF Q1, Q2, Q3, Q4, Q5, DirectSend, Snapshot, Compare

LEMMA DirectOutcomePlan == Plan(DirectOutcome, {"Outcome"} \cup CurrentSteps \cup {"Report"}, {})
  <1> DEFINE Q1 == <<"Outcome">> \o VerifyCurrent
             Q2 == Q1 \o <<"Report">>
  <1>1. Plan(Q1, {"Outcome"} \cup CurrentSteps, {})
    <2>1. Fits({"Outcome"}, {}, CurrentSteps, {}, {})
      BY ONLY DEF CurrentSteps, Fits, NeverAfter, Needed
    <2> QED BY Singles, VerifyCurrentSegment, <2>1, PlanConcat, Zenon
  <1> HIDE DEF Q1
  <1>2. Plan(Q2, {"Outcome"} \cup CurrentSteps \cup {"Report"}, {})
    <2>1. Fits({"Outcome"} \cup CurrentSteps, {}, {"Report"}, {}, {})
      BY ONLY DEF CurrentSteps, Fits, NeverAfter, Needed
    <2> QED BY <1>1, Singles, <2>1, PlanConcat, Zenon
  <1> QED BY <1>2, Zenon DEF Q1, Q2, DirectOutcome

LEMMA SnsUpgradePlan == Plan(SnsUpgradeLive, {"RegistrationExecuted"} \cup CurrentSteps
    \cup {"Snapshot"} \cup ProposalSteps \cup CurrentSteps \cup {"Report"}, {})
  <1> DEFINE Q1 == <<"RegistrationExecuted">> \o VerifyCurrent
             Q2 == Q1 \o <<"Snapshot">>
             Q3 == Q2 \o <<"RegistrationExecuted", "ProposalExecuted", "UpgradeObserved",
               "Compare">>
             Q4 == Q3 \o VerifyCurrent
             Q5 == Q4 \o <<"Report">>
  <1>1. Plan(Q1, {"RegistrationExecuted"} \cup CurrentSteps, {})
    <2>1. Fits({"RegistrationExecuted"}, {}, CurrentSteps, {}, {})
      BY ONLY DEF CurrentSteps, Fits, NeverAfter, Needed
    <2> QED BY Singles, VerifyCurrentSegment, <2>1, PlanConcat, Zenon
  <1> HIDE DEF Q1
  <1>2. Plan(Q2, {"RegistrationExecuted"} \cup CurrentSteps \cup {"Snapshot"}, {"Snapshot"})
    <2>1. Fits({"RegistrationExecuted"} \cup CurrentSteps, {}, {"Snapshot"}, {"Snapshot"},
            {"Snapshot"})
      BY ONLY DEF CurrentSteps, Fits, NeverAfter, Needed
    <2> QED BY <1>1, Singles, <2>1, PlanConcat, Zenon
  <1> HIDE DEF Q2
  <1>3. Plan(Q3, {"RegistrationExecuted"} \cup CurrentSteps \cup {"Snapshot"} \cup ProposalSteps,
          {"Snapshot", "UpgradeObserved"})
    <2>1. Fits({"RegistrationExecuted"} \cup CurrentSteps \cup {"Snapshot"}, {"Snapshot"},
            ProposalSteps, {"UpgradeObserved"}, {"Snapshot", "UpgradeObserved"})
      BY ONLY DEF CurrentSteps, ProposalSteps, Fits, NeverAfter, Needed
    <2> QED BY <1>2, ProposalSegment, <2>1, PlanConcat, Zenon
  <1> HIDE DEF Q3
  <1>4. Plan(Q4, {"RegistrationExecuted"} \cup CurrentSteps \cup {"Snapshot"} \cup ProposalSteps
          \cup CurrentSteps, {})
    <2>1. Fits({"RegistrationExecuted"} \cup CurrentSteps \cup {"Snapshot"} \cup ProposalSteps,
            {"Snapshot", "UpgradeObserved"}, CurrentSteps, {}, {})
      BY ONLY DEF CurrentSteps, ProposalSteps, Fits, NeverAfter, Needed
    <2> QED BY <1>3, VerifyCurrentSegment, <2>1, PlanConcat, Zenon
  <1> HIDE DEF Q4
  <1>5. Plan(Q5, {"RegistrationExecuted"} \cup CurrentSteps \cup {"Snapshot"} \cup ProposalSteps
          \cup CurrentSteps \cup {"Report"}, {})
    <2>1. Fits({"RegistrationExecuted"} \cup CurrentSteps \cup {"Snapshot"} \cup ProposalSteps
            \cup CurrentSteps, {}, {"Report"}, {}, {})
      BY ONLY DEF CurrentSteps, ProposalSteps, Fits, NeverAfter, Needed
    <2> QED BY <1>4, Singles, <2>1, PlanConcat, Zenon
  <1> QED BY <1>5, Zenon DEF Q1, Q2, Q3, Q4, Q5, SnsUpgradeLive, RegistrationLive, Snapshot

----------------------------------------------------------------------------
(* The invariant of the upgrades *)

LEMMA Idling ==
  /\ DOMAIN NoSession = {"kind", "expect", "candidate", "id", "expiry", "before", "todo"}
  /\ NoSession.kind = "none" /\ NoSession.expiry = 0 /\ NoSession.todo = <<>>
  BY DEF NoSession

\* A session that has a step to do is not over, and reported nothing yet.
LEMMA Running ==
  ASSUME UpgradeInv, session.todo # <<>>
  PROVE  /\ session # NoSession /\ session.kind \in {"direct", "sns"} /\ report = None
         /\ Advanced(session.todo, Tail(session.todo))
  <1>1. session # NoSession
    BY Idling
  <1>2. session.kind \in {"direct", "sns"} /\ report = None
    BY <1>1 DEF UpgradeInv, SessionFields
  <1>3. WellPlanned(session.todo)
    BY DEF UpgradeInv, SessionPlan
  <1> QED BY <1>1, <1>2, <1>3, TailAdvanced

\* A command that is over, or that there never was.
LEMMA Over ==
  ASSUME session' = NoSession, report' = None
  PROVE  SessionPlan' /\ SnsSession' /\ BeforeSend' /\ Sent' /\ Seen' /\ Reported'
  <1>1. session'.kind = "none" /\ session'.todo = <<>>
    BY Idling
  <1>2. DOMAIN report' = {}
    BY DEF None
  <1>3. WellPlanned(session'.todo)
    BY <1>1, NothingLeft
  <1> QED BY <1>1, <1>2, <1>3 DEF SessionPlan, SnsSession, BeforeSend, Sent, Seen, Reported

LEMMA NoReport ==
  ASSUME report' = None PROVE Reported'
  <1>1. DOMAIN report' = {}
    BY DEF None
  <1> QED BY <1>1, Zenon DEF Reported

\* What a session's step leaves alone.
LEMMA EnvSame ==
  ASSUME UpgradeEnv, UNCHANGED <<envVars, observation, sns, rootRan>>
  PROVE  UpgradeEnv'
  BY Zenon DEF UpgradeEnv, envVars, Registered

LEMMA RequestsSame ==
  ASSUME RequestsOk, UNCHANGED <<now, installer>>
  PROVE  RequestsOk'
  BY Zenon DEF RequestsOk, Patient

\* A step that takes the first step off the session, and may set other fields.
LEMMA SessionGoesOn ==
  ASSUME UpgradeInv, session.todo # <<>>, session'.todo = Tail(session.todo),
         session'.kind = session.kind, report' = report
  PROVE  /\ Advanced(session.todo, session'.todo)
         /\ SessionPlan' /\ Reported'
  <1>1. Advanced(session.todo, session'.todo) /\ report' = None
    BY Running
  <1>2. WellPlanned(session'.todo)
    BY <1>1, Zenon DEF Advanced
  <1>3. ASSUME session'.kind = "direct", "Snapshot" \in StepsOf(session'.todo)
        PROVE  "Send" \in StepsOf(session'.todo)
    <2>1. "Snapshot" \in StepsOf(session.todo) /\ ~NeverAfter(session.todo[1], "Snapshot")
      BY <1>1, <1>3, Zenon DEF Advanced
    <2>2. session.todo[1] # "Send"
      BY <2>1 DEF NeverAfter
    <2>3. "Send" \in StepsOf(session.todo)
      BY <1>3, <2>1, Zenon DEF UpgradeInv, SessionPlan, Left
    <2> QED BY <1>1, <2>2, <2>3, Zenon DEF Advanced
  <1>4. ASSUME session'.kind = "sns"
        PROVE  /\ "Send" \notin StepsOf(session'.todo) /\ "Outcome" \notin StepsOf(session'.todo)
               /\ "Sign" \notin StepsOf(session'.todo)
    BY <1>1, <1>4, Zenon DEF Advanced, UpgradeInv, SessionPlan, Left
  <1>5. SessionPlan'
    BY <1>2, <1>3, <1>4, Zenon DEF SessionPlan, Left
  <1> QED BY <1>1, <1>5, NoReport, Zenon

LEMMA ReadsKeeps ==
  ASSUME UpgradeInv, Reads PROVE UpgradeInv'
  <1>1. /\ session.todo # <<>> /\ Finds(session.todo[1]) /\ session' = Rest(session)
        /\ UNCHANGED <<now, controllers, module, observation, installer, sns, rootRan, report>>
    BY DEF Reads, sessionEnv, envVars
  <1>2. /\ session'.todo = Tail(session.todo) /\ session'.kind = session.kind
        /\ session'.expect = session.expect /\ session'.candidate = session.candidate
        /\ session'.id = session.id /\ session'.expiry = session.expiry
        /\ session'.before = session.before
        /\ session' = [kind |-> session'.kind, expect |-> session'.expect,
                candidate |-> session'.candidate, id |-> session'.id,
                expiry |-> session'.expiry, before |-> session'.before, todo |-> session'.todo]
    BY <1>1, Zenon DEF Rest, UpgradeInv, SessionFields
  <1>3. Advanced(session.todo, session'.todo) /\ SessionPlan' /\ Reported'
    BY <1>1, <1>2, SessionGoesOn, Zenon
  <1>4. session # NoSession /\ session.kind \in {"direct", "sns"} /\ report = None
    BY <1>1, Running, Zenon
  <1>5. UpgradeEnv' /\ RequestsOk'
    BY <1>1, EnvSame, RequestsSame, Zenon DEF UpgradeInv, envVars
  <1>6. SessionFields'
    <2>1. session.expiry \in Nat /\ session.expiry <= now + IngressLife
      BY Zenon DEF UpgradeInv, SessionFields
    <2> QED BY <1>1, <1>2, <1>4, <2>1 DEF SessionFields
  <1>7. \A x : x \in StepsOf(session'.todo) => Left(x)
    BY <1>3, Zenon DEF Advanced, Left
  <1>8. \A x : Left(x) => x = session.todo[1] \/ x \in StepsOf(session'.todo)
    BY <1>3, Zenon DEF Advanced, Left
  <1>9. SnsSession'
    <2> SUFFICES ASSUME session.kind = "sns"
                 PROVE  SnsSession'
      BY <1>2 DEF SnsSession
    <2>1. /\ session.expect \in Modules /\ session.id \in 1..Len(sns.proposals)
          /\ ~Left("UpgradeObserved") =>
               /\ observation # None /\ observation[1].by = "root"
               /\ sns.proposals[session.id].at > 0
               /\ observation[1].at >= sns.proposals[session.id].at
          /\ ~Left("CurrentCertified") =>
               /\ sns.proposals[session.id].at > 0
               /\ rootRan[session.expect] >= sns.proposals[session.id].at
      BY Zenon DEF UpgradeInv, SnsSession
    <2>2. ASSUME "UpgradeObserved" \notin StepsOf(session'.todo)
          PROVE  /\ observation # None /\ observation[1].by = "root"
                 /\ sns.proposals[session.id].at > 0
                 /\ observation[1].at >= sns.proposals[session.id].at
      <3>1. CASE session.todo[1] = "UpgradeObserved"
        BY <1>1, <3>1 DEF Finds, UpgradeObserved, CompletionAllowed
      <3>2. CASE session.todo[1] # "UpgradeObserved"
        BY <1>8, <2>1, <2>2, <3>2, Zenon
      <3> QED BY <3>1, <3>2, Zenon
    <2>3. ASSUME "CurrentCertified" \notin StepsOf(session'.todo)
          PROVE  /\ sns.proposals[session.id].at > 0
                 /\ rootRan[session.expect] >= sns.proposals[session.id].at
      <3>1. CASE session.todo[1] = "CurrentCertified"
        <4>1. module = session.expect
          BY <1>1, <3>1 DEF Finds, CurrentCertifiedOk
        <4>2. ~Left("UpgradeObserved")
          <5>1. "UpgradeObserved" \in Needing /\ Needed("UpgradeObserved") = "CurrentCertified"
            BY DEF Needing, Needed
          <5> QED BY <1>3, <2>3, <5>1, Zenon DEF Advanced, Left
        <4>3. observation[1].at = rootRan[module]
          BY <2>1, <4>2, Zenon DEF UpgradeInv, UpgradeEnv
        <4> QED BY <2>1, <4>1, <4>2, <4>3
      <3>2. CASE session.todo[1] # "CurrentCertified"
        BY <1>8, <2>1, <2>3, <3>2, Zenon
      <3> QED BY <3>1, <3>2, Zenon
    <2> QED BY <1>1, <1>2, <2>1, <2>2, <2>3, Zenon DEF SnsSession, Left
  <1>10. BeforeSend'
    <2> SUFFICES ASSUME Patient, session.kind = "direct", "Send" \in StepsOf(session'.todo)
                 PROVE  BeforeSend'
      BY <1>1, <1>2, Zenon DEF BeforeSend, Left, Patient
    <2>1. /\ installer.live = {} /\ installer.ran = None /\ session.expect # session.candidate
          /\ ~Left("Snapshot") /\ controllers = Sole => session.before[1][1] = Sole
          /\ ~Left("CurrentCertified") => session.before[1][1] = Sole
          /\ ~Left("ModuleStill") /\ controllers = Sole => module = session.expect
      BY <1>7, Zenon DEF UpgradeInv, BeforeSend
    <2>2. session.todo[1] # "Snapshot"
      BY <1>1 DEF Finds
    <2>3. ASSUME "CurrentCertified" \notin StepsOf(session'.todo)
          PROVE  session.before[1][1] = Sole
      <3>1. CASE session.todo[1] = "CurrentCertified"
        <4>1. controllers = Sole
          BY <1>1, <3>1 DEF Finds, CurrentCertifiedOk, ExpectedControllers, Sole
        <4>2. ~Left("Snapshot")
          <5>1. "Snapshot" \in Needing /\ Needed("Snapshot") = "CurrentCertified"
            BY DEF Needing, Needed
          <5> QED BY <1>3, <2>3, <5>1, Zenon DEF Advanced, Left
        <4> QED BY <2>1, <4>1, <4>2, Zenon
      <3>2. CASE session.todo[1] # "CurrentCertified"
        BY <1>8, <2>1, <2>3, <3>2, Zenon
      <3> QED BY <3>1, <3>2, Zenon
    <2>4. ASSUME "ModuleStill" \notin StepsOf(session'.todo), controllers = Sole
          PROVE  module = session.expect
      <3>1. CASE session.todo[1] = "ModuleStill"
        BY <1>1, <3>1 DEF Finds
      <3>2. CASE session.todo[1] # "ModuleStill"
        BY <1>8, <2>1, <2>4, <3>2, Zenon
      <3> QED BY <3>1, <3>2, Zenon
    <2> QED BY <1>1, <1>2, <1>8, <2>1, <2>2, <2>3, <2>4, Zenon DEF BeforeSend, Left
  <1>11. Sent'
    BY <1>1, <1>2, <1>7, Zenon DEF Sent, UpgradeInv, Left, Patient
  <1>12. Seen'
    <2>1. session.todo[1] # "Send" /\ session.todo[1] # "Outcome"
      BY <1>1 DEF Finds
    <2> QED BY <1>1, <1>2, <1>8, <2>1, Zenon DEF Seen, UpgradeInv, Left, Patient
  <1> QED BY <1>3, <1>5, <1>6, <1>9, <1>10, <1>11, <1>12, Zenon DEF UpgradeInv

\* The steps of a session that only take a note, or store chunks.
LEMMA SignUploadKeep ==
  ASSUME UpgradeInv, Sign \/ Upload PROVE UpgradeInv'
  <1>1. /\ session.todo # <<>> /\ session.todo[1] \in {"Sign", "Upload"}
        /\ \/ session' = Rest(session)
           \/ session' = Rest([session EXCEPT !.expiry = now + IngressLife])
        /\ UNCHANGED <<now, controllers, module, observation, installer, sns, rootRan, report>>
    BY DEF Sign, Upload, At, sessionEnv, envVars
  <1>2. /\ session'.todo = Tail(session.todo) /\ session'.kind = session.kind
        /\ session'.expect = session.expect /\ session'.candidate = session.candidate
        /\ session'.id = session.id /\ session'.expiry \in {session.expiry, now + IngressLife}
        /\ session'.before = session.before
        /\ session' = [kind |-> session'.kind, expect |-> session'.expect,
                candidate |-> session'.candidate, id |-> session'.id,
                expiry |-> session'.expiry, before |-> session'.before, todo |-> session'.todo]
    <2>1. session = [kind |-> session.kind, expect |-> session.expect,
                candidate |-> session.candidate, id |-> session.id,
                expiry |-> session.expiry, before |-> session.before, todo |-> session.todo]
      BY Zenon DEF UpgradeInv, SessionFields
    <2> QED BY ONLY <1>1, <2>1, Zenon DEF Rest
  <1>3. Advanced(session.todo, session'.todo) /\ SessionPlan' /\ Reported'
    BY <1>1, <1>2, SessionGoesOn, Zenon
  <1>4. session # NoSession /\ session.kind \in {"direct", "sns"} /\ report = None
    BY <1>1, Running, Zenon
  <1>5. UpgradeEnv' /\ RequestsOk'
    BY <1>1, EnvSame, RequestsSame, Zenon DEF UpgradeInv, envVars
  <1>6. SessionFields'
    <2>1. session.expiry \in Nat /\ session.expiry <= now + IngressLife /\ now \in Nat
      BY Zenon DEF UpgradeInv, SessionFields, UpgradeEnv
    <2>2. session'.expiry \in Nat /\ session'.expiry <= now + IngressLife
      BY <1>2, <2>1, UpgradeAssumption
    <2> QED BY <1>1, <1>2, <1>4, <2>2 DEF SessionFields
  <1>7. \A x : x \in StepsOf(session'.todo) => Left(x)
    BY <1>3, Zenon DEF Advanced, Left
  <1>8. \A x : Left(x) /\ x \notin {"Sign", "Upload"} => x \in StepsOf(session'.todo)
    BY <1>1, <1>3, Zenon DEF Advanced, Left
  <1>9. \A x \in {"UpgradeObserved", "CurrentCertified", "Send", "Snapshot", "ModuleStill",
          "Outcome"} :
          Left(x) <=> x \in StepsOf(session'.todo)
    <2>1. \A x \in {"UpgradeObserved", "CurrentCertified", "Send", "Snapshot", "ModuleStill",
            "Outcome"} :
            x \notin {"Sign", "Upload"}
      OBVIOUS
    <2> QED BY <1>7, <1>8, <2>1, Zenon
  <1>10. SnsSession'
    BY <1>1, <1>2, <1>9, Zenon DEF SnsSession, UpgradeInv, Left
  <1>11. BeforeSend'
    BY <1>1, <1>2, <1>9, Zenon DEF BeforeSend, UpgradeInv, Left, Patient
  <1>12. Sent' /\ Seen'
    BY <1>1, <1>2, <1>9, Zenon DEF Sent, Seen, UpgradeInv, Left, Patient
  <1> QED BY <1>3, <1>5, <1>6, <1>10, <1>11, <1>12, Zenon DEF UpgradeInv

\* What the last step of a session, or one that sends, finds.
LEMMA Last ==
  ASSUME UpgradeInv, session.todo # <<>>, session.todo[1] \in {"Send", "Report"}, NEW x,
         x # session.todo[1]
  PROVE  ~Left(x)
  <1>1. NeverAfter(session.todo[1], x)
    BY DEF NeverAfter
  <1> QED BY <1>1, Running, Zenon DEF Advanced, Left

LEMMA KeepSnapshotKeeps ==
  ASSUME UpgradeInv, KeepSnapshot PROVE UpgradeInv'
  <1>1. /\ session.todo # <<>> /\ session.todo[1] = "Snapshot"
        /\ session' = Rest([session EXCEPT !.before = <<CertifiedView>>])
        /\ UNCHANGED <<now, controllers, module, observation, installer, sns, rootRan, report>>
    BY DEF KeepSnapshot, At, sessionEnv, envVars
  <1>2. /\ session'.todo = Tail(session.todo) /\ session'.kind = session.kind
        /\ session'.expect = session.expect /\ session'.candidate = session.candidate
        /\ session'.id = session.id /\ session'.expiry = session.expiry
        /\ session'.before = <<CertifiedView>>
        /\ session' = [kind |-> session'.kind, expect |-> session'.expect,
                candidate |-> session'.candidate, id |-> session'.id,
                expiry |-> session'.expiry, before |-> session'.before, todo |-> session'.todo]
    <2>1. session = [kind |-> session.kind, expect |-> session.expect,
                candidate |-> session.candidate, id |-> session.id,
                expiry |-> session.expiry, before |-> session.before, todo |-> session.todo]
      BY Zenon DEF UpgradeInv, SessionFields
    <2> QED BY ONLY <1>1, <2>1, Zenon DEF Rest
  <1>3. Advanced(session.todo, session'.todo) /\ SessionPlan' /\ Reported'
    BY <1>1, <1>2, SessionGoesOn, Zenon
  <1>4. session # NoSession /\ session.kind \in {"direct", "sns"} /\ report = None
    BY <1>1, Running, Zenon
  <1>5. UpgradeEnv' /\ RequestsOk'
    BY <1>1, EnvSame, RequestsSame, Zenon DEF UpgradeInv, envVars
  <1>6. SessionFields'
    <2>1. session.expiry \in Nat /\ session.expiry <= now + IngressLife
      BY Zenon DEF UpgradeInv, SessionFields
    <2> QED BY <1>1, <1>2, <1>4, <2>1 DEF SessionFields
  <1>7. \A x : x \in StepsOf(session'.todo) => Left(x)
    BY <1>3, Zenon DEF Advanced, Left
  <1>8. \A x : Left(x) /\ x # "Snapshot" => x \in StepsOf(session'.todo)
    BY <1>1, <1>3, Zenon DEF Advanced, Left
  <1>9. Left("Snapshot") /\ "CurrentCertified" \in StepsOf(session'.todo)
    <2>1. "Snapshot" \in Needing /\ Needed("Snapshot") = "CurrentCertified"
      BY DEF Needing, Needed
    <2> QED BY <1>1, <1>3, <2>1, Zenon DEF Advanced, Left
  <1>10. "Outcome" \notin StepsOf(session'.todo)
    <2>1. NeverAfter("Snapshot", "Outcome")
      BY DEF NeverAfter
    <2> QED BY <1>1, <1>3, <2>1, Zenon DEF Advanced
  <1>11. SnsSession'
    <2>1. Left("UpgradeObserved") => "UpgradeObserved" \in StepsOf(session'.todo)
      BY <1>8
    <2> QED BY <1>1, <1>2, <1>9, <2>1, Zenon DEF SnsSession, UpgradeInv, Left
  <1>12. BeforeSend'
    <2>1. Left("ModuleStill") => "ModuleStill" \in StepsOf(session'.todo)
      BY <1>8
    <2>2. session'.before[1][1] = controllers
      BY <1>2 DEF CertifiedView
    <2> QED BY <1>1, <1>2, <1>7, <1>9, <2>1, <2>2, Zenon DEF BeforeSend, UpgradeInv, Left,
                                                             Patient
  <1>13. Sent'
    BY <1>10, Zenon DEF Sent, Left
  <1>14. Seen'
    <2>1. session.kind = "direct" => "Send" \in StepsOf(session'.todo)
      <3>1. "Send" # "Snapshot"
        OBVIOUS
      <3> QED BY <1>8, <1>9, <3>1, Zenon DEF UpgradeInv, SessionPlan
    <2> QED BY <1>2, <2>1, Zenon DEF Seen, Left
  <1> QED BY <1>3, <1>5, <1>6, <1>11, <1>12, <1>13, <1>14, Zenon DEF UpgradeInv

LEMMA StopsKeeps ==
  ASSUME UpgradeInv, Stops PROVE UpgradeInv'
  <1>1. /\ session # NoSession /\ session' = NoSession
        /\ UNCHANGED <<now, controllers, module, observation, installer, sns, rootRan, report>>
    BY DEF Stops, sessionEnv, envVars
  <1>2. report' = None
    BY <1>1, Zenon DEF UpgradeInv, SessionFields
  <1>3. SessionPlan' /\ SnsSession' /\ BeforeSend' /\ Sent' /\ Seen' /\ Reported'
    BY <1>1, <1>2, Over, Zenon
  <1>4. UpgradeEnv' /\ RequestsOk'
    BY <1>1, EnvSame, RequestsSame, Zenon DEF UpgradeInv, envVars
  <1>5. SessionFields'
    BY <1>1, <1>2, UpgradeAssumption DEF SessionFields, NoSession, UpgradeInv, UpgradeEnv
  <1> QED BY <1>3, <1>4, <1>5, Zenon DEF UpgradeInv

LEMMA ReportKeeps ==
  ASSUME UpgradeInv, Report PROVE UpgradeInv'
  <1>1. /\ session.todo # <<>> /\ session.todo[1] = "Report" /\ session' = NoSession
        /\ report' = <<[kind |-> session.kind, module |-> session.expect,
                        over |-> session.candidate, id |-> session.id]>>
        /\ installer' \in {installer, [installer EXCEPT !.waitUntil = 0]}
        /\ session.kind # "direct" => installer' = installer
        /\ UNCHANGED <<now, controllers, module, observation, sns, rootRan>>
    BY DEF Report, At, envVars
  <1>2. session'.kind = "none" /\ session'.todo = <<>>
    BY <1>1, Idling
  <1>3. UpgradeEnv'
    BY <1>1, EnvSame, Zenon DEF UpgradeInv, envVars
  <1>4. SessionFields'
    BY <1>1, UpgradeAssumption DEF SessionFields, NoSession, UpgradeInv, UpgradeEnv
  <1>5. SessionPlan'
    <2>1. WellPlanned(session'.todo)
      BY <1>2, NothingLeft
    <2> QED BY <1>2, <2>1 DEF SessionPlan
  <1>6. SnsSession' /\ BeforeSend' /\ Sent' /\ Seen'
    BY <1>2 DEF SnsSession, BeforeSend, Sent, Seen
  <1>7. ~Left("CurrentCertified") /\ ~Left("Send") /\ ~Left("Outcome")
    BY <1>1, Last
  <1>8. session.kind = "sns" =>
          /\ session.expect \in Modules /\ session.id \in 1..Len(sns.proposals)
          /\ sns.proposals[session.id].at > 0
          /\ rootRan[session.expect] >= sns.proposals[session.id].at
    BY <1>7, Zenon DEF UpgradeInv, SnsSession
  <1>9. Patient /\ session.kind = "direct" =>
          /\ installer.ran = <<[id |-> session.id, over |-> session.candidate]>>
          /\ installer.live = {}
    BY <1>7, Zenon DEF UpgradeInv, Seen
  <1>11. /\ installer'.live = installer.live /\ installer'.ran = installer.ran
         /\ installer'.waitUntil \in {0, installer.waitUntil}
         /\ installer'.early = installer.early
         /\ installer' = [sends |-> installer'.sends, live |-> installer'.live,
                         ran |-> installer'.ran, waitUntil |-> installer'.waitUntil,
                         early |-> installer'.early]
    <2>1. installer = [sends |-> installer.sends, live |-> installer.live, ran |-> installer.ran,
                       waitUntil |-> installer.waitUntil, early |-> installer.early]
      BY Zenon DEF UpgradeInv, RequestsOk
    <2>2. CASE installer' = installer
      BY ONLY <2>1, <2>2
    <2>3. CASE installer' = [installer EXCEPT !.waitUntil = 0]
      BY ONLY <2>1, <2>3
    <2> QED BY <1>1, <2>2, <2>3
  <1>12. RequestsOk'
    <2>1. CASE session.kind = "direct"
      <3>1. /\ installer.waitUntil \in Nat /\ installer.early \in BOOLEAN
            /\ \A r \in installer.live : r.expiry \in Nat /\ now <= r.expiry
        BY Zenon DEF UpgradeInv, RequestsOk
      <3>2. installer'.waitUntil \in Nat
        BY <1>11, <3>1
      <3>3. Patient' => installer'.live = {}
        BY <1>9, <1>11, <2>1, Zenon DEF Patient
      <3> QED BY <1>1, <1>11, <3>1, <3>2, <3>3, Zenon DEF RequestsOk
    <2>2. CASE session.kind # "direct"
      BY <1>1, <2>2, RequestsSame, Zenon DEF UpgradeInv
    <2> QED BY <2>1, <2>2, Zenon
  <1>10. Reported'
    <2>1. /\ DOMAIN report' = {1} /\ report'[1].kind = session.kind
          /\ report'[1].module = session.expect /\ report'[1].over = session.candidate
          /\ report'[1].id = session.id
      BY <1>1
    <2> QED BY <1>1, <1>8, <1>9, <1>11, <2>1, Zenon DEF Reported, Patient
  <1> QED BY <1>3, <1>4, <1>5, <1>6, <1>10, <1>12, Zenon DEF UpgradeInv

\* The request sent is the only one that can run.
LEMMA SendKeeps ==
  ASSUME UpgradeInv, Send PROVE UpgradeInv'
  <1> DEFINE req == [id |-> installer.sends + 1, module |-> session.candidate,
                     expiry |-> session.expiry]
  <1>1. /\ session.todo # <<>> /\ session.todo[1] = "Send" /\ session.expiry > now
        /\ installer' = [installer EXCEPT !.sends = installer.sends + 1,
                             !.waitUntil = now + RetryWait, !.live = @ \cup {req}]
        /\ session' = [session EXCEPT !.id = installer.sends + 1, !.expiry = 0,
                                      !.todo = DirectOutcome]
        /\ UNCHANGED <<now, controllers, module, observation, sns, rootRan, report>>
    BY DEF Send, At, HasTime, envVars
  <1>2. /\ session'.todo = DirectOutcome /\ session'.kind = session.kind
        /\ session'.expect = session.expect /\ session'.candidate = session.candidate
        /\ session'.id = installer.sends + 1 /\ session'.expiry = 0
        /\ session'.before = session.before
        /\ session' = [kind |-> session'.kind, expect |-> session'.expect,
                candidate |-> session'.candidate, id |-> session'.id,
                expiry |-> session'.expiry, before |-> session'.before, todo |-> session'.todo]
    <2>1. session = [kind |-> session.kind, expect |-> session.expect,
                candidate |-> session.candidate, id |-> session.id,
                expiry |-> session.expiry, before |-> session.before, todo |-> session.todo]
      BY Zenon DEF UpgradeInv, SessionFields
    <2>2. session' = [session EXCEPT !.id = installer.sends + 1, !.expiry = 0,
                                      !.todo = DirectOutcome]
      BY <1>1
    <2> QED BY ONLY <2>1, <2>2, Zenon
  <1>3. /\ installer'.sends = installer.sends + 1 /\ installer'.waitUntil = now + RetryWait
        /\ installer'.early = installer.early
        /\ installer'.ran = installer.ran /\ installer'.live = installer.live \cup {req}
        /\ installer' = [sends |-> installer'.sends, live |-> installer'.live,
                         ran |-> installer'.ran, waitUntil |-> installer'.waitUntil,
                         early |-> installer'.early]
    <2>1. installer = [sends |-> installer.sends, live |-> installer.live, ran |-> installer.ran,
                       waitUntil |-> installer.waitUntil, early |-> installer.early]
      BY Zenon DEF UpgradeInv, RequestsOk
    <2>2. PICK r : r = req
      BY Zenon
    <2>3. installer' = [installer EXCEPT !.sends = installer.sends + 1,
                             !.waitUntil = now + RetryWait, !.live = @ \cup {r}]
      BY <1>1, <2>2, Zenon
    <2>4. /\ installer'.sends = installer.sends + 1 /\ installer'.waitUntil = now + RetryWait
          /\ installer'.early = installer.early
          /\ installer'.ran = installer.ran /\ installer'.live = installer.live \cup {r}
          /\ installer' = [sends |-> installer'.sends, live |-> installer'.live,
                           ran |-> installer'.ran, waitUntil |-> installer'.waitUntil,
                         early |-> installer'.early]
      BY ONLY <2>1, <2>3, Zenon
    <2> QED BY <2>2, <2>4, Zenon
  <1>4. req.id = installer.sends + 1 /\ req.module = session.candidate
          /\ req.expiry = session.expiry
    OBVIOUS
  <1> HIDE DEF req
  <1>5. session # NoSession /\ session.kind \in {"direct", "sns"} /\ report = None
    BY <1>1, Running, Zenon
  <1>6. Left("Send")
    BY <1>1, Running, Zenon DEF Advanced, Left
  <1>7. session.kind = "direct"
    BY <1>5, <1>6 DEF UpgradeInv, SessionPlan
  <1>8. ~Left("Snapshot") /\ ~Left("CurrentCertified") /\ ~Left("ModuleStill")
    BY <1>1, Last
  <1>9. Patient =>
          /\ installer.live = {} /\ installer.ran = None /\ session.expect # session.candidate
          /\ session.before[1][1] = Sole /\ (controllers = Sole => module = session.expect)
    BY <1>6, <1>7, <1>8, Zenon DEF UpgradeInv, BeforeSend
  <1>10. UpgradeEnv'
    BY <1>1, EnvSame, Zenon DEF UpgradeInv, envVars
  <1>11. (Patient' => Patient) /\ (Patient => installer'.live = {req})
    BY <1>3, <1>9 DEF Patient
  <1>12. RequestsOk'
    <2>1. /\ now \in Nat /\ session.expiry \in Nat /\ session.expiry <= now + IngressLife
      BY Zenon DEF UpgradeInv, UpgradeEnv, SessionFields
    <2>2. now + RetryWait \in Nat /\ now <= session.expiry /\ session.expiry < now + RetryWait
      BY <1>1, <2>1, UpgradeAssumption
    <2>3. /\ installer.early \in BOOLEAN
          /\ \A r \in installer.live : r.expiry \in Nat /\ now <= r.expiry
      BY Zenon DEF UpgradeInv, RequestsOk
    <2>4. \A r \in installer'.live : r.expiry \in Nat /\ now' <= r.expiry
      BY <1>1, <1>3, <1>4, <2>1, <2>2, <2>3, Zenon
    <2>5. Patient' => \A r \in installer'.live : r.expiry < installer'.waitUntil
      BY <1>3, <1>4, <1>11, <2>2, Zenon
    <2> QED BY <1>3, <2>2, <2>3, <2>4, <2>5, Zenon DEF RequestsOk
  <1>13. WellPlanned(session'.todo) /\ StepsOf(session'.todo) = {"Outcome"} \cup CurrentSteps
           \cup {"Report"}
    BY <1>2, DirectOutcomePlan, PlanWhole, Zenon
  <1>14. "Snapshot" \notin StepsOf(session'.todo) /\ "Send" \notin StepsOf(session'.todo)
         /\ "Outcome" \in StepsOf(session'.todo)
    BY <1>13 DEF CurrentSteps
  <1>15. SessionFields'
    <2>1. now \in Nat
      BY Zenon DEF UpgradeInv, UpgradeEnv
    <2> QED BY <1>1, <1>2, <1>5, <2>1, UpgradeAssumption DEF SessionFields
  <1>16. SessionPlan' /\ SnsSession'
    BY <1>2, <1>7, <1>13, <1>14 DEF SessionPlan, SnsSession, Left
  <1>17. BeforeSend' /\ Seen'
    BY <1>14, Zenon DEF BeforeSend, Seen, Left
  <1>18. Sent'
    <2>1. Patient' =>
          /\ \A r \in installer'.live : r.id = session'.id /\ r.module = session'.candidate
          /\ \A r, s \in installer'.live : r = s
      BY <1>2, <1>4, <1>11, Zenon
    <2> QED BY <1>1, <1>2, <1>3, <1>9, <1>11, <2>1, Zenon DEF Sent
  <1>19. Reported'
    BY <1>1, <1>5, NoReport, Zenon
  <1> QED BY <1>10, <1>12, <1>15, <1>16, <1>17, <1>18, <1>19, Zenon DEF UpgradeInv

\* The candidate is only ever installed by the request of this session.
LEMMA OutcomeKeeps ==
  ASSUME UpgradeInv, Outcome PROVE UpgradeInv'
  <1>1. /\ session.todo # <<>> /\ session.todo[1] = "Outcome"
        /\ module = session.candidate /\ controllers = session.before[1][1]
        /\ session' = Rest([session EXCEPT !.expect = session.candidate, !.before = None,
                                           !.candidate = session.expect])
        /\ UNCHANGED <<now, controllers, module, observation, installer, sns, rootRan, report>>
    BY DEF Outcome, CandidatePreserved, At, sessionEnv, envVars
  <1>2. /\ session'.todo = Tail(session.todo) /\ session'.kind = session.kind
        /\ session'.candidate = session.expect
        /\ session'.id = session.id /\ session'.expiry = session.expiry
        /\ session' = [kind |-> session'.kind, expect |-> session'.expect,
                candidate |-> session'.candidate, id |-> session'.id,
                expiry |-> session'.expiry, before |-> session'.before, todo |-> session'.todo]
    <2>1. session = [kind |-> session.kind, expect |-> session.expect,
                candidate |-> session.candidate, id |-> session.id,
                expiry |-> session.expiry, before |-> session.before, todo |-> session.todo]
      BY Zenon DEF UpgradeInv, SessionFields
    <2> QED BY ONLY <1>1, <2>1, Zenon DEF Rest
  <1>3. Advanced(session.todo, session'.todo) /\ SessionPlan' /\ Reported'
    BY <1>1, <1>2, SessionGoesOn, Zenon
  <1>4. session # NoSession /\ session.kind \in {"direct", "sns"} /\ report = None
    BY <1>1, Running, Zenon
  <1>5. UpgradeEnv' /\ RequestsOk'
    BY <1>1, EnvSame, RequestsSame, Zenon DEF UpgradeInv, envVars
  <1>6. SessionFields'
    <2>1. session.expiry \in Nat /\ session.expiry <= now + IngressLife
      BY Zenon DEF UpgradeInv, SessionFields
    <2> QED BY <1>1, <1>2, <1>4, <2>1 DEF SessionFields
  <1>7. Left("Outcome")
    BY <1>1, <1>3, Zenon DEF Advanced, Left
  <1>8. session.kind = "direct"
    BY <1>4, <1>7 DEF UpgradeInv, SessionPlan
  <1>9. "Send" \notin StepsOf(session'.todo) /\ "Outcome" \notin StepsOf(session'.todo)
    <2>1. NeverAfter("Outcome", "Send") /\ NeverAfter("Outcome", "Outcome")
      BY DEF NeverAfter
    <2> QED BY <1>1, <1>3, <2>1, Zenon DEF Advanced
  <1>10. Patient => /\ installer.ran = <<[id |-> session.id, over |-> session.expect]>>
                    /\ installer.live = {}
    BY <1>1, <1>7, <1>8, Zenon DEF UpgradeInv, Sent
  <1>11. SnsSession' /\ BeforeSend' /\ Sent' /\ Seen'
    <2>1. session'.kind # "sns"
      BY <1>2, <1>8
    <2>2. Seen'
      BY <1>1, <1>2, <1>10, Zenon DEF Seen, Patient
    <2> QED BY <1>9, <2>1, <2>2, Zenon DEF SnsSession, BeforeSend, Sent, Left
  <1> QED BY <1>3, <1>5, <1>6, <1>11, Zenon DEF UpgradeInv

LEMMA ProposalType ==
  ASSUME UpgradeEnv, NEW n \in 1..Len(sns.proposals)
  PROVE  /\ sns.proposals[n].at \in Nat /\ sns.proposals[n].module \in Modules
         /\ Len(sns.proposals) \in Nat /\ sns.proposals # <<>>
  <1>1. sns.proposals \in Seq([module : Modules, runs : BOOLEAN, at : Nat])
    BY Zenon DEF UpgradeEnv
  <1>2. PICK P : P = [module : Modules, runs : BOOLEAN, at : Nat]
    BY Zenon
  <1>3. PICK q : q = sns.proposals
    BY Zenon
  <1>4. q \in Seq(P) /\ n \in 1..Len(q)
    BY <1>1, <1>2, <1>3, Zenon
  <1>5. q[n] \in P /\ Len(q) \in Nat /\ q # <<>>
    BY ONLY <1>4
  <1>6. sns.proposals[n] \in P /\ Len(sns.proposals) \in Nat /\ sns.proposals # <<>>
    BY <1>3, <1>5, Zenon
  <1> QED BY ONLY <1>2, <1>6

\* Time passes.
LEMMA TickKeeps ==
  ASSUME UpgradeInv, Tick, RequestsExpire PROVE UpgradeInv'
  <1>1. /\ now' = now + 1 /\ now \in Nat /\ now > 0
        /\ UNCHANGED <<controllers, module, observation, sns, rootRan, session, report>>
    BY DEF Tick, RequestsExpire, UpgradeInv, UpgradeEnv
  <1>2. /\ installer'.live = {r \in installer.live : now' <= r.expiry}
        /\ installer'.ran = installer.ran /\ installer'.early = installer.early
        /\ installer'.waitUntil = IF now' >= installer.waitUntil THEN 0 ELSE installer.waitUntil
        /\ installer' = [sends |-> installer'.sends, live |-> installer'.live,
                         ran |-> installer'.ran, waitUntil |-> installer'.waitUntil,
                         early |-> installer'.early]
    <2>1. installer = [sends |-> installer.sends, live |-> installer.live, ran |-> installer.ran,
                       waitUntil |-> installer.waitUntil, early |-> installer.early]
      BY Zenon DEF UpgradeInv, RequestsOk
    <2>2. PICK L, w : L = {r \in installer.live : now' <= r.expiry}
                      /\ w = IF now' >= installer.waitUntil THEN 0 ELSE installer.waitUntil
      BY Zenon
    <2>3. installer' = [installer EXCEPT !.live = L, !.waitUntil = w]
      BY <2>2 DEF RequestsExpire
    <2>4. /\ installer'.live = L /\ installer'.ran = installer.ran /\ installer'.waitUntil = w
          /\ installer'.early = installer.early
          /\ installer' = [sends |-> installer'.sends, live |-> installer'.live,
                           ran |-> installer'.ran, waitUntil |-> installer'.waitUntil,
                         early |-> installer'.early]
      BY ONLY <2>1, <2>3, Zenon
    <2> QED BY <2>2, <2>4, Zenon
  <1>3. UpgradeEnv'
    <2>1. now' \in Nat /\ now' > 0 /\ \A k \in Nat : k <= now => k <= now'
      BY <1>1
    <2>2. ASSUME NEW m \in Modules PROVE rootRan[m] <= now'
      <3>1. rootRan[m] \in Nat /\ rootRan[m] <= now
        BY Zenon DEF UpgradeInv, UpgradeEnv
      <3> QED BY <2>1, <3>1, Zenon
    <2>3. ASSUME NEW n \in 1..Len(sns.proposals) PROVE sns.proposals[n].at <= now'
      <3>1. sns.proposals[n].at \in Nat /\ sns.proposals[n].at <= now
        BY ProposalType, Zenon DEF UpgradeInv, UpgradeEnv
      <3> QED BY <2>1, <3>1, Zenon
    <2> QED BY <1>1, <2>1, <2>2, <2>3, Zenon DEF UpgradeInv, UpgradeEnv, Registered
  <1>4. RequestsOk'
    <2>1. /\ installer.waitUntil \in Nat /\ installer.early \in BOOLEAN
          /\ \A r \in installer.live : r.expiry \in Nat
          /\ Patient => \A r \in installer.live : r.expiry < installer.waitUntil
      BY Zenon DEF UpgradeInv, RequestsOk
    <2>2. installer'.waitUntil \in Nat
      BY <1>2, <2>1
    <2>3. ASSUME NEW r \in installer'.live
          PROVE  /\ r.expiry \in Nat /\ now' <= r.expiry
                 /\ Patient => r.expiry < installer'.waitUntil
      <3>1. r \in installer.live /\ now' <= r.expiry
        BY <1>2, Zenon
      <3>2. now' \in Nat
        BY <1>1
      <3> QED BY <1>2, <2>1, <3>1, <3>2
    <2> QED BY <1>2, <2>1, <2>2, <2>3, Zenon DEF RequestsOk, Patient
  <1>5. SessionFields'
    <2>1. session.expiry \in Nat /\ session.expiry <= now + IngressLife
      BY Zenon DEF UpgradeInv, SessionFields
    <2>2. session.expiry <= now' + IngressLife
      BY <1>1, <2>1, UpgradeAssumption
    <2> QED BY <1>1, <2>1, <2>2, Zenon DEF UpgradeInv, SessionFields
  <1>6. installer'.live \subseteq installer.live
    BY <1>2, Zenon
  <1>7. SessionPlan' /\ SnsSession'
    BY <1>1, Zenon DEF UpgradeInv, SessionPlan, SnsSession, Left
  <1>8. BeforeSend'
    BY <1>1, <1>2, <1>6, Zenon DEF UpgradeInv, BeforeSend, Left, Patient
  <1>9. Sent'
    BY <1>1, <1>2, <1>6, Zenon DEF UpgradeInv, Sent, Left, Patient
  <1>10. Seen' /\ Reported'
    BY <1>1, <1>2, <1>6, Zenon DEF UpgradeInv, Seen, Reported, Left, Patient
  <1> QED BY <1>3, <1>4, <1>5, <1>7, <1>8, <1>9, <1>10, Zenon DEF UpgradeInv

\* A new command.
LEMMA BeginsWith ==
  ASSUME UpgradeInv, NEW kind, NEW expect, NEW candidate, NEW id, NEW todo,
         NEW early \in BOOLEAN, Begin(kind, expect, candidate, id, todo, early),
         early \/ Patient
  PROVE  /\ session' = [kind |-> kind, expect |-> expect, candidate |-> candidate, id |-> id,
                        expiry |-> 0, before |-> None, todo |-> todo]
         /\ installer'.live = installer.live /\ installer'.ran = None /\ report' = None
         /\ installer'.early = early
         /\ UNCHANGED <<now, controllers, module, observation, sns, rootRan>>
         /\ UpgradeEnv' /\ RequestsOk'
  <1>1. session' = [kind |-> kind, expect |-> expect, candidate |-> candidate, id |-> id,
                    expiry |-> 0, before |-> None, todo |-> todo]
    BY Zenon DEF Begin, NoSession
  <1>2. /\ installer' = [installer EXCEPT !.ran = None, !.early = early] /\ report' = None
        /\ UNCHANGED <<now, controllers, module, observation, sns, rootRan>>
    BY DEF Begin, envVars
  <1>3. /\ installer'.live = installer.live /\ installer'.ran = None
        /\ installer'.waitUntil = installer.waitUntil /\ installer'.early = early
        /\ installer' = [sends |-> installer'.sends, live |-> installer'.live,
                         ran |-> installer'.ran, waitUntil |-> installer'.waitUntil,
                         early |-> installer'.early]
    <2>1. installer = [sends |-> installer.sends, live |-> installer.live, ran |-> installer.ran,
                       waitUntil |-> installer.waitUntil, early |-> installer.early]
      BY Zenon DEF UpgradeInv, RequestsOk
    <2> QED BY ONLY <1>2, <2>1, Zenon
  <1>4. UpgradeEnv'
    BY <1>2, EnvSame, Zenon DEF UpgradeInv, envVars
  <1>5. RequestsOk'
    BY <1>2, <1>3, Zenon DEF UpgradeInv, RequestsOk, Patient
  <1> QED BY <1>1, <1>2, <1>3, <1>4, <1>5, Zenon

LEMMA StartDirectKeeps ==
  ASSUME UpgradeInv, NEW current \in Modules, NEW candidate \in Modules,
         StartDirect(current, candidate)
  PROVE  UpgradeInv'
  <1> DEFINE early == installer.early \/ now < installer.waitUntil
  <1>1. current # candidate /\ Begin("direct", current, candidate, 0, DirectSend, early)
    BY Zenon DEF StartDirect
  <1>a. early \in BOOLEAN /\ (early \/ Patient) /\ (~early => Patient)
        /\ (~early => ~(now < installer.waitUntil))
    BY Zenon DEF Patient
  <1> HIDE DEF early
  <1>2. /\ session' = [kind |-> "direct", expect |-> current, candidate |-> candidate, id |-> 0,
                       expiry |-> 0, before |-> None, todo |-> DirectSend]
        /\ installer'.live = installer.live /\ installer'.ran = None /\ report' = None
        /\ installer'.early = early
        /\ UNCHANGED <<now, controllers, module, observation, sns, rootRan>>
        /\ UpgradeEnv' /\ RequestsOk'
    BY <1>1, <1>a, BeginsWith, Zenon
  <1>3. /\ session'.kind = "direct" /\ session'.expect = current
        /\ session'.candidate = candidate /\ session'.id = 0 /\ session'.expiry = 0
        /\ session'.todo = DirectSend
        /\ session' = [kind |-> session'.kind, expect |-> session'.expect,
                candidate |-> session'.candidate, id |-> session'.id,
                expiry |-> session'.expiry, before |-> session'.before, todo |-> session'.todo]
    BY ONLY <1>2
  <1>4. Patient' => installer.live = {}
    <2>1. ASSUME Patient', NEW r \in installer.live PROVE FALSE
      <3>0. Patient /\ ~(now < installer.waitUntil)
        BY <1>2, <1>a, <2>1, Zenon DEF Patient
      <3>1. /\ r.expiry \in Nat /\ now <= r.expiry /\ r.expiry < installer.waitUntil
            /\ now \in Nat /\ installer.waitUntil \in Nat
        BY <3>0, Zenon DEF UpgradeInv, UpgradeEnv, RequestsOk
      <3> QED BY <3>0, <3>1
    <2> QED BY <2>1
  <1>5. WellPlanned(session'.todo)
        /\ StepsOf(session'.todo) = {"Snapshot"} \cup CurrentSteps \cup {"Compare"}
                                    \cup UploadSteps \cup {"Compare"} \cup {"Send"}
    BY <1>3, DirectSendPlan, PlanWhole, Zenon
  <1>6. /\ \A x \in {"Snapshot", "CurrentCertified", "ModuleStill", "Send"} :
             x \in StepsOf(session'.todo)
        /\ "Outcome" \notin StepsOf(session'.todo)
    BY <1>5 DEF CurrentSteps, UploadSteps
  <1>7. SessionFields'
    <2>1. now \in Nat
      BY Zenon DEF UpgradeInv, UpgradeEnv
    <2> QED BY <1>2, <1>3, <2>1, UpgradeAssumption DEF SessionFields
  <1>8. SessionPlan' /\ SnsSession'
    BY <1>3, <1>5, <1>6 DEF SessionPlan, SnsSession, Left
  <1>9. BeforeSend' /\ Sent' /\ Seen'
    BY <1>1, <1>2, <1>3, <1>4, <1>6, Zenon DEF BeforeSend, Sent, Seen, Left
  <1> QED BY <1>2, <1>7, <1>8, <1>9, NoReport, Zenon DEF UpgradeInv

LEMMA StartSnsKeeps ==
  ASSUME UpgradeInv, NEW m \in Modules, NEW id \in Upgrades, StartSnsCheck(m, id)
  PROVE  UpgradeInv'
  <1>1. id <= Len(sns.proposals) /\ Begin("sns", m, m, id, SnsUpgradeLive, installer.early)
    BY Zenon DEF StartSnsCheck
  <1>a. installer.early \in BOOLEAN /\ (installer.early \/ Patient)
    BY Zenon DEF UpgradeInv, RequestsOk, Patient
  <1>2. /\ session' = [kind |-> "sns", expect |-> m, candidate |-> m, id |-> id,
                       expiry |-> 0, before |-> None, todo |-> SnsUpgradeLive]
        /\ report' = None
        /\ UNCHANGED <<now, controllers, module, observation, sns, rootRan>>
        /\ UpgradeEnv' /\ RequestsOk'
    BY <1>1, <1>a, BeginsWith, Zenon
  <1>3. /\ session'.kind = "sns" /\ session'.expect = m /\ session'.id = id
        /\ session'.expiry = 0 /\ session'.todo = SnsUpgradeLive
        /\ session' = [kind |-> session'.kind, expect |-> session'.expect,
                candidate |-> session'.candidate, id |-> session'.id,
                expiry |-> session'.expiry, before |-> session'.before, todo |-> session'.todo]
    BY ONLY <1>2
  <1>4. id \in 1..Len(sns.proposals)
    <2>1. sns.proposals \in Seq([module : Modules, runs : BOOLEAN, at : Nat])
      BY Zenon DEF UpgradeInv, UpgradeEnv
    <2>2. Len(sns.proposals) \in Nat
      BY ONLY <2>1
    <2> QED BY <1>1, <2>2, UpgradeAssumption DEF Upgrades
  <1>5. WellPlanned(session'.todo)
        /\ StepsOf(session'.todo) = {"RegistrationExecuted"} \cup CurrentSteps \cup {"Snapshot"}
                                    \cup ProposalSteps \cup CurrentSteps \cup {"Report"}
    BY <1>3, SnsUpgradePlan, PlanWhole, Zenon
  <1>6. /\ \A x \in {"UpgradeObserved", "CurrentCertified"} : x \in StepsOf(session'.todo)
        /\ \A x \in {"Outcome", "Send", "Sign"} : x \notin StepsOf(session'.todo)
    BY <1>5 DEF CurrentSteps, ProposalSteps
  <1>7. SessionFields'
    <2>1. now \in Nat
      BY Zenon DEF UpgradeInv, UpgradeEnv
    <2> QED BY <1>2, <1>3, <2>1, UpgradeAssumption DEF SessionFields
  <1>8. SessionPlan'
    BY <1>3, <1>5, <1>6 DEF SessionPlan, Left
  <1>9. SnsSession'
    BY <1>2, <1>3, <1>4, <1>6, Zenon DEF SnsSession, Left
  <1>10. BeforeSend' /\ Sent' /\ Seen'
    BY <1>3 DEF BeforeSend, Sent, Seen, Left
  <1> QED BY <1>2, <1>7, <1>8, <1>9, <1>10, NoReport, Zenon DEF UpgradeInv

\* A signed request runs or is dropped.
LEMMA RequestRunsKeeps ==
  ASSUME UpgradeInv, NEW r \in installer.live, RequestRuns(r)
  PROVE  UpgradeInv'
  <1>1. UNCHANGED <<now, controllers, sns, rootRan, session, report>>
    BY DEF RequestRuns
  <1>2. /\ installer'.live = installer.live \ {r} /\ installer'.waitUntil = installer.waitUntil
        /\ installer'.early = installer.early
        /\ installer' = [sends |-> installer'.sends, live |-> installer'.live,
                         ran |-> installer'.ran, waitUntil |-> installer'.waitUntil,
                         early |-> installer'.early]
        /\ \/ /\ "installer" \in controllers /\ module' = r.module
              /\ observation' = <<[at |-> now, by |-> "installer"]>>
              /\ installer'.ran = <<[id |-> r.id, over |-> module]>>
           \/ installer'.ran = installer.ran /\ UNCHANGED <<module, observation>>
    <2>1. installer = [sends |-> installer.sends, live |-> installer.live, ran |-> installer.ran,
                       waitUntil |-> installer.waitUntil, early |-> installer.early]
      BY Zenon DEF UpgradeInv, RequestsOk
    <2>2. PICK ran : ran = <<[id |-> r.id, over |-> module]>>
      BY Zenon
    <2>3. \/ /\ "installer" \in controllers /\ module' = r.module
             /\ observation' = <<[at |-> now, by |-> "installer"]>>
             /\ installer' = [installer EXCEPT !.live = @ \ {r}, !.ran = ran]
          \/ installer' = [installer EXCEPT !.live = @ \ {r}] /\ UNCHANGED <<module, observation>>
      BY <2>2, Zenon DEF RequestRuns, Upgraded
    <2>4. /\ installer'.live = installer.live \ {r} /\ installer'.waitUntil = installer.waitUntil
          /\ installer'.early = installer.early
          /\ installer' = [sends |-> installer'.sends, live |-> installer'.live,
                           ran |-> installer'.ran, waitUntil |-> installer'.waitUntil,
                         early |-> installer'.early]
          /\ \/ /\ "installer" \in controllers /\ module' = r.module
                /\ observation' = <<[at |-> now, by |-> "installer"]>>
                /\ installer'.ran = ran
             \/ installer'.ran = installer.ran /\ UNCHANGED <<module, observation>>
      BY ONLY <2>1, <2>3, Zenon
    <2> QED BY <2>2, <2>4, Zenon
  <1>3. ASSUME "installer" \in controllers
        PROVE  ~(observation # None /\ observation[1].by = "root")
    <2>1. controllers # {"root"}
      BY <1>3
    <2> QED BY <2>1, Zenon DEF UpgradeInv, UpgradeEnv, Registered
  <1>4. \/ UNCHANGED <<module, observation>>
        \/ "installer" \in controllers /\ observation' # None /\ observation'[1].by # "root"
    BY <1>2 DEF None
  <1>5. UpgradeEnv'
    BY <1>1, <1>4, Zenon DEF UpgradeInv, UpgradeEnv, Registered
  <1>6. RequestsOk'
    BY <1>1, <1>2, Zenon DEF UpgradeInv, RequestsOk, Patient
  <1>7. SessionFields' /\ SessionPlan'
    BY <1>1, Zenon DEF UpgradeInv, SessionFields, SessionPlan, Left
  <1>8. SnsSession'
    BY <1>1, <1>3, <1>4, Zenon DEF UpgradeInv, SnsSession, Left
  <1>9. installer.live # {}
    OBVIOUS
  <1>10. BeforeSend' /\ Seen' /\ Reported'
    BY <1>1, <1>2, <1>9, Zenon DEF UpgradeInv, BeforeSend, Seen, Reported, Left, Patient
  <1>11. Sent'
    <2> SUFFICES ASSUME Patient, session.kind = "direct", Left("Outcome") PROVE Sent'
      BY <1>1, <1>2, Zenon DEF Sent, Left, Patient
    <2>1. session.before[1][1] = Sole /\ session.expect # session.candidate
      BY Zenon DEF UpgradeInv, Sent
    <2>2. ASSUME controllers = Sole
          PROVE  /\ installer.ran = None /\ module = session.expect
                 /\ \A q \in installer.live : q.id = session.id /\ q.module = session.candidate
                 /\ \A q, s \in installer.live : q = s
      BY <1>9, <2>2, Zenon DEF UpgradeInv, Sent
    <2>3. controllers = Sole => installer'.live = {}
      BY <1>2, <2>2, Zenon
    <2>4. ASSUME controllers = Sole
          PROVE  \/ /\ installer'.ran = None /\ module' = session.expect
                    /\ \A q \in installer'.live : q.id = session.id /\ q.module = session.candidate
                    /\ \A q, s \in installer'.live : q = s
                 \/ /\ installer'.ran = <<[id |-> session.id, over |-> session.expect]>>
                    /\ installer'.live = {} /\ module' = session.candidate
      BY <1>2, <2>2, <2>3, <2>4, Zenon
    <2> QED BY <1>1, <2>1, <2>4, Zenon DEF Sent
  <1> QED BY <1>5, <1>6, <1>7, <1>8, <1>10, <1>11, Zenon DEF UpgradeInv

\* The handover, the proposals and Root leave the session and the installer alone.
LEMMA OthersKeep ==
  ASSUME UpgradeInv, UNCHANGED <<now, installer, session, report>>,
         UpgradeEnv', SnsSession',
         controllers' = Sole => controllers = Sole /\ UNCHANGED module,
         Len(sns'.proposals) >= Len(sns.proposals),
         \A n \in 1..Len(sns.proposals) :
           /\ n \in 1..Len(sns'.proposals)
           /\ sns.proposals[n].at > 0 => sns'.proposals[n].at = sns.proposals[n].at,
         \A m \in Modules : rootRan'[m] \in Nat /\ rootRan'[m] >= rootRan[m]
  PROVE  UpgradeInv'
  <1>1. RequestsOk' /\ SessionFields' /\ SessionPlan'
    BY RequestsSame, Zenon DEF UpgradeInv, SessionFields, SessionPlan, Left
  <1>2. BeforeSend' /\ Sent' /\ Seen'
    BY Zenon DEF UpgradeInv, BeforeSend, Sent, Seen, Left, Patient
  <1>3. Reported'
    <2>1. ASSUME NEW n \in DOMAIN report, report[n].kind = "sns"
          PROVE  /\ report[n].module \in Modules /\ report[n].id \in 1..Len(sns'.proposals)
                 /\ sns'.proposals[report[n].id].at > 0
                 /\ rootRan'[report[n].module] >= sns'.proposals[report[n].id].at
      <3>1. /\ report[n].module \in Modules /\ report[n].id \in 1..Len(sns.proposals)
            /\ sns.proposals[report[n].id].at > 0
            /\ rootRan[report[n].module] >= sns.proposals[report[n].id].at
        BY <2>1, Zenon DEF UpgradeInv, Reported
      <3>2. /\ report[n].id \in 1..Len(sns'.proposals)
            /\ sns'.proposals[report[n].id].at = sns.proposals[report[n].id].at
            /\ rootRan'[report[n].module] \in Nat /\ rootRan[report[n].module] \in Nat
            /\ rootRan'[report[n].module] >= rootRan[report[n].module]
            /\ sns.proposals[report[n].id].at \in Nat
        BY <3>1, ProposalType, Zenon DEF UpgradeInv, UpgradeEnv
      <3> QED BY <3>1, <3>2
    <2>2. ASSUME Patient, NEW n \in DOMAIN report, report[n].kind = "direct"
          PROVE  /\ installer.ran = <<[id |-> report[n].id, over |-> report[n].over]>>
                 /\ installer.live = {}
      BY <2>2, Zenon DEF UpgradeInv, Reported
    <2> QED BY <2>1, <2>2, Zenon DEF Reported, Patient
  <1> QED BY <1>1, <1>2, <1>3, Zenon DEF UpgradeInv

\* A step that leaves the proposals and what ran alone.
LEMMA SameProposals ==
  ASSUME UpgradeInv, sns'.proposals = sns.proposals, rootRan' = rootRan
  PROVE  /\ Len(sns'.proposals) >= Len(sns.proposals)
         /\ \A n \in 1..Len(sns.proposals) :
              /\ n \in 1..Len(sns'.proposals)
              /\ sns.proposals[n].at > 0 => sns'.proposals[n].at = sns.proposals[n].at
         /\ \A m \in Modules : rootRan'[m] \in Nat /\ rootRan'[m] >= rootRan[m]
  <1>1. /\ sns.proposals \in Seq([module : Modules, runs : BOOLEAN, at : Nat])
        /\ rootRan \in [Modules -> Nat]
    BY Zenon DEF UpgradeInv, UpgradeEnv
  <1>2. Len(sns.proposals) \in Nat
    BY ONLY <1>1
  <1>3. \A m \in Modules : rootRan[m] \in Nat
    BY <1>1, Zenon
  <1>4. \A m \in Modules : rootRan'[m] \in Nat /\ rootRan'[m] >= rootRan[m]
    BY <1>3
  <1>5. Len(sns'.proposals) >= Len(sns.proposals)
    BY <1>2
  <1> QED BY <1>4, <1>5, Zenon

LEMMA HandoverKeeps ==
  ASSUME UpgradeInv, AddRoot \/ RootRegisters \/ RegistrationCounts
  PROVE  UpgradeInv'
  <1>1. /\ UNCHANGED <<now, module, observation, installer, rootRan, session, report>>
        /\ controllers' = controllers \/ controllers' # Sole
    BY DEF AddRoot, RootRegisters, RegistrationCounts, SnsChanges, upgradeVars, envVars, Sole
  <1>2. /\ sns = [registered |-> sns.registered, at |-> sns.at, proposals |-> sns.proposals]
        /\ controllers \in {{"installer"}, {"installer", "root"}, {"root"}}
    BY Zenon DEF UpgradeInv, UpgradeEnv
  <1>3. /\ sns'.proposals = sns.proposals
        /\ sns' = [registered |-> sns'.registered, at |-> sns'.at, proposals |-> sns'.proposals]
        /\ sns'.registered => sns.registered \/ controllers' = {"root"}
        /\ controllers' = {"root"} \/ controllers # {"root"}
        /\ controllers' \in {{"installer"}, {"installer", "root"}, {"root"}}
    <2>1. CASE AddRoot
      <3>1. sns' = sns /\ controllers = {"installer"} /\ controllers' = {"installer", "root"}
        BY <2>1 DEF AddRoot, upgradeVars
      <3> QED BY ONLY <1>2, <3>1
    <2>2. CASE RootRegisters
      <3>1. controllers' = {"root"} /\ sns' = [sns EXCEPT !.registered = TRUE]
        BY <2>2, Zenon DEF RootRegisters
      <3> QED BY ONLY <1>2, <3>1, Zenon
    <2>3. CASE RegistrationCounts
      <3>1. controllers' = controllers /\ sns' = [sns EXCEPT !.at = now]
        BY <2>3 DEF RegistrationCounts, SnsChanges, envVars
      <3> QED BY ONLY <1>2, <3>1
    <2> QED BY <2>1, <2>2, <2>3, Zenon
  <1>4. UpgradeEnv'
    <2>1. sns.registered \/ sns.proposals # <<>> => controllers = {"root"}
      BY Zenon DEF UpgradeInv, UpgradeEnv, Registered
    <2>2. sns'.registered \/ sns'.proposals # <<>> => controllers' = {"root"}
      BY <1>3, <2>1, Zenon
    <2>3. observation # None /\ observation[1].by = "root" =>
            /\ controllers' = {"root"} /\ module \in Modules
            /\ observation[1].at = rootRan[module]
      BY <1>3, Zenon DEF UpgradeInv, UpgradeEnv, Registered
    <2> QED BY <1>1, <1>3, <2>2, <2>3, Zenon DEF UpgradeInv, UpgradeEnv, Registered
  <1>5. SnsSession'
    BY <1>1, <1>3, Zenon DEF UpgradeInv, SnsSession, Left
  <1>6. controllers' = Sole => controllers = Sole /\ UNCHANGED module
    BY <1>1, Zenon
  <1> QED BY <1>1, <1>3, <1>4, <1>5, <1>6, SameProposals, OthersKeep, Zenon

LEMMA ProposalsKeep ==
  ASSUME UpgradeInv,
         \/ \E m \in Modules : ProposalCalls(m)
         \/ \E id \in Upgrades : ProposalCounts(id)
  PROVE  UpgradeInv'
  <1> DEFINE P == [module : Modules, runs : BOOLEAN, at : Nat]
  <1>1. UNCHANGED <<now, controllers, module, observation, installer, rootRan, session, report>>
    BY Zenon DEF ProposalCalls, ProposalCounts, SnsChanges, envVars
  <1>2. /\ sns = [registered |-> sns.registered, at |-> sns.at, proposals |-> sns.proposals]
        /\ sns.proposals \in Seq(P) /\ now \in Nat
        /\ \A n \in 1..Len(sns.proposals) : sns.proposals[n].at <= now
    BY Zenon DEF UpgradeInv, UpgradeEnv
  <1>3. PICK q : q = sns.proposals
    BY Zenon
  <1>4. q \in Seq(P) /\ Len(q) \in Nat
    BY <1>2, <1>3
  <1>5. PICK q2 :
          /\ sns' = [sns EXCEPT !.proposals = q2] /\ q2 \in Seq(P) /\ q2 # <<>>
          /\ Len(q2) \in Nat /\ Len(q2) >= Len(q)
          /\ \A n \in 1..Len(q) : q[n].at > 0 => q2[n].at = q[n].at
          /\ \A n \in 1..Len(q2) : q2[n].at <= now
          /\ sns.registered \/ q # <<>>
    <2>1. CASE \E m \in Modules : ProposalCalls(m)
      <3>1. PICK m \in Modules : ProposalCalls(m)
        BY <2>1, Zenon
      <3>2. PICK p : p = [module |-> m, runs |-> TRUE, at |-> 0]
        BY Zenon
      <3>3. p \in P /\ p.at = 0
        BY <3>2
      <3>4. sns' = [sns EXCEPT !.proposals = Append(q, p)] /\ sns.registered
        BY <1>3, <3>1, <3>2 DEF ProposalCalls, SnsChanges
      <3> HIDE DEF P
      <3>5. PICK a : a = Append(q, p)
        BY Zenon
      <3>6. /\ a \in Seq(P) /\ Len(a) = Len(q) + 1 /\ a[Len(q) + 1] = p
            /\ \A n \in 1..Len(q) : a[n] = q[n]
        BY ONLY <1>4, <3>3, <3>5
      <3>7. a # <<>> /\ Len(a) \in Nat /\ Len(a) >= Len(q)
        BY <1>4, <3>6
      <3>8. \A n \in 1..Len(a) : n \in 1..Len(q) \/ n = Len(q) + 1
        BY <1>4, <3>6
      <3>9. 0 <= now
        BY <1>2
      <3>10. \A n \in 1..Len(a) : a[n].at <= now
        BY <1>2, <1>3, <3>3, <3>6, <3>8, <3>9, Zenon
      <3> QED BY <3>4, <3>5, <3>6, <3>7, <3>10, Zenon
    <2>2. CASE \E id \in Upgrades : ProposalCounts(id)
      <3>1. PICK id \in Upgrades : ProposalCounts(id)
        BY <2>2, Zenon
      <3>2. id \in 1..Len(q) /\ q[id].at = 0
        BY <1>3, <1>4, <3>1, UpgradeAssumption DEF ProposalCounts, Upgrades
      <3>3. q[id] \in P
        <4> HIDE DEF P
        <4> QED BY ONLY <1>4, <3>2
      <3>4. PICK p : p = [q[id] EXCEPT !.at = now]
        BY Zenon
      <3>5. p \in P /\ p.at = now
        BY <1>2, <3>3, <3>4
      <3>6. sns' = [sns EXCEPT !.proposals[id].at = now]
        BY <3>1, Zenon DEF ProposalCounts, SnsChanges
      <3>7. sns' = [sns EXCEPT !.proposals = [q EXCEPT ![id] = p]]
        BY <1>3, <3>4, <3>6
      <3> HIDE DEF P
      <3>8. PICK a : a = [q EXCEPT ![id] = p]
        BY Zenon
      <3>9. /\ a \in Seq(P) /\ Len(a) = Len(q) /\ a[id] = p
            /\ \A n \in 1..Len(q) : n # id => a[n] = q[n]
        BY ONLY <1>4, <3>2, <3>5, <3>8
      <3>10. a # <<>> /\ Len(a) \in Nat /\ Len(a) >= Len(q) /\ q # <<>>
        BY <1>4, <3>2, <3>9
      <3>11. now <= now
        BY <1>2
      <3>12. \A n \in 1..Len(a) : a[n].at <= now
        BY <1>2, <1>3, <3>5, <3>9, <3>11, Zenon
      <3>13. \A n \in 1..Len(q) : q[n].at > 0 => a[n].at = q[n].at
        <4>1. ~(q[id].at > 0)
          BY <3>2
        <4> QED BY <3>9, <4>1, Zenon
      <3> QED BY <3>7, <3>8, <3>9, <3>10, <3>12, <3>13, Zenon
    <2> QED BY <2>1, <2>2, Zenon
  <1> HIDE DEF P
  <1>6. /\ sns'.proposals = q2 /\ sns'.registered = sns.registered
        /\ sns' = [registered |-> sns'.registered, at |-> sns'.at, proposals |-> sns'.proposals]
    BY ONLY <1>2, <1>5
  <1>7. controllers = {"root"}
    BY <1>3, <1>5, Zenon DEF UpgradeInv, UpgradeEnv, Registered
  <1>8. UpgradeEnv'
    BY <1>1, <1>5, <1>6, <1>7, Zenon DEF UpgradeInv, UpgradeEnv, Registered, P
  <1>9. \A n \in 1..Len(q) : n \in 1..Len(q2)
    BY <1>4, <1>5
  <1>10. SnsSession'
    <2> SUFFICES ASSUME session.kind = "sns" PROVE SnsSession'
      BY <1>1, Zenon DEF SnsSession
    <2>1. session.id \in 1..Len(q) /\ session.id \in 1..Len(q2) /\ session.expect \in Modules
      BY <1>3, <1>9, Zenon DEF UpgradeInv, SnsSession
    <2>2. q[session.id].at > 0 => q2[session.id].at = q[session.id].at
      BY <1>5, <2>1, Zenon
    <2> QED BY <1>1, <1>3, <1>6, <2>1, <2>2, Zenon DEF UpgradeInv, SnsSession, Left
  <1>11. \A m \in Modules : rootRan'[m] \in Nat /\ rootRan'[m] >= rootRan[m]
    <2>1. \A m \in Modules : rootRan[m] \in Nat
      BY Zenon DEF UpgradeInv, UpgradeEnv
    <2> QED BY <1>1, <2>1
  <1>12. \A n \in 1..Len(sns.proposals) :
           /\ n \in 1..Len(sns'.proposals)
           /\ sns.proposals[n].at > 0 => sns'.proposals[n].at = sns.proposals[n].at
    BY <1>3, <1>5, <1>6, <1>9, Zenon
  <1>13. Len(sns'.proposals) >= Len(sns.proposals)
    BY <1>3, <1>5, <1>6, Zenon
  <1> QED BY <1>1, <1>8, <1>10, <1>11, <1>12, <1>13, OthersKeep, Zenon

\* Root's upgrade succeeds or leaves the canister alone.
LEMMA RootUpgradesKeeps ==
  ASSUME UpgradeInv, NEW id \in Upgrades, RootUpgrades(id)
  PROVE  UpgradeInv'
  <1> DEFINE P == [module : Modules, runs : BOOLEAN, at : Nat]
  <1>1. UNCHANGED <<now, controllers, installer, session, report>>
    BY DEF RootUpgrades
  <1>2. /\ sns = [registered |-> sns.registered, at |-> sns.at, proposals |-> sns.proposals]
        /\ sns.proposals \in Seq(P) /\ now \in Nat
        /\ \A n \in 1..Len(sns.proposals) : sns.proposals[n].at <= now
        /\ rootRan \in [Modules -> Nat] /\ \A m \in Modules : rootRan[m] <= now
    BY Zenon DEF UpgradeInv, UpgradeEnv
  <1>3. PICK q : q = sns.proposals
    BY Zenon
  <1>4. q \in Seq(P) /\ Len(q) \in Nat
    BY <1>2, <1>3
  <1>5. id \in 1..Len(q)
    BY <1>3, <1>4, UpgradeAssumption DEF RootUpgrades, Upgrades
  <1>6. q[id] \in P /\ q # <<>>
    <2> HIDE DEF P
    <2> QED BY ONLY <1>4, <1>5
  <1>7. PICK m : m = q[id].module
    BY Zenon
  <1>8. m \in Modules
    BY <1>6, <1>7
  <1>9. PICK q2 :
          /\ sns' = [sns EXCEPT !.proposals = q2] /\ q2 \in Seq(P) /\ Len(q2) = Len(q)
          /\ \A n \in 1..Len(q) : q2[n].at = q[n].at
    <2>1. PICK p : p = [q[id] EXCEPT !.runs = FALSE]
      BY Zenon
    <2>2. p \in P /\ p.at = q[id].at
      BY <1>6, <2>1, Zenon
    <2>3. sns' = [sns EXCEPT !.proposals[id].runs = FALSE]
      BY Zenon DEF RootUpgrades
    <2>4. sns' = [sns EXCEPT !.proposals = [q EXCEPT ![id] = p]]
      BY <1>3, <2>1, <2>3
    <2> HIDE DEF P
    <2>5. PICK a : a = [q EXCEPT ![id] = p]
      BY Zenon
    <2>6. /\ a \in Seq(P) /\ Len(a) = Len(q) /\ a[id] = p
          /\ \A n \in 1..Len(q) : n # id => a[n] = q[n]
      BY ONLY <1>4, <1>5, <2>2, <2>5
    <2>7. \A n \in 1..Len(q) : a[n].at = q[n].at
      BY <2>2, <2>6, Zenon
    <2> QED BY <2>4, <2>5, <2>6, <2>7, Zenon
  <1>10. \/ /\ module' = m /\ observation' = <<[at |-> now, by |-> "root"]>>
            /\ rootRan' = [rootRan EXCEPT ![m] = now]
         \/ UNCHANGED <<module, observation, rootRan>>
    BY <1>3, <1>7, Zenon DEF RootUpgrades, Upgraded
  <1> HIDE DEF P
  <1>11. /\ sns'.proposals = q2 /\ sns'.registered = sns.registered
         /\ sns' = [registered |-> sns'.registered, at |-> sns'.at, proposals |-> sns'.proposals]
    BY ONLY <1>2, <1>9
  <1>12. controllers = {"root"} /\ controllers # Sole
    <2>1. controllers = {"root"}
      BY <1>3, <1>6, Zenon DEF UpgradeInv, UpgradeEnv, Registered
    <2> QED BY <2>1 DEF Sole
  <1>13. /\ rootRan' \in [Modules -> Nat]
         /\ \A k \in Modules : rootRan'[k] \in Nat /\ rootRan'[k] >= rootRan[k]
              /\ rootRan'[k] <= now
    <2>1. CASE rootRan' = [rootRan EXCEPT ![m] = now]
      BY <1>2, <1>8, <2>1
    <2>2. CASE UNCHANGED rootRan
      BY <1>2, <2>2
    <2> QED BY <1>10, <2>1, <2>2, Zenon
  <1>14. \/ /\ module' = m /\ observation'[1].at = now /\ observation'[1].by = "root"
            /\ observation' # None /\ rootRan'[m] = now
         \/ UNCHANGED <<module, observation, rootRan>>
    BY <1>2, <1>8, <1>10 DEF None
  <1>15. UpgradeEnv'
    <2>1. q2 # <<>> /\ 1..Len(q2) = 1..Len(q)
      BY <1>5, <1>9
    <2>2. \A n \in 1..Len(q2) : q2[n].at <= now
      BY <1>2, <1>3, <1>9, Zenon
    <2>3. observation' # None /\ observation'[1].by = "root" =>
            module' \in Modules /\ observation'[1].at = rootRan'[module']
      BY <1>8, <1>14, Zenon DEF UpgradeInv, UpgradeEnv
    <2> QED BY <1>1, <1>9, <1>11, <1>12, <1>13, <2>2, <2>3, Zenon
               DEF UpgradeInv, UpgradeEnv, Registered, P
  <1>16. SnsSession'
    <2> SUFFICES ASSUME session.kind = "sns" PROVE SnsSession'
      BY <1>1, Zenon DEF SnsSession
    <2>1. /\ session.expect \in Modules /\ session.id \in 1..Len(q)
          /\ ~Left("UpgradeObserved") =>
               /\ observation # None /\ observation[1].by = "root"
               /\ q[session.id].at > 0
               /\ observation[1].at >= q[session.id].at
          /\ ~Left("CurrentCertified") =>
               /\ q[session.id].at > 0
               /\ rootRan[session.expect] >= q[session.id].at
      BY <1>3, Zenon DEF UpgradeInv, SnsSession
    <2>2. q2[session.id].at = q[session.id].at /\ session.id \in 1..Len(q2)
      BY <1>9, <2>1, Zenon
    <2>3. q[session.id].at <= now /\ q[session.id].at \in Nat
      BY <1>2, <1>3, <2>1, ProposalType, Zenon DEF UpgradeInv
    <2>4. rootRan'[session.expect] \in Nat /\ rootRan'[session.expect] >= rootRan[session.expect]
          /\ rootRan[session.expect] \in Nat
      BY <1>2, <1>13, <2>1, Zenon
    <2>5. rootRan[session.expect] >= q[session.id].at
            => rootRan'[session.expect] >= q[session.id].at
      BY <2>3, <2>4
    <2>6. now >= q[session.id].at
      BY <1>2, <2>3
    <2>7. ~Left("UpgradeObserved") =>
            /\ observation' # None /\ observation'[1].by = "root"
            /\ q[session.id].at > 0 /\ observation'[1].at >= q[session.id].at
      BY <1>14, <2>1, <2>6, Zenon
    <2> QED BY <1>1, <1>11, <2>1, <2>2, <2>5, <2>7, Zenon DEF SnsSession, Left
  <1>17. \A n \in 1..Len(sns.proposals) :
           /\ n \in 1..Len(sns'.proposals)
           /\ sns.proposals[n].at > 0 => sns'.proposals[n].at = sns.proposals[n].at
    BY <1>3, <1>9, <1>11, Zenon
  <1>18. Len(sns'.proposals) >= Len(sns.proposals)
    BY <1>3, <1>4, <1>9, <1>11
  <1> QED BY <1>1, <1>12, <1>13, <1>15, <1>16, <1>17, <1>18, OthersKeep, Zenon

\* The rest of the system does not touch what the invariant is about.
LEMMA UpgradeSame ==
  ASSUME UpgradeInv,
         UNCHANGED <<now, controllers, module, observation, installer, sns, rootRan, session,
           report>>
  PROVE  UpgradeInv'
  <1>1. UpgradeEnv' /\ RequestsOk'
    BY EnvSame, RequestsSame, Zenon DEF UpgradeInv, envVars
  <1>2. SessionFields' /\ SessionPlan' /\ SnsSession'
    BY Zenon DEF UpgradeInv, SessionFields, SessionPlan, SnsSession, Left
  <1>3. BeforeSend' /\ Sent' /\ Seen' /\ Reported'
    BY Zenon DEF UpgradeInv, BeforeSend, Sent, Seen, Reported, Left, Patient
  <1> QED BY <1>1, <1>2, <1>3, Zenon DEF UpgradeInv

LEMMA ActivationKeepsClock == ASSUME ActivationNext PROVE UNCHANGED <<now, controllers, module>>
  <1>1. CASE StartSeal
    BY <1>1, Zenon DEF StartSeal, envVars
  <1>2. ASSUME NEW phase \in Phases,
               \/ StartPrepare(phase) \/ ControllerPrepares(phase) \/ NewPaths(phase)
               \/ \E g \in Generations : StartReplace(phase, g) \/ StartConfirm(phase, g)
        PROVE  UNCHANGED <<now, controllers, module>>
    BY <1>2, Zenon DEF StartPrepare, ControllerPrepares, NewPaths, StartReplace, StartConfirm,
                       Start, envVars
  <1>3. CASE DriverStep
    <2>1. CASE CheckPasses \/ Abort \/ CallSeal \/ ReadAttestation \/ WriteSealReceipt
               \/ Refresh \/ Stamp \/ WriteAuthorization
      BY <2>1, Zenon DEF CheckPasses, Abort, CallSeal, ReadAttestation, WriteSealReceipt,
                         Refresh, Stamp, WriteAuthorization, envVars
    <2>2. CASE CallPrepare \/ Answer \/ Recover \/ WriteArtifact \/ Bind
               \/ CallReplace \/ CallConfirm \/ WriteConfirmation \/ WriteReceipt
      BY <2>2, Zenon DEF CallPrepare, Answer, Recover, WriteArtifact, Bind, CallReplace,
                         CallConfirm, WriteConfirmation, WriteReceipt, envVars
    <2> QED BY <1>3, <2>1, <2>2, Zenon DEF DriverStep
  <1>4. CASE CanisterSigns \/ (\E g \in Generations, ok \in BOOLEAN : Lands(g, ok))
             \/ EmergencyPause \/ RelayerRefreshes
    BY <1>4, Zenon DEF CanisterSigns, Lands, EmergencyPause, RelayerRefreshes, envVars
  <1> QED BY <1>1, <1>2, <1>3, <1>4, Zenon DEF ActivationNext

LEMMA UpgradeInitially == ASSUME Init PROVE UpgradeInv
  <1>1. /\ now = 1 /\ controllers = {"installer"} /\ module = Released
        /\ observation = None /\ rootRan = [m \in Modules |-> 0] /\ report = None
        /\ installer = [sends |-> 0, live |-> {}, ran |-> None, waitUntil |-> 0,
                        early |-> FALSE]
        /\ sns = [registered |-> FALSE, at |-> 0, proposals |-> <<>>]
        /\ session = NoSession
    BY Zenon DEF Init, UpgradeInit
  <1>2. UpgradeEnv
    <2>1. Len(sns.proposals) = 0 /\ 1..0 = {} /\ sns.proposals \in Seq([module : Modules,
            runs : BOOLEAN, at : Nat])
      BY <1>1
    <2> QED BY <1>1, <2>1 DEF UpgradeEnv, Registered
  <1>3. RequestsOk
    BY <1>1 DEF RequestsOk
  <1>4. session.kind = "none" /\ session.todo = <<>> /\ DOMAIN report = {}
    BY <1>1, Idling DEF None
  <1>5. SessionFields
    BY <1>1, UpgradeAssumption DEF SessionFields, NoSession
  <1>6. SessionPlan
    <2>1. WellPlanned(session.todo)
      BY <1>4, NothingLeft
    <2> QED BY <1>4, <2>1 DEF SessionPlan
  <1>7. SnsSession /\ BeforeSend /\ Sent /\ Seen /\ Reported
    BY <1>4 DEF SnsSession, BeforeSend, Sent, Seen, Reported
  <1> QED BY <1>2, <1>3, <1>5, <1>6, <1>7, Zenon DEF UpgradeInv

LEMMA UpgradeInductive == ASSUME UpgradeInv, [Next]_vars PROVE UpgradeInv'
  <1>1. CASE ActivationNext /\ UNCHANGED upgradeVars
    <2>1. UNCHANGED <<now, controllers, module>>
      BY <1>1, ActivationKeepsClock, Zenon
    <2>2. UNCHANGED <<observation, installer, sns, rootRan, session, report>>
      BY <1>1 DEF upgradeVars
    <2> QED BY <2>1, <2>2, UpgradeSame, Zenon
  <1>2. CASE UpgradeNext
    <2>1. CASE PausedMeanwhile \/ ClearChunks
      <3>1. UNCHANGED <<now, controllers, module, observation, installer, sns, rootRan, session,
              report>>
        BY <2>1 DEF PausedMeanwhile, EmergencyPause, ClearChunks, upgradeVars, envVars
      <3> QED BY <3>1, UpgradeSame, Zenon
    <2>2. CASE (\E m, n \in Modules : StartDirect(m, n))
               \/ \E m \in Modules : \E id \in Upgrades : StartSnsCheck(m, id)
      BY <2>2, StartDirectKeeps, StartSnsKeeps, Zenon
    <2>3. CASE Reads \/ KeepSnapshot \/ Stops \/ Sign \/ Upload \/ Send \/ Outcome \/ Report
      BY <2>3, ReadsKeeps, KeepSnapshotKeeps, StopsKeeps, SignUploadKeep, SendKeeps,
         OutcomeKeeps, ReportKeeps, Zenon
    <2>4. CASE (\E r \in installer.live : RequestRuns(r)) \/ AddRoot \/ RootRegisters
               \/ RegistrationCounts
      BY <2>4, RequestRunsKeeps, HandoverKeeps, Zenon
    <2>5. CASE \/ \E m \in Modules : ProposalCalls(m)
               \/ \E id \in Upgrades : RootUpgrades(id) \/ ProposalCounts(id)
      BY <2>5, ProposalsKeep, RootUpgradesKeeps, Zenon
    <2> QED BY <1>2, <2>1, <2>2, <2>3, <2>4, <2>5, Zenon DEF UpgradeNext
  <1>3. CASE Tick /\ RequestsExpire
    BY <1>3, TickKeeps, Zenon
  <1>4. CASE UNCHANGED vars
    <2>1. UNCHANGED <<now, controllers, module, observation, installer, sns, rootRan, session,
            report>>
      BY <1>4 DEF vars, upgradeVars
    <2> QED BY <2>1, UpgradeSame, Zenon
  <1> QED BY <1>1, <1>2, <1>3, <1>4, Zenon DEF Next

LEMMA UpgradeInvariant == Spec => []UpgradeInv
  <1>1. Init => UpgradeInv
    BY UpgradeInitially, Zenon
  <1>2. UpgradeInv /\ [Next]_vars => UpgradeInv'
    BY UpgradeInductive, Zenon
  <1> QED BY <1>1, <1>2, PTL DEF Spec

\* An upgrade proposal the tool reports as verified was followed by Root's
\* upgrade of the canister to its module (verify_sns_upgrade_live), for every
\* number of upgrades, of proposals and of other steps between two reads.
THEOREM VerifiedUpgradeAlwaysRan == Spec => []VerifiedUpgradeRan
  <1>1. UpgradeInv => VerifiedUpgradeRan
    <2> SUFFICES ASSUME UpgradeInv, NEW n \in DOMAIN report, report[n].kind = "sns"
                 PROVE  /\ rootRan[report[n].module] > 0
                        /\ rootRan[report[n].module] >= sns.proposals[report[n].id].at
      BY Zenon DEF VerifiedUpgradeRan, Reports
    <2>1. /\ report[n].module \in Modules /\ report[n].id \in 1..Len(sns.proposals)
          /\ sns.proposals[report[n].id].at > 0
          /\ rootRan[report[n].module] >= sns.proposals[report[n].id].at
      BY Zenon DEF UpgradeInv, Reported
    <2>2. sns.proposals[report[n].id].at \in Nat /\ rootRan[report[n].module] \in Nat
      BY <2>1, ProposalType, Zenon DEF UpgradeInv, UpgradeEnv
    <2> QED BY <2>1, <2>2
  <1> QED BY <1>1, UpgradeInvariant, PTL

\* An upgrade the installer's tool reports as complete is the one it sent, over
\* the module that was reviewed, and nothing sent can still run
\* (execute_production_canister_upgrade), whatever runs in between: as long as the
\* operator has kept to the wait asked for after an unresolved upgrade, which the
\* property assumes and no code enforces.  The wait only has to outlast a signed
\* update.
THEOREM ReportedUpgradeAlwaysSettled == Spec => []ReportedUpgradeSettled
  <1>1. UpgradeInv => ReportedUpgradeSettled
    BY Zenon DEF UpgradeInv, Reported, ReportedUpgradeSettled, Reports, Patient
  <1> QED BY <1>1, UpgradeInvariant, PTL

----------------------------------------------------------------------------
(* The activation commands *)

LiveSteps == {"Status", "Pending", "Management", "Attestation"}
ContextSteps == {"Lifecycle", "Attestation", "Status"}
OpenSteps == {"Activated", "OpenAttestation", "Open", "SealReceipt"}
ProofSteps == {"Lifecycle", "ReadAttestation", "Status", "Pending", "WriteSealReceipt"}
CallSteps == {"Fresh", "CallPrepare", "Answer", "WriteArtifact", "Bind"}
RecoverSteps == {"Recover", "WriteArtifact", "Bind"}
ReplaceSteps == {"ArtifactBound", "CallReplace", "WriteArtifact", "Bind"}
ConfirmSteps == {"ArtifactBound", "CallConfirm", "WriteConfirmation", "Refresh"}

LEMMA DriverSingles ==
  /\ Plan(<<"SealReceipt">>, {"SealReceipt"}, {})
  /\ Plan(<<"TryRefresh">>, {"TryRefresh"}, {})
  /\ Plan(<<"CallSeal">>, {"CallSeal"}, {})
  /\ Plan(<<"Stamp">>, {"Stamp"}, {"Stamp"})
  /\ Plan(<<"WriteAuthorization">>, {"WriteAuthorization"}, {})
  /\ Plan(<<"Authorized">>, {"Authorized"}, {})
  <1>1. {"SealReceipt", "TryRefresh", "CallSeal", "Stamp", "WriteAuthorization",
          "Authorized"} \subseteq Word
    BY DEF Word
  <1>2. /\ Part(<<"SealReceipt">>, {"SealReceipt"})
        /\ Part(<<"TryRefresh">>, {"TryRefresh"})
        /\ Part(<<"CallSeal">>, {"CallSeal"})
        /\ Part(<<"Stamp">>, {"Stamp"})
        /\ Part(<<"WriteAuthorization">>, {"WriteAuthorization"})
        /\ Part(<<"Authorized">>, {"Authorized"})
    BY <1>1, PartOne
  <1>3. \A y \in {"SealReceipt", "TryRefresh", "CallSeal", "WriteAuthorization",
          "Authorized"} : y \notin Needing
    BY DEF Needing
  <1> QED BY <1>2, <1>3, PlanSegment, Zenon


LEMMA VerifyLiveSegment == Plan(VerifyLive, LiveSteps, {})
  <1>1. LiveSteps \subseteq Word /\ \A x, y \in LiveSteps : ~NeverAfter(x, y)
    BY DEF LiveSteps, Word, NeverAfter
  <1>2. \A x \in Needing : x \notin LiveSteps
    BY DEF LiveSteps, Needing
  <1>3. Part(<<"Status", "Pending", "Management", "Attestation">>, LiveSteps)
    BY <1>1, PartFour, Zenon DEF LiveSteps
  <1> QED BY <1>2, <1>3, PlanSegment, Zenon DEF VerifyLive


LEMMA LiveContextSegment == Plan(LiveContext, ContextSteps, {})
  <1>1. ContextSteps \subseteq Word /\ \A x, y \in ContextSteps : ~NeverAfter(x, y)
    BY DEF ContextSteps, Word, NeverAfter
  <1>2. \A x \in Needing : x \notin ContextSteps
    BY DEF ContextSteps, Needing
  <1>3. Part(<<"Lifecycle", "Attestation", "Status">>, ContextSteps)
    BY <1>1, PartThree, Zenon DEF ContextSteps
  <1> QED BY <1>2, <1>3, PlanSegment, Zenon DEF LiveContext


LEMMA OpenSegment == Plan(<<"Activated", "OpenAttestation", "Open", "SealReceipt">>, OpenSteps, {})
  <1>1. OpenSteps \subseteq Word /\ \A x, y \in OpenSteps : ~NeverAfter(x, y)
    BY DEF OpenSteps, Word, NeverAfter
  <1>2. \A x \in Needing : x \notin OpenSteps
    BY DEF OpenSteps, Needing
  <1>3. Part(<<"Activated", "OpenAttestation", "Open", "SealReceipt">>, OpenSteps)
    BY <1>1, PartFour, Zenon DEF OpenSteps
  <1> QED BY <1>2, <1>3, PlanSegment, Zenon


LEMMA ConfirmSegment == Plan(<<"ArtifactBound", "CallConfirm", "WriteConfirmation", "Refresh">>,
    ConfirmSteps, {})
  <1>1. ConfirmSteps \subseteq Word /\ \A x, y \in ConfirmSteps : ~NeverAfter(x, y)
    BY DEF ConfirmSteps, Word, NeverAfter
  <1>2. \A x \in Needing : x \notin ConfirmSteps
    BY DEF ConfirmSteps, Needing
  <1>3. Part(<<"ArtifactBound", "CallConfirm", "WriteConfirmation", "Refresh">>, ConfirmSteps)
    BY <1>1, PartFour, Zenon DEF ConfirmSteps
  <1> QED BY <1>2, <1>3, PlanSegment, Zenon


LEMMA ProofSegment == Plan(<<"Lifecycle", "ReadAttestation", "Status", "Pending",
    "WriteSealReceipt">>, ProofSteps, {})
  <1>1. ProofSteps \subseteq Word
    BY DEF ProofSteps, Word
  <1>2. /\ ~NeverAfter("Lifecycle", "ReadAttestation") /\ ~NeverAfter("Status", "Pending")
        /\ ~NeverAfter("Status", "WriteSealReceipt") /\ ~NeverAfter("Pending", "WriteSealReceipt")
    BY DEF NeverAfter
  <1>3. Part(<<"Lifecycle", "ReadAttestation">>, {"Lifecycle", "ReadAttestation"})
          /\ Part(<<"Status", "Pending", "WriteSealReceipt">>,
               {"Status", "Pending", "WriteSealReceipt"})
    BY <1>1, <1>2, PartTwo, PartThree, Zenon DEF ProofSteps
  <1>4. \A x \in {"Lifecycle", "ReadAttestation"}, y \in {"Status", "Pending",
          "WriteSealReceipt"} : ~NeverAfter(x, y)
    BY DEF NeverAfter
  <1>5. Part(<<"Lifecycle", "ReadAttestation">> \o <<"Status", "Pending", "WriteSealReceipt">>,
          {"Lifecycle", "ReadAttestation"} \cup {"Status", "Pending", "WriteSealReceipt"})
    BY <1>3, <1>4, PartConcat, Zenon
  <1>6. <<"Lifecycle", "ReadAttestation", "Status", "Pending",
          "WriteSealReceipt">> = <<"Lifecycle", "ReadAttestation">>
            \o <<"Status", "Pending", "WriteSealReceipt">>
    OBVIOUS
  <1>7. ProofSteps = {"Lifecycle", "ReadAttestation"} \cup {"Status", "Pending",
          "WriteSealReceipt"} /\ \A x \in Needing : x \notin ProofSteps
    BY DEF ProofSteps, Needing
  <1> QED BY <1>5, <1>6, <1>7, PlanSegment, Zenon


LEMMA CallSegment == Plan(<<"Fresh", "CallPrepare", "Answer", "WriteArtifact", "Bind">>, CallSteps,
    {})
  <1>1. CallSteps \subseteq Word
    BY DEF CallSteps, Word
  <1>2. /\ ~NeverAfter("Fresh", "CallPrepare") /\ ~NeverAfter("Answer", "WriteArtifact")
        /\ ~NeverAfter("Answer", "Bind") /\ ~NeverAfter("WriteArtifact", "Bind")
    BY DEF NeverAfter
  <1>3. Part(<<"Fresh", "CallPrepare">>, {"Fresh", "CallPrepare"})
          /\ Part(<<"Answer", "WriteArtifact", "Bind">>, {"Answer", "WriteArtifact", "Bind"})
    BY <1>1, <1>2, PartTwo, PartThree, Zenon DEF CallSteps
  <1>4. \A x \in {"Fresh", "CallPrepare"}, y \in {"Answer", "WriteArtifact",
          "Bind"} : ~NeverAfter(x, y)
    BY DEF NeverAfter
  <1>5. Part(<<"Fresh", "CallPrepare">> \o <<"Answer", "WriteArtifact", "Bind">>,
          {"Fresh", "CallPrepare"} \cup {"Answer", "WriteArtifact", "Bind"})
    BY <1>3, <1>4, PartConcat, Zenon
  <1>6. <<"Fresh", "CallPrepare", "Answer", "WriteArtifact", "Bind">> = <<"Fresh", "CallPrepare">>
          \o <<"Answer", "WriteArtifact", "Bind">>
    OBVIOUS
  <1>7. CallSteps = {"Fresh", "CallPrepare"} \cup {"Answer", "WriteArtifact", "Bind"}
          /\ \A x \in Needing : x \notin CallSteps
    BY DEF CallSteps, Needing
  <1> QED BY <1>5, <1>6, <1>7, PlanSegment, Zenon


LEMMA RecoverSegment == Plan(<<"Recover", "WriteArtifact", "Bind">>, RecoverSteps, {})
  <1>1. RecoverSteps \subseteq Word
    BY DEF RecoverSteps, Word
  <1>2. /\ ~NeverAfter("Recover", "WriteArtifact") /\ ~NeverAfter("Recover", "Bind")
        /\ ~NeverAfter("WriteArtifact", "Bind")
    BY DEF NeverAfter
  <1>3. Part(<<"Recover", "WriteArtifact", "Bind">>, RecoverSteps)
    BY <1>1, <1>2, PartThree, Zenon DEF RecoverSteps
  <1>4. \A x \in Needing : x \notin RecoverSteps
    BY DEF RecoverSteps, Needing
  <1> QED BY <1>3, <1>4, PlanSegment, Zenon

LEMMA ReplaceSegment ==
  Plan(<<"ArtifactBound", "CallReplace", "WriteArtifact", "Bind">>, ReplaceSteps, {})
  <1>1. ReplaceSteps \subseteq Word
    BY DEF ReplaceSteps, Word
  <1>2. /\ ~NeverAfter("ArtifactBound", "CallReplace") /\ ~NeverAfter("WriteArtifact", "Bind")
    BY DEF NeverAfter
  <1>3. /\ Plan(<<"ArtifactBound", "CallReplace">>, {"ArtifactBound", "CallReplace"},
             {"CallReplace"})
        /\ Plan(<<"WriteArtifact", "Bind">>, {"WriteArtifact", "Bind"}, {})
    <2>1. /\ Part(<<"ArtifactBound", "CallReplace">>, {"ArtifactBound", "CallReplace"})
          /\ Part(<<"WriteArtifact", "Bind">>, {"WriteArtifact", "Bind"})
      BY <1>1, <1>2, PartTwo, Zenon DEF ReplaceSteps
    <2>2. "ArtifactBound" \notin Needing /\ "WriteArtifact" \notin Needing /\ "Bind" \notin Needing
      BY DEF Needing
    <2> QED BY <2>1, <2>2, PlanSegment, Zenon
  <1>4. Fits({"ArtifactBound", "CallReplace"}, {"CallReplace"}, {"WriteArtifact", "Bind"}, {}, {})
    BY DEF Fits, NeverAfter, Needed
  <1>5. Plan(<<"ArtifactBound", "CallReplace">> \o <<"WriteArtifact", "Bind">>,
             {"ArtifactBound", "CallReplace"} \cup {"WriteArtifact", "Bind"}, {})
    BY <1>3, <1>4, PlanConcat, Zenon
  <1>6. /\ <<"ArtifactBound", "CallReplace", "WriteArtifact", "Bind">> =
             <<"ArtifactBound", "CallReplace">> \o <<"WriteArtifact", "Bind">>
        /\ ReplaceSteps = {"ArtifactBound", "CallReplace"} \cup {"WriteArtifact", "Bind"}
    BY DEF ReplaceSteps
  <1> QED BY <1>5, <1>6, Zenon

LEMMA ReceiptSegment == Plan(<<"StatusMatches", "WriteReceipt">>,
    {"StatusMatches", "WriteReceipt"}, {})
  <1>1. "StatusMatches" \in Word /\ "WriteReceipt" \in Word
          /\ ~NeverAfter("StatusMatches", "WriteReceipt")
    BY DEF Word, NeverAfter
  <1>2. Part(<<"StatusMatches", "WriteReceipt">>, {"StatusMatches", "WriteReceipt"})
    BY <1>1, PartTwo, Zenon
  <1>3. "StatusMatches" \notin Needing /\ "WriteReceipt" \notin Needing
    BY DEF Needing
  <1> QED BY <1>2, <1>3, PlanSegment, Zenon

LEMMA ScheduleLiveSegment ==
  Plan(<<"ScheduleLive", "Management">>, {"ScheduleLive", "Management"}, {})
  <1>1. "ScheduleLive" \in Word /\ "Management" \in Word
          /\ ~NeverAfter("ScheduleLive", "Management")
    BY DEF Word, NeverAfter
  <1>2. Part(<<"ScheduleLive", "Management">>, {"ScheduleLive", "Management"})
    BY <1>1, PartTwo, Zenon
  <1>3. "ScheduleLive" \notin Needing /\ "Management" \notin Needing
    BY DEF Needing
  <1> QED BY <1>2, <1>3, PlanSegment, Zenon

LEMMA ProveSealPlan == Plan(ProveSeal, LiveSteps \cup ProofSteps, {})
  <1> DEFINE Q1 == VerifyLive \o <<"Lifecycle", "ReadAttestation", "Status", "Pending",
        "WriteSealReceipt">>
  <1>1. Plan(Q1, LiveSteps \cup ProofSteps, {})
    <2>1. Fits(LiveSteps, {}, ProofSteps, {}, {})
      BY ONLY DEF LiveSteps, ProofSteps, Fits, NeverAfter, Needed
    <2> QED BY VerifyLiveSegment, ProofSegment, <2>1, PlanConcat, Zenon
  <1> QED BY <1>1, Zenon DEF Q1, ProveSeal

LEMMA SealPlan == Plan(SealCall \o ProveSeal, {"CallSeal"} \cup (LiveSteps \cup ProofSteps), {})
  <1> DEFINE Q1 == <<"CallSeal">> \o ProveSeal
  <1>1. Plan(Q1, {"CallSeal"} \cup (LiveSteps \cup ProofSteps), {})
    <2>1. Fits({"CallSeal"}, {}, (LiveSteps \cup ProofSteps), {}, {})
      BY ONLY DEF LiveSteps, ProofSteps, Fits, NeverAfter, Needed
    <2> QED BY DriverSingles, ProveSealPlan, <2>1, PlanConcat, Zenon
  <1> QED BY <1>1, Zenon DEF Q1, SealCall

LEMMA ResumePlan == Plan(Resume, ContextSteps \cup {"SealReceipt"}, {})
  <1> DEFINE Q1 == LiveContext \o <<"SealReceipt">>
  <1>1. Plan(Q1, ContextSteps \cup {"SealReceipt"}, {})
    <2>1. Fits(ContextSteps, {}, {"SealReceipt"}, {}, {})
      BY ONLY DEF ContextSteps, Fits, NeverAfter, Needed
    <2> QED BY LiveContextSegment, DriverSingles, <2>1, PlanConcat, Zenon
  <1> QED BY <1>1, Zenon DEF Q1, Resume

LEMMA VerifyAuthorizationPlan == Plan(VerifyAuthorization, (ContextSteps \cup {"SealReceipt"})
    \cup {"Authorized"}, {})
  <1> DEFINE Q1 == Resume \o <<"Authorized">>
  <1>1. Plan(Q1, (ContextSteps \cup {"SealReceipt"}) \cup {"Authorized"}, {})
    <2>1. Fits((ContextSteps \cup {"SealReceipt"}), {}, {"Authorized"}, {}, {})
      BY ONLY DEF ContextSteps, Fits, NeverAfter, Needed
    <2> QED BY ResumePlan, DriverSingles, <2>1, PlanConcat, Zenon
  <1> QED BY <1>1, Zenon DEF Q1, VerifyAuthorization

LEMMA PrepareCallPlan == Plan(PrepareCall, ((ContextSteps \cup {"SealReceipt"})
    \cup {"Authorized"}) \cup CallSteps, {})
  <1> DEFINE Q1 == VerifyAuthorization \o <<"Fresh", "CallPrepare", "Answer", "WriteArtifact",
        "Bind">>
  <1>1. Plan(Q1, ((ContextSteps \cup {"SealReceipt"}) \cup {"Authorized"}) \cup CallSteps, {})
    <2>1. Fits(((ContextSteps \cup {"SealReceipt"}) \cup {"Authorized"}), {}, CallSteps, {}, {})
      BY ONLY DEF CallSteps, ContextSteps, Fits, NeverAfter, Needed
    <2> QED BY VerifyAuthorizationPlan, CallSegment, <2>1, PlanConcat, Zenon
  <1> QED BY <1>1, Zenon DEF Q1, PrepareCall

LEMMA PrepareAgainPlan == Plan(PrepareAgain, ((ContextSteps \cup {"SealReceipt"})
    \cup {"Authorized"}) \cup RecoverSteps, {})
  <1> DEFINE Q1 == VerifyAuthorization \o <<"Recover", "WriteArtifact", "Bind">>
  <1>1. Plan(Q1, ((ContextSteps \cup {"SealReceipt"}) \cup {"Authorized"}) \cup RecoverSteps, {})
    <2>1. Fits(((ContextSteps \cup {"SealReceipt"}) \cup {"Authorized"}), {}, RecoverSteps, {}, {})
      BY ONLY DEF ContextSteps, RecoverSteps, Fits, NeverAfter, Needed
    <2> QED BY VerifyAuthorizationPlan, RecoverSegment, <2>1, PlanConcat, Zenon
  <1> QED BY <1>1, Zenon DEF Q1, PrepareAgain

LEMMA ReplacementPlan == Plan(Replacement, ((ContextSteps \cup {"SealReceipt"})
    \cup {"Authorized"}) \cup ContextSteps \cup ReplaceSteps, {})
  <1> DEFINE Q1 == VerifyAuthorization \o LiveContext
             Q2 == Q1 \o <<"ArtifactBound", "CallReplace", "WriteArtifact", "Bind">>
  <1>1. Plan(Q1, ((ContextSteps \cup {"SealReceipt"}) \cup {"Authorized"}) \cup ContextSteps, {})
    <2>1. Fits(((ContextSteps \cup {"SealReceipt"}) \cup {"Authorized"}), {}, ContextSteps, {}, {})
      BY ONLY DEF ContextSteps, Fits, NeverAfter, Needed
    <2> QED BY VerifyAuthorizationPlan, LiveContextSegment, <2>1, PlanConcat, Zenon
  <1> HIDE DEF Q1
  <1>2. Plan(Q2, ((ContextSteps \cup {"SealReceipt"}) \cup {"Authorized"}) \cup ContextSteps
          \cup ReplaceSteps, {})
    <2>1. Fits(((ContextSteps \cup {"SealReceipt"}) \cup {"Authorized"}) \cup ContextSteps, {},
            ReplaceSteps, {}, {})
      BY ONLY DEF ContextSteps, ReplaceSteps, Fits, NeverAfter, Needed
    <2> QED BY <1>1, ReplaceSegment, <2>1, PlanConcat, Zenon
  <1> QED BY <1>2, Zenon DEF Q1, Q2, Replacement

LEMMA PrePreparePlan == Plan(PrePrepare, LiveSteps \cup {"SealReceipt"}, {})
  <1> DEFINE Q1 == VerifyLive \o <<"SealReceipt">>
  <1>1. Plan(Q1, LiveSteps \cup {"SealReceipt"}, {})
    <2>1. Fits(LiveSteps, {}, {"SealReceipt"}, {}, {})
      BY ONLY DEF LiveSteps, Fits, NeverAfter, Needed
    <2> QED BY VerifyLiveSegment, DriverSingles, <2>1, PlanConcat, Zenon
  <1> QED BY <1>1, Zenon DEF Q1, PrePrepare

LEMMA AuthorizePlan == Plan(Authorize, (LiveSteps \cup {"SealReceipt"}) \cup {"Stamp"}
    \cup LiveSteps \cup {"WriteAuthorization"}, {})
  <1> DEFINE Q1 == PrePrepare \o <<"Stamp">>
             Q2 == Q1 \o VerifyLive
             Q3 == Q2 \o <<"WriteAuthorization">>
  <1>1. Plan(Q1, (LiveSteps \cup {"SealReceipt"}) \cup {"Stamp"}, {"Stamp"})
    <2>1. Fits((LiveSteps \cup {"SealReceipt"}), {}, {"Stamp"}, {"Stamp"}, {"Stamp"})
      BY ONLY DEF LiveSteps, Fits, NeverAfter, Needed
    <2> QED BY PrePreparePlan, DriverSingles, <2>1, PlanConcat, Zenon
  <1> HIDE DEF Q1
  <1>2. Plan(Q2, (LiveSteps \cup {"SealReceipt"}) \cup {"Stamp"} \cup LiveSteps, {})
    <2>1. Fits((LiveSteps \cup {"SealReceipt"}) \cup {"Stamp"}, {"Stamp"}, LiveSteps, {}, {})
      BY ONLY DEF LiveSteps, Fits, NeverAfter, Needed
    <2> QED BY <1>1, VerifyLiveSegment, <2>1, PlanConcat, Zenon
  <1> HIDE DEF Q2
  <1>3. Plan(Q3, (LiveSteps \cup {"SealReceipt"}) \cup {"Stamp"} \cup LiveSteps
          \cup {"WriteAuthorization"}, {})
    <2>1. Fits((LiveSteps \cup {"SealReceipt"}) \cup {"Stamp"} \cup LiveSteps, {},
            {"WriteAuthorization"}, {}, {})
      BY ONLY DEF LiveSteps, Fits, NeverAfter, Needed
    <2> QED BY <1>2, DriverSingles, <2>1, PlanConcat, Zenon
  <1> QED BY <1>3, Zenon DEF Q1, Q2, Q3, Authorize

GateSteps ==
  LiveSteps \cup ContextSteps \cup {"TryRefresh", "SealReceipt", "ScheduleLive"}
AuthorizeSteps ==
  (LiveSteps \cup {"SealReceipt"}) \cup {"Stamp"} \cup LiveSteps \cup {"WriteAuthorization"}
PrepareSteps == ((ContextSteps \cup {"SealReceipt"}) \cup {"Authorized"}) \cup CallSteps
FinalSteps == ContextSteps \cup OpenSteps

LEMMA FitsLess ==
  ASSUME NEW S, NEW S2, S2 \subseteq S, NEW T, NEW T2, T2 \subseteq T, Fits(S, {}, T, {}, {})
  PROVE  Fits(S2, {}, T2, {}, {})
  BY Zenon DEF Fits

LEMMA GatePlan ==
  ASSUME NEW phase \in Phases
  PROVE  \E G \in SUBSET GateSteps : Plan(GateLive(phase), G, {})
  <1>1. Plan(<<"TryRefresh">> \o VerifyLive, {"TryRefresh"} \cup LiveSteps, {})
    <2>1. Fits({"TryRefresh"}, {}, LiveSteps, {}, {})
      BY ONLY DEF Fits, LiveSteps, NeverAfter
    <2> QED BY <2>1, DriverSingles, VerifyLiveSegment, PlanConcat, Zenon
  <1>2. CASE phase = "execute"
    <2>1. Fits(ContextSteps \cup {"SealReceipt"}, {}, {"ScheduleLive", "Management"}, {}, {})
      BY ONLY DEF Fits, ContextSteps, NeverAfter
    <2>2. Plan(Resume \o <<"ScheduleLive", "Management">>,
               ContextSteps \cup {"SealReceipt"} \cup {"ScheduleLive", "Management"}, {})
      BY <2>1, ResumePlan, ScheduleLiveSegment, PlanConcat, Zenon
    <2>3. Fits({"TryRefresh"} \cup LiveSteps, {},
               ContextSteps \cup {"SealReceipt"} \cup {"ScheduleLive", "Management"}, {}, {})
      BY ONLY DEF Fits, ContextSteps, LiveSteps, NeverAfter
    <2>4. Plan((<<"TryRefresh">> \o VerifyLive) \o (Resume \o <<"ScheduleLive", "Management">>),
               ({"TryRefresh"} \cup LiveSteps)
                 \cup (ContextSteps \cup {"SealReceipt"} \cup {"ScheduleLive", "Management"}), {})
      BY <1>1, <2>2, <2>3, PlanConcat, Zenon
    <2>5. GateLive(phase) =
            (<<"TryRefresh">> \o VerifyLive) \o (Resume \o <<"ScheduleLive", "Management">>)
      BY <1>2, Zenon DEF GateLive
    <2>6. ({"TryRefresh"} \cup LiveSteps)
            \cup (ContextSteps \cup {"SealReceipt"} \cup {"ScheduleLive",
              "Management"}) \in SUBSET GateSteps
      BY DEF GateSteps, LiveSteps, ContextSteps
    <2> QED BY <2>4, <2>5, <2>6, Zenon
  <1>3. CASE phase = "schedule"
    <2>1. Plan(<<>>, {}, {})
      BY NothingLeft, Zenon DEF WellPlanned, Plan, Part
    <2>2. Fits({"TryRefresh"} \cup LiveSteps, {}, {}, {}, {})
      BY ONLY Zenon DEF Fits
    <2>3. Plan((<<"TryRefresh">> \o VerifyLive) \o <<>>, ({"TryRefresh"} \cup LiveSteps) \cup {},
            {})
      BY <1>1, <2>1, <2>2, PlanConcat, Zenon
    <2>4. GateLive(phase) = (<<"TryRefresh">> \o VerifyLive) \o <<>>
      <3>1. phase # "execute"
        BY <1>3
      <3> QED BY <3>1, Zenon DEF GateLive
    <2>5. ({"TryRefresh"} \cup LiveSteps) \cup {} \in SUBSET GateSteps
      BY DEF GateSteps, LiveSteps
    <2> QED BY <2>3, <2>4, <2>5, Zenon
  <1> QED BY <1>2, <1>3, Zenon DEF Phases

LEMMA PrepareNewPlan ==
  ASSUME NEW phase \in Phases
  PROVE  \E G \in SUBSET GateSteps :
           Plan(PrepareNew(phase), G \cup AuthorizeSteps \cup PrepareSteps, {})
  <1>1. PICK G \in SUBSET GateSteps : Plan(GateLive(phase), G, {})
    BY GatePlan, Zenon
  <1>2. Fits(GateSteps, {}, AuthorizeSteps, {}, {})
    BY ONLY DEF Fits, GateSteps, AuthorizeSteps, LiveSteps, ContextSteps, NeverAfter
  <1>3. Fits(GateSteps \cup AuthorizeSteps, {}, PrepareSteps, {}, {})
    BY ONLY DEF Fits, GateSteps, AuthorizeSteps, PrepareSteps, LiveSteps, ContextSteps, CallSteps,
                NeverAfter
  <1>4. Fits(G, {}, AuthorizeSteps, {}, {}) /\ Fits(G \cup AuthorizeSteps, {}, PrepareSteps, {}, {})
    BY <1>2, <1>3, FitsLess, Zenon
  <1>5. Plan(GateLive(phase) \o Authorize, G \cup AuthorizeSteps, {})
    BY <1>1, <1>4, AuthorizePlan, PlanConcat, Zenon DEF AuthorizeSteps
  <1>6. Plan((GateLive(phase) \o Authorize) \o PrepareCall, (G \cup AuthorizeSteps)
          \cup PrepareSteps, {})
    BY <1>4, <1>5, PrepareCallPlan, PlanConcat, Zenon DEF PrepareSteps
  <1> QED BY <1>6, Zenon DEF PrepareNew

LEMMA PrepareUnrecoveredPlan ==
  ASSUME NEW phase \in Phases
  PROVE  \E G \in SUBSET GateSteps : Plan(PrepareUnrecovered(phase), G \cup PrepareSteps, {})
  <1>1. PICK G \in SUBSET GateSteps : Plan(GateLive(phase), G, {})
    BY GatePlan, Zenon
  <1>2. Fits(GateSteps, {}, PrepareSteps, {}, {})
    BY ONLY DEF Fits, GateSteps, PrepareSteps, LiveSteps, ContextSteps, CallSteps, NeverAfter
  <1>3. Fits(G, {}, PrepareSteps, {}, {})
    BY <1>2, FitsLess, Zenon
  <1>4. Plan(GateLive(phase) \o PrepareCall, G \cup PrepareSteps, {})
    BY <1>1, <1>3, PrepareCallPlan, PlanConcat, Zenon DEF PrepareSteps
  <1> QED BY <1>4, Zenon DEF PrepareUnrecovered

LEMMA ConfirmationPlan ==
  ASSUME NEW phase \in Phases
  PROVE  \E F \in SUBSET FinalSteps :
           Plan(Confirmation(phase), ConfirmSteps \cup F \cup {"StatusMatches", "WriteReceipt"}, {})
  <1>1. PICK F \in SUBSET FinalSteps : Plan(Finalization(phase), F, {})
    <2>1. CASE phase = "schedule"
      <3>1. ContextSteps \cup {"SealReceipt"} \in SUBSET FinalSteps
        BY DEF FinalSteps, OpenSteps
      <3> QED BY <2>1, <3>1, ResumePlan, Zenon DEF Finalization
    <2>2. CASE phase # "schedule"
      <3>1. OpenSteps \in SUBSET FinalSteps
        BY DEF FinalSteps
      <3> QED BY <2>2, <3>1, OpenSegment, Zenon DEF Finalization
    <2> QED BY <2>1, <2>2, Zenon
  <1>2. Fits(ConfirmSteps, {}, FinalSteps, {}, {})
    BY ONLY DEF Fits, ConfirmSteps, FinalSteps, ContextSteps, OpenSteps, NeverAfter
  <1>3. Fits(ConfirmSteps \cup FinalSteps, {}, {"StatusMatches", "WriteReceipt"}, {}, {})
    BY ONLY DEF Fits, ConfirmSteps, FinalSteps, ContextSteps, OpenSteps, NeverAfter
  <1>4. /\ Fits(ConfirmSteps, {}, F, {}, {})
        /\ Fits(ConfirmSteps \cup F, {}, {"StatusMatches", "WriteReceipt"}, {}, {})
    BY <1>2, <1>3, FitsLess, Zenon
  <1>5. Plan(<<"ArtifactBound", "CallConfirm", "WriteConfirmation", "Refresh">>
          \o Finalization(phase),
             ConfirmSteps \cup F, {})
    BY <1>1, <1>4, ConfirmSegment, PlanConcat, Zenon
  <1>6. Plan((<<"ArtifactBound", "CallConfirm", "WriteConfirmation", "Refresh">>
          \o Finalization(phase))
               \o <<"StatusMatches", "WriteReceipt">>,
             (ConfirmSteps \cup F) \cup {"StatusMatches", "WriteReceipt"}, {})
    BY <1>4, <1>5, ReceiptSegment, PlanConcat, Zenon
  <1> QED BY <1>6, Zenon DEF Confirmation

----------------------------------------------------------------------------
(* What the calls do to the canister *)

\* What the invariant needs to know of a step of the canister: no attempt gets
\* older than it was.
Follows(c, d) ==
  CanisterOk(d) /\ \A a \in Nat : a <= now /\ SignedSince(c, a) => SignedSince(d, a)

LEMMA FollowsSame ==
  ASSUME NEW c, NEW d, CanisterOk(c), DOMAIN d = CanisterFields, d.tx = c.tx \/ d.tx = None,
         d.timelock = c.timelock \/ d.timelock = None,
         d.nextId = c.nextId, d.attestedAt = c.attestedAt \/ d.attestedAt = now, now \in Nat
  PROVE  Follows(c, d)
  <1>1. None \in Seq(Transaction) /\ None \in Seq(Nat)
    BY DEF None
  <1>2. CanisterOk(d)
    BY <1>1, Zenon DEF CanisterOk
  <1>3. \A a \in Nat : a <= now /\ SignedSince(c, a) => SignedSince(d, a)
    BY Zenon DEF SignedSince
  <1> QED BY <1>2, <1>3, Zenon DEF Follows

LEMMA SealedFollows ==
  ASSUME NEW c, CanisterOk(c), now \in Nat PROVE Follows(c, Sealed(c))
  <1>1. PICK d : d = Sealed(c)
    BY Zenon
  <1>2. /\ DOMAIN d = CanisterFields /\ d.tx = c.tx /\ d.timelock = c.timelock
        /\ d.nextId = c.nextId /\ (d.attestedAt = c.attestedAt \/ d.attestedAt = now)
    BY <1>1 DEF Sealed, CanisterOk, CanisterFields
  <1>3. Follows(c, d)
    BY <1>2, FollowsSame, Zenon
  <1> QED BY <1>1, <1>3, Zenon

LEMMA AttestedFollows ==
  ASSUME NEW c, CanisterOk(c), now \in Nat PROVE Follows(c, Attested(c))
  <1>1. PICK d : d = Attested(c)
    BY Zenon
  <1>2. /\ DOMAIN d = CanisterFields /\ d.tx = c.tx /\ d.timelock = c.timelock
        /\ d.nextId = c.nextId /\ d.attestedAt = now
    BY <1>1 DEF Attested, CanisterOk, CanisterFields
  <1>3. Follows(c, d)
    BY <1>2, FollowsSame, Zenon
  <1> QED BY <1>1, <1>3, Zenon

LEMMA AbortedFollows ==
  ASSUME NEW c, CanisterOk(c), now \in Nat PROVE Follows(c, Aborted(c))
  <1>1. PICK d : d = Aborted(c)
    BY Zenon
  <1>2. /\ DOMAIN d = CanisterFields /\ d.tx = None
        /\ (d.timelock = c.timelock \/ d.timelock = None)
        /\ d.nextId = c.nextId /\ d.attestedAt = c.attestedAt
    <2>1. PICK t : t = IF c.tx[1].phase = "schedule" THEN None ELSE c.timelock
      BY Zenon
    <2>2. d = [c EXCEPT !.tx = None, !.timelock = t] /\ (t = c.timelock \/ t = None)
      BY <1>1, <2>1, Zenon DEF Aborted
    <2>3. DOMAIN c = CanisterFields
      BY Zenon DEF CanisterOk
    <2> QED BY ONLY <2>2, <2>3 DEF CanisterFields
  <1>3. Follows(c, d)
    BY <1>2, FollowsSame, Zenon
  <1> QED BY <1>1, <1>3, Zenon

LEMMA PauseFollows ==
  ASSUME NEW c, CanisterOk(c), now \in Nat
  PROVE  Follows(c, [c EXCEPT !.emergency = TRUE, !.paused = TRUE])
  <1>1. PICK d : d = [c EXCEPT !.emergency = TRUE, !.paused = TRUE]
    BY Zenon
  <1>2. /\ DOMAIN d = CanisterFields /\ d.tx = c.tx /\ d.timelock = c.timelock
        /\ d.nextId = c.nextId /\ d.attestedAt = c.attestedAt
    BY <1>1 DEF CanisterOk, CanisterFields
  <1>3. Follows(c, d)
    BY <1>2, FollowsSame, Zenon
  <1> QED BY <1>1, <1>3, Zenon

LEMMA ConfirmedFollows ==
  ASSUME NEW c, CanisterOk(c), now \in Nat, NEW gen, NEW ok
  PROVE  Follows(c, Confirmed(c, gen, ok))
  <1>1. PICK done, last, s, r, d :
          /\ s = [c EXCEPT !.tx = None, !.done = done]
          /\ r = [s EXCEPT !.last = last]
          /\ d = Confirmed(c, gen, ok)
          /\ \/ d = r \/ d = [s EXCEPT !.timelock = None] \/ d = s
             \/ d = [r EXCEPT !.timelock = None, !.paused = c.emergency, !.lifecycle = "Activated"]
    <2> DEFINE tx == c.tx[1]
               D == c.done \cup {[id |-> tx.id, gen |-> gen, ok |-> ok]}
               S == [c EXCEPT !.tx = None, !.done = D]
               R == [S EXCEPT !.last = <<Artifact(tx, gen)>>]
    <2>1. Confirmed(c, gen, ok) =
            IF tx.phase = "schedule" THEN IF ok THEN R ELSE [S EXCEPT !.timelock = None]
            ELSE IF ~ok THEN S
            ELSE [R EXCEPT !.timelock = None, !.paused = c.emergency, !.lifecycle = "Activated"]
      BY DEF Confirmed
    <2>2. PICK done, last : done = D /\ last = <<Artifact(tx, gen)>>
      BY Zenon
    <2>3. PICK s, r : s = S /\ r = R
      BY Zenon
    <2>4. s = [c EXCEPT !.tx = None, !.done = done] /\ r = [s EXCEPT !.last = last]
      BY <2>2, <2>3, Zenon
    <2> HIDE DEF S, R, D, tx
    <2>5. PICK d : d = Confirmed(c, gen, ok)
      BY Zenon
    <2>6. \/ d = r \/ d = [s EXCEPT !.timelock = None] \/ d = s
          \/ d = [r EXCEPT !.timelock = None, !.paused = c.emergency, !.lifecycle = "Activated"]
      BY <2>1, <2>3, <2>5, Zenon
    <2> QED BY <2>4, <2>5, <2>6, Zenon
  <1>2. DOMAIN c = CanisterFields
    BY Zenon DEF CanisterOk
  <1>3. /\ DOMAIN s = CanisterFields /\ s.tx = None /\ s.timelock = c.timelock
        /\ s.nextId = c.nextId /\ s.attestedAt = c.attestedAt
    BY ONLY <1>1, <1>2 DEF CanisterFields
  <1>4. /\ DOMAIN r = CanisterFields /\ r.tx = None /\ r.timelock = c.timelock
        /\ r.nextId = c.nextId /\ r.attestedAt = c.attestedAt
    BY ONLY <1>1, <1>3 DEF CanisterFields
  <1>5. /\ DOMAIN d = CanisterFields /\ d.tx = None
        /\ (d.timelock = c.timelock \/ d.timelock = None)
        /\ d.nextId = c.nextId /\ d.attestedAt = c.attestedAt
    BY ONLY <1>1, <1>3, <1>4, Zenon DEF CanisterFields
  <1>6. Follows(c, d)
    BY <1>5, FollowsSame, Zenon
  <1> QED BY <1>1, <1>6, Zenon

\* A new transaction has no attempt yet.
LEMMA PreparedFollows ==
  ASSUME NEW c, CanisterOk(c), now \in Nat, NEW phase \in Phases,
         c.tx # None \/ (phase = "schedule") = (c.timelock = None)
  PROVE  Follows(c, Prepared(c, phase))
  <1>1. CASE c.tx # None
    <2>1. Prepared(c, phase) = c
      BY <1>1, Zenon DEF Prepared
    <2> QED BY <2>1, FollowsSame, Zenon DEF CanisterOk
  <1>2. CASE c.tx = None
    <2>1. PICK op, t, d : /\ op = (IF phase = "schedule" THEN c.nextId ELSE c.timelock[1])
                          /\ t = [phase |-> phase, id |-> c.nextId, op |-> op, attempts |-> <<>>]
                          /\ d = [c EXCEPT !.tx = <<t>>, !.timelock = <<op>>, !.nextId = @ + 1]
      BY Zenon
    <2>2. Prepared(c, phase) = d
      BY <1>2, <2>1 DEF Prepared
    <2>3. op \in Nat
      BY <1>2, <2>1 DEF CanisterOk, None, Phases
    <2>4. t \in Transaction /\ t.attempts = <<>>
      BY <2>1, <2>3 DEF Transaction, CanisterOk
    <2>5. /\ DOMAIN d = CanisterFields /\ d.tx = <<t>> /\ d.timelock = <<op>>
          /\ d.nextId = c.nextId + 1 /\ d.attestedAt = c.attestedAt
      BY ONLY <2>1, CanisterOk(c) DEF CanisterOk, CanisterFields
    <2>6. <<t>> \in Seq(Transaction) /\ <<op>> \in Seq(Nat) /\ c.nextId + 1 \in Nat
      BY <2>3, <2>4 DEF CanisterOk
    <2>7. CanisterOk(d)
      BY <2>5, <2>6, Zenon DEF CanisterOk
    <2>8. \A a \in Nat : SignedSince(d, a)
      <3>1. d.tx[1] = t /\ Len(t.attempts) = 0 /\ 1..0 = {}
        BY <2>4, <2>5
      <3> QED BY <3>1, Zenon DEF SignedSince
    <2> QED BY <2>2, <2>7, <2>8, Zenon DEF Follows
  <1> QED BY <1>1, <1>2, Zenon

\* A new attempt is signed now.
LEMMA SignedNowFollows ==
  ASSUME NEW c, CanisterOk(c), now \in Nat, c.tx # None
  PROVE  /\ Follows(c, SignedNow(c)) /\ SignedNow(c).tx # None
         /\ SignedNow(c).tx[1].phase = c.tx[1].phase /\ Signed(SignedNow(c).tx[1])
  <1>1. PICK o, q, t, d : /\ o = c.tx[1] /\ q = Append(o.attempts, now)
                          /\ t = [o EXCEPT !.attempts = q]
                          /\ d = [c EXCEPT !.tx = <<t>>]
    BY Zenon
  <1>2. SignedNow(c) = d
    BY <1>1 DEF SignedNow
  <1>3. o \in Transaction
    <2>1. c.tx \in Seq(Transaction)
      BY Zenon DEF CanisterOk
    <2>2. c.tx[1] \in Transaction
      BY ONLY <2>1, c.tx # None DEF None
    <2> QED BY <1>1, <2>2, Zenon
  <1>4. o.attempts \in Seq(Nat)
    BY <1>3 DEF Transaction
  <1>5. /\ q \in Seq(Nat) /\ Len(q) = Len(o.attempts) + 1 /\ Len(o.attempts) \in Nat
        /\ q[Len(o.attempts) + 1] = now /\ \A i \in 1..Len(o.attempts) : q[i] = o.attempts[i]
    <2>1. PICK p : p = o.attempts
      BY Zenon
    <2>2. p \in Seq(Nat) /\ q = Append(p, now)
      BY <1>1, <1>4, <2>1, Zenon
    <2>3. /\ q \in Seq(Nat) /\ Len(q) = Len(p) + 1 /\ Len(p) \in Nat
          /\ q[Len(p) + 1] = now /\ \A i \in 1..Len(p) : q[i] = p[i]
      BY ONLY <2>2, now \in Nat
    <2> QED BY <2>1, <2>3, Zenon
  <1>6. t \in Transaction /\ t.attempts = q /\ t.phase = o.phase
    <2>1. PICK N : N = Seq(Nat)
      BY Zenon
    <2>2. t = [o EXCEPT !.attempts = q] /\ q \in N
          /\ o \in [phase : Phases, id : Nat, op : Nat, attempts : N]
      BY <1>1, <1>3, <1>5, <2>1, Zenon DEF Transaction
    <2>3. t \in [phase : Phases, id : Nat, op : Nat, attempts : N] /\ t.attempts = q
          /\ t.phase = o.phase
      BY ONLY <2>2
    <2> QED BY <2>1, <2>3, Zenon DEF Transaction
  <1>7. /\ DOMAIN d = CanisterFields /\ d.tx = <<t>> /\ d.timelock = c.timelock
        /\ d.nextId = c.nextId /\ d.attestedAt = c.attestedAt
    <2>1. DOMAIN c = CanisterFields /\ d = [c EXCEPT !.tx = <<t>>]
      BY <1>1, Zenon DEF CanisterOk
    <2> QED BY ONLY <2>1 DEF CanisterFields
  <1>8. <<t>> \in Seq(Transaction) /\ <<t>>[1] = t /\ <<t>> # None
    BY <1>6 DEF None
  <1>9. CanisterOk(d)
    BY <1>7, <1>8, Zenon DEF CanisterOk
  <1>10. ASSUME NEW a \in Nat, a <= now, SignedSince(c, a) PROVE SignedSince(d, a)
    <2>1. \A i \in 1..Len(o.attempts) : a <= o.attempts[i]
      BY <1>1, <1>10, Zenon DEF SignedSince
    <2>2. \A i \in 1..Len(q) : i \in 1..Len(o.attempts) \/ i = Len(o.attempts) + 1
      BY <1>5
    <2>3. \A i \in 1..Len(q) : a <= q[i]
      BY <1>5, <1>10, <2>1, <2>2, Zenon
    <2> QED BY <1>6, <1>7, <1>8, <2>3, Zenon DEF SignedSince
  <1>11. q # <<>>
    BY <1>5
  <1>12. Follows(c, d)
    BY <1>9, <1>10, Zenon DEF Follows
  <1>13. d.tx # None /\ d.tx[1].phase = c.tx[1].phase /\ Signed(d.tx[1])
    BY <1>1, <1>6, <1>7, <1>8, <1>11, Zenon DEF Signed
  <1> QED BY <1>2, <1>12, <1>13, Zenon

----------------------------------------------------------------------------
(* The invariant of the activation *)

LEMMA SeqFirst == ASSUME NEW S, NEW q \in Seq(S), q # <<>> PROVE q[1] \in S
  OBVIOUS

\* The times in the files of a phase.
LEMMA FileTimes ==
  ASSUME ActivationTypes, NEW p \in Phases
  PROVE  /\ files[p].auth # None => files[p].auth[1] \in Nat
         /\ files[p].receipt # None => files[p].receipt[1] \in Verified
         /\ \A g \in Generations : files[p].art[g] # None => files[p].art[g][1] \in Signature
  <1>1. files[p] \in PhaseFiles
    BY Zenon DEF ActivationTypes
  <1>2. /\ files[p].auth \in Seq(Nat) /\ files[p].receipt \in Seq(Verified)
        /\ files[p].art \in [Generations -> Seq(Signature)]
    BY <1>1 DEF PhaseFiles
  <1>3. \A g \in Generations : files[p].art[g] \in Seq(Signature)
    BY <1>2, Zenon
  <1> QED BY <1>2, <1>3, SeqFirst, Zenon DEF None

LEMMA DriverFields ==
  ASSUME NEW d \in Drivers
  PROVE  /\ d = [phase |-> d.phase, slot |-> d.slot, at |-> d.at, got |-> d.got, todo |-> d.todo]
         /\ d.phase \in Phases \cup {"none", "seal"} /\ d.slot \in Generations /\ d.at \in Nat
         /\ d.got \in Seq(Signature) /\ d.todo \in Seq(Word)
  BY DEF Drivers

LEMMA IdleFields ==
  /\ Idle \in Drivers /\ Idle.phase = "none" /\ Idle.todo = <<>> /\ Idle.got = None
  <1>1. 0 \in Generations
    BY ActivationAssumption DEF Generations
  <1>2. <<>> \in Seq(Signature) /\ <<>> \in Seq(Word)
    OBVIOUS
  <1> QED BY <1>1, <1>2 DEF Idle, Drivers, None

\* The driver after a step.
LEMMA ThenFields ==
  ASSUME NEW d \in Drivers, d.todo # <<>>
  PROVE  /\ Then(d) \in Drivers /\ Then(d).todo = Tail(d.todo)
         /\ \/ Then(d) = Idle
            \/ /\ Then(d).phase = d.phase /\ Then(d).slot = d.slot
               /\ Then(d).at = d.at /\ Then(d).got = d.got
  <1>1. CASE Tail(d.todo) = <<>>
    BY <1>1, IdleFields, Zenon DEF Then
  <1>2. CASE Tail(d.todo) # <<>>
    <2>1. Tail(d.todo) \in Seq(Word)
      BY TailIndex, DriverFields, Zenon
    <2>2. PICK t : t = Tail(d.todo)
      BY Zenon
    <2>3. Then(d) = [d EXCEPT !.todo = t]
      BY <1>2, <2>2, Zenon DEF Then
    <2>4. PICK e : e = [d EXCEPT !.todo = t]
      BY Zenon
    <2>5. t \in Seq(Word)
      BY <2>1, <2>2, Zenon
    <2>6. /\ e \in Drivers /\ e.todo = t /\ e.phase = d.phase /\ e.slot = d.slot
          /\ e.at = d.at /\ e.got = d.got
      BY ONLY <2>4, <2>5, d \in Drivers, Zenon DEF Drivers
    <2> QED BY <2>2, <2>3, <2>4, <2>6, Zenon
  <1> QED BY <1>1, <1>2, Zenon

LEMMA DriverStopped ==
  ASSUME driver' = Idle
  PROVE  DriverPlan' /\ Authorizing' /\ Fetching' /\ Verifying'
  <1>1. driver'.phase = "none" /\ driver'.got = None /\ StepsOf(driver'.todo) = {}
        /\ WellPlanned(driver'.todo)
    BY IdleFields, NothingLeft, Zenon
  <1>2. driver'.phase # "execute"
    BY <1>1
  <1> QED BY <1>1, <1>2, Zenon DEF DriverPlan, Authorizing, Fetching, Verifying, Ahead, AheadOf

\* What the files of a phase hold stays there.
FilesGrow ==
  \A p \in Phases :
    /\ files[p].receipt # None => files'[p].receipt # None
    /\ \A g \in Generations : files[p].bound[g] => files'[p].bound[g]

LEMMA DriverGoesOn ==
  ASSUME ActivationInv, driver.todo # <<>>, driver'.todo = Tail(driver.todo),
         driver'.phase = driver.phase, FilesGrow,
         driver'.slot = driver.slot \/ driver.todo[1] = "CallReplace"
  PROVE  Advanced(driver.todo, driver'.todo) /\ DriverPlan'
  <1>1. DriverPlan
    BY Zenon DEF ActivationInv
  <1>2. Advanced(driver.todo, driver'.todo)
    BY <1>1, TailAdvanced, Zenon DEF DriverPlan
  <1>3. WellPlanned(driver'.todo) /\ \A x : Ahead(x)' => Ahead(x)
    BY <1>2, Zenon DEF Advanced, Ahead
  <1>4. AheadOf(PhaseSteps)' => driver'.phase \in Phases
    BY <1>1, <1>3, Zenon DEF DriverPlan, AheadOf
  <1>5. /\ Ahead("WriteReceipt")' => ~AheadOf(ArtifactSteps)'
        /\ Ahead("WriteAuthorization")' =>
             ~AheadOf({"ReadAttestation", "CallConfirm", "WriteConfirmation"})'
    BY <1>1, <1>3, Zenon DEF DriverPlan, AheadOf
  <1>6. driver'.phase = "execute" => files'["schedule"].receipt # None
    <2>1. "schedule" \in Phases
      BY DEF Phases
    <2> QED BY <1>1, <2>1, Zenon DEF DriverPlan, FilesGrow
  <1>7. Ahead("CallReplace")' => driver'.slot + 1 \in Generations
          /\ files'[driver'.phase].bound[driver'.slot]
    <2> SUFFICES ASSUME Ahead("CallReplace")'
                 PROVE  driver'.slot + 1 \in Generations
                          /\ files'[driver'.phase].bound[driver'.slot]
      BY Zenon
    <2>1. driver.todo[1] # "CallReplace"
      <3>1. NeverAfter("CallReplace", "CallReplace")
        BY DEF NeverAfter
      <3> QED BY <1>2, <3>1, Zenon DEF Advanced, Ahead
    <2>2. driver.slot + 1 \in Generations /\ files[driver.phase].bound[driver.slot]
      BY <1>1, <1>3, Zenon DEF DriverPlan
    <2>3. driver.phase \in Phases
      <3>1. "CallReplace" \in PhaseSteps
        BY DEF PhaseSteps, ArtifactSteps
      <3> QED BY <1>1, <1>3, <3>1, Zenon DEF DriverPlan, AheadOf
    <2>4. driver.slot \in Generations
      BY DriverFields, Zenon DEF ActivationInv, ActivationTypes
    <2> QED BY <2>1, <2>2, <2>3, <2>4, Zenon DEF FilesGrow
  <1>8. DriverPlan'
    BY <1>3, <1>4, <1>5, <1>6, <1>7, Zenon DEF DriverPlan
  <1> QED BY <1>2, <1>8, Zenon

\* A step of the canister, and of the clock, leaves what the files say true.
LEMMA FilesStay ==
  ASSUME ActivationInv, Follows(can, can'), UNCHANGED files, now' \in Nat, now' >= now
  PROVE  (\A p \in Phases : FilesOk(p)') /\ SignedUnderAuthorization'
  <1>1. ASSUME NEW p \in Phases PROVE FilesOk(p)'
    <2>1. FilesOk(p) /\ now \in Nat
      BY Zenon DEF ActivationInv, ActivationTypes
    <2>2. ASSUME files[p].auth # None PROVE files[p].auth[1] <= now' /\ Since(files[p].auth[1])'
      <3>1. files[p].auth[1] \in Nat /\ files[p].auth[1] <= now
              /\ SignedSince(can, files[p].auth[1])
        BY <2>1, <2>2, FileTimes, Zenon DEF FilesOk, Since, ActivationInv
      <3>2. SignedSince(can', files[p].auth[1])
        BY <3>1, Zenon DEF Follows
      <3>3. files[p].auth[1] <= now'
        BY <2>1, <3>1
      <3> QED BY <3>2, <3>3, Zenon DEF Since
    <2>3. ASSUME files[p].receipt # None PROVE files[p].receipt[1].verifiedAt <= now'
      <3>1. files[p].receipt[1].verifiedAt <= now /\ files[p].receipt[1] \in Verified
        BY <2>1, <2>3, FileTimes, Zenon DEF FilesOk, ActivationInv
      <3>2. files[p].receipt[1].verifiedAt \in Nat
        BY <3>1 DEF Verified
      <3> QED BY <2>1, <3>1, <3>2
    <2> QED BY <2>1, <2>2, <2>3, Zenon DEF FilesOk
  <1>2. SignedUnderAuthorization'
    BY Zenon DEF ActivationInv, SignedUnderAuthorization
  <1> QED BY <1>1, <1>2, Zenon

LEMMA CanisterMoves ==
  ASSUME ActivationInv, Follows(can, can'), UNCHANGED <<now, files, driver>>
  PROVE  ActivationInv'
  <1>1. now \in Nat /\ driver \in Drivers
    BY Zenon DEF ActivationInv, ActivationTypes
  <1>2. now' \in Nat /\ now' >= now
    BY <1>1
  <1>3. (\A p \in Phases : FilesOk(p)') /\ SignedUnderAuthorization'
    BY <1>2, FilesStay, Zenon
  <1>4. ActivationTypes'
    BY Zenon DEF ActivationInv, ActivationTypes, Follows
  <1>5. DriverPlan' /\ Fetching' /\ Verifying'
    BY Zenon DEF ActivationInv, DriverPlan, Fetching, Verifying, Ahead, AheadOf
  <1>6. Authorizing'
    <2>1. driver.at \in Nat
      BY <1>1, DriverFields, Zenon
    <2> QED BY <2>1, Zenon DEF ActivationInv, Authorizing, Ahead, Since, Follows
  <1> QED BY <1>3, <1>4, <1>5, <1>6, Zenon DEF ActivationInv

LEMMA ClockMoves ==
  ASSUME ActivationInv, Tick
  PROVE  ActivationInv'
  <1>1. now \in Nat /\ driver \in Drivers /\ CanisterOk(can)
    BY Zenon DEF ActivationInv, ActivationTypes
  <1>2. now' = now + 1 /\ UNCHANGED <<can, files, driver>>
    BY DEF Tick, activationVars
  <1>3. now' \in Nat /\ now' >= now
    BY <1>1, <1>2
  <1>4. Follows(can, can')
    BY <1>1, <1>2, Zenon DEF Follows
  <1>5. (\A p \in Phases : FilesOk(p)') /\ SignedUnderAuthorization'
    BY <1>2, <1>3, <1>4, FilesStay, Zenon
  <1>6. ActivationTypes'
    BY <1>2, <1>3, Zenon DEF ActivationInv, ActivationTypes
  <1>7. DriverPlan' /\ Fetching' /\ Verifying'
    BY <1>2, Zenon DEF ActivationInv, DriverPlan, Fetching, Verifying, Ahead, AheadOf
  <1>8. Authorizing'
    <2>1. driver.at \in Nat
      BY <1>1, DriverFields, Zenon
    <2>2. driver.at <= now => driver.at <= now'
      BY <1>1, <1>2, <2>1
    <2> QED BY <1>2, <2>2, Zenon DEF ActivationInv, Authorizing, Ahead, Since
  <1> QED BY <1>5, <1>6, <1>7, <1>8, Zenon DEF ActivationInv

\* Where a step stands in its command.
LEMMA AtStep ==
  ASSUME ActivationInv, driver.todo # <<>>, driver' \in Drivers, driver'.todo = Tail(driver.todo)
  PROVE  /\ Advanced(driver.todo, driver'.todo) /\ Ahead(driver.todo[1])
         /\ \A x : Ahead(x)' => Ahead(x)
         /\ \A x : Ahead(x) => x = driver.todo[1] \/ Ahead(x)'
         /\ \A x : NeverAfter(driver.todo[1], x) => ~Ahead(x)'
  <1>1. Advanced(driver.todo, driver'.todo)
    BY TailAdvanced, Zenon DEF ActivationInv, DriverPlan
  <1> QED BY <1>1, Zenon DEF Advanced, Ahead

\* A step that leaves the files alone and fetches nothing: a check, or a call.
LEMMA PlainStep ==
  ASSUME ActivationInv, driver.todo # <<>>, NEW a \in Nat,
         driver' = Then([driver EXCEPT !.at = a]),
         a = driver.at \/ driver.todo[1] \in {"ReadAttestation", "CallConfirm"},
         driver.todo[1] \notin {"Stamp", "Answer", "Recover", "CallReplace", "WriteArtifact"},
         driver.todo[1] = "Pending" => can'.tx = None,
         driver.todo[1] = "Authorized" => files[driver.phase].auth # None,
         driver.todo[1] = "StatusMatches" /\ driver.phase = "execute" =>
           /\ files["execute"].art[driver.slot][1].op = files["schedule"].receipt[1].op
           /\ files["schedule"].receipt[1].id < files["execute"].art[driver.slot][1].id,
         Follows(can, can'), UNCHANGED <<now, files>>
  PROVE  ActivationInv'
  <1>1. now \in Nat /\ driver \in Drivers
    BY Zenon DEF ActivationInv, ActivationTypes
  <1>2. now' \in Nat /\ now' >= now
    BY <1>1
  <1>3. (\A p \in Phases : FilesOk(p)') /\ SignedUnderAuthorization'
    BY <1>2, FilesStay, Zenon
  <1>4. PICK d : d = [driver EXCEPT !.at = a]
    BY Zenon
  <1>5. /\ d \in Drivers /\ d.at = a /\ d.phase = driver.phase /\ d.slot = driver.slot
        /\ d.got = driver.got /\ d.todo = driver.todo
    BY ONLY <1>1, <1>4, a \in Nat DEF Drivers
  <1>6. /\ driver' \in Drivers /\ driver'.todo = Tail(driver.todo)
        /\ \/ driver' = Idle
           \/ /\ driver'.phase = driver.phase /\ driver'.slot = driver.slot
              /\ driver'.at = a /\ driver'.got = driver.got
    BY <1>4, <1>5, ThenFields, Zenon
  <1>7. ActivationTypes'
    BY <1>6, Zenon DEF ActivationInv, ActivationTypes, Follows
  <1>8. CASE driver' = Idle
    BY <1>3, <1>7, <1>8, DriverStopped, Zenon DEF ActivationInv
  <1>9. CASE /\ driver'.phase = driver.phase /\ driver'.slot = driver.slot
             /\ driver'.at = a /\ driver'.got = driver.got
    <2>1. FilesGrow
      BY Zenon DEF FilesGrow
    <2>2. DriverPlan'
      BY <1>6, <1>9, <2>1, DriverGoesOn, Zenon
    <2>3. Advanced(driver.todo, driver'.todo) /\ Ahead(driver.todo[1])
          /\ (\A x : Ahead(x)' => Ahead(x)) /\ (\A x : Ahead(x) => x = driver.todo[1] \/ Ahead(x)')
      BY <1>6, AtStep, Zenon
    <2>4. Authorizing'
      <3> SUFFICES ASSUME Ahead("WriteAuthorization")', ~Ahead("Stamp")' PROVE Authorizing'
        BY Zenon DEF Authorizing
      <3>1. a = driver.at
        <4>1. ~AheadOf({"ReadAttestation", "CallConfirm", "WriteConfirmation"})
          BY <2>3, Zenon DEF ActivationInv, DriverPlan
        <4> QED BY <2>3, <4>1, Zenon DEF AheadOf
      <3>2. /\ driver.at <= now
            /\ driver.phase = "execute" => files["schedule"].receipt[1].verifiedAt <= driver.at
            /\ ~Ahead("Pending") => SignedSince(can, driver.at)
        BY <2>3, Zenon DEF ActivationInv, Authorizing, Since
      <3>3. ASSUME ~Ahead("Pending")' PROVE SignedSince(can', driver.at)
        <4>1. CASE driver.todo[1] = "Pending"
          BY <4>1, Zenon DEF SignedSince
        <4>2. CASE driver.todo[1] # "Pending"
          <5>1. driver.at \in Nat
            BY <1>1, DriverFields, Zenon
          <5> QED BY <2>3, <3>2, <3>3, <4>2, <5>1, Zenon DEF Follows
        <4> QED BY <4>1, <4>2, Zenon
      <3> QED BY <1>9, <3>1, <3>2, <3>3, Zenon DEF Authorizing, Since
    <2>5. Fetching'
      <3>1. AheadOf(ArtifactSteps)' => Ahead("Authorized")' \/ files'[driver'.phase].auth # None
        BY <1>9, <2>3, Zenon DEF ActivationInv, Fetching, AheadOf
      <3>2. Ahead("WriteArtifact")' => driver'.got # None
              \/ AheadOf({"Answer", "Recover", "CallReplace"})'
        BY <1>9, <2>3, Zenon DEF ActivationInv, Fetching, AheadOf
      <3>3. Ahead("Bind")' => Ahead("WriteArtifact")'
              \/ files'[driver'.phase].art[driver'.slot] # None
        BY <1>9, <2>3, Zenon DEF ActivationInv, Fetching
      <3> QED BY <1>9, <3>1, <3>2, <3>3, Zenon DEF ActivationInv, Fetching
    <2>6. Verifying'
      <3> SUFFICES ASSUME Ahead("WriteReceipt")', ~Ahead("StatusMatches")', driver.phase = "execute"
                   PROVE  /\ files["execute"].art[driver.slot][1].op
                            = files["schedule"].receipt[1].op
                          /\ files["schedule"].receipt[1].id < files["execute"].art[driver.slot][1].id
        BY <1>9, Zenon DEF Verifying
      <3>1. CASE driver.todo[1] = "StatusMatches"
        BY <3>1, Zenon
      <3>2. CASE driver.todo[1] # "StatusMatches"
        BY <2>3, <3>2, Zenon DEF ActivationInv, Verifying
      <3> QED BY <3>1, <3>2, Zenon
    <2> QED BY <1>3, <1>7, <2>2, <2>4, <2>5, <2>6, Zenon DEF ActivationInv
  <1> QED BY <1>6, <1>8, <1>9, Zenon

LEMMA AtSame ==
  ASSUME ActivationInv
  PROVE  driver.at \in Nat /\ [driver EXCEPT !.at = driver.at] = driver
  <1>1. driver \in Drivers
    BY Zenon DEF ActivationInv, ActivationTypes
  <1> QED BY ONLY <1>1 DEF Drivers

LEMMA CanSame == ASSUME ActivationInv, UNCHANGED can PROVE Follows(can, can')
  BY Zenon DEF ActivationInv, ActivationTypes, Follows

LEMMA CheckPassesKeeps ==
  ASSUME ActivationInv, CheckPasses PROVE ActivationInv'
  <1>1. /\ driver.todo # <<>> /\ Passes(driver.todo[1]) /\ driver' = Then(driver)
        /\ UNCHANGED <<now, can, files>>
    BY DEF CheckPasses, Step, envVars
  <1>2. driver.todo[1] \notin {"Stamp", "Answer", "Recover", "CallReplace", "WriteArtifact"}
    BY <1>1, Zenon DEF Passes, LiveInputPasses, LiveContextPasses, VerificationPasses
  <1>3. driver.todo[1] = "Pending" => can'.tx = None
    BY <1>1 DEF Passes, LiveInputPasses, LiveContextPasses, VerificationPasses, PendingEmpty
  <1>4. driver.todo[1] = "Authorized" => files[driver.phase].auth # None
    BY <1>1 DEF Passes, LiveInputPasses, LiveContextPasses, VerificationPasses,
                AuthorizationCurrent
  <1>5. ASSUME driver.todo[1] = "StatusMatches", driver.phase = "execute"
        PROVE  /\ files["execute"].art[driver.slot][1].op = files["schedule"].receipt[1].op
               /\ files["schedule"].receipt[1].id < files["execute"].art[driver.slot][1].id
    <2>1. /\ files["execute"].bound[driver.slot]
          /\ OperationBound(files["execute"].art[driver.slot][1])
      BY <1>1, <1>5 DEF Passes, LiveInputPasses, LiveContextPasses, VerificationPasses,
                        TimelineOrdered
    <2>2. driver.slot \in Generations /\ "execute" \in Phases
      BY DriverFields DEF ActivationInv, ActivationTypes, Phases
    <2>3. files["execute"].art[driver.slot][1].phase = "execute"
            /\ files["execute"].art[driver.slot] # None
      BY <2>1, <2>2, Zenon DEF ActivationInv, FilesOk
    <2>4. files["execute"].art[driver.slot][1].phase # "schedule"
      BY <2>3
    <2>5. /\ ScheduleReceiptValid
          /\ files["execute"].art[driver.slot][1].op = files["schedule"].receipt[1].op
          /\ files["execute"].art[driver.slot][1].id > files["schedule"].receipt[1].id
      BY <2>1, <2>4, Zenon DEF OperationBound
    <2>6. /\ files["execute"].art[driver.slot][1].id \in Nat
          /\ files["schedule"].receipt[1].id \in Nat
      <3>1. "schedule" \in Phases
        BY DEF Phases
      <3>2. files["execute"].art[driver.slot][1] \in Signature
              /\ files["schedule"].receipt[1] \in Verified
        BY <2>2, <2>3, <2>5, <3>1, FileTimes, Zenon DEF ActivationInv, ScheduleReceiptValid
      <3> QED BY <3>2 DEF Signature, Verified
    <2> QED BY <2>5, <2>6
  <1>6. Follows(can, can')
    BY <1>1, CanSame, Zenon
  <1> QED BY <1>1, <1>2, <1>3, <1>4, <1>5, <1>6, AtSame, PlainStep, Zenon

\* A step that needs a phase has one.
LEMMA StepPhase ==
  ASSUME ActivationInv, driver.todo # <<>>, driver.todo[1] \in PhaseSteps
  PROVE  driver.phase \in Phases /\ driver.slot \in Generations
  <1>1. Advanced(driver.todo, Tail(driver.todo))
    BY TailAdvanced, Zenon DEF ActivationInv, DriverPlan
  <1>2. AheadOf(PhaseSteps)
    BY <1>1, Zenon DEF Advanced, AheadOf, Ahead
  <1> QED BY <1>2, DriverFields, Zenon DEF ActivationInv, DriverPlan, ActivationTypes

\* The calls and the readings that bring nothing to the files.
LEMMA CallsKeep ==
  ASSUME ActivationInv, CallSeal \/ Refresh \/ CallPrepare \/ ReadAttestation
  PROVE  ActivationInv'
  <1>1. /\ driver.todo # <<>> /\ UNCHANGED <<now, files>>
        /\ driver.todo[1] \in {"CallSeal", "Refresh", "TryRefresh", "CallPrepare",
             "ReadAttestation"}
    BY DEF CallSeal, Refresh, CallPrepare, ReadAttestation, Doing, Step, envVars
  <1>2. /\ driver.todo[1] \notin {"Stamp", "Answer", "Recover", "CallReplace", "WriteArtifact"}
        /\ driver.todo[1] # "Pending" /\ driver.todo[1] # "Authorized"
        /\ driver.todo[1] # "StatusMatches"
    BY <1>1
  <1>3. now \in Nat /\ CanisterOk(can)
    BY Zenon DEF ActivationInv, ActivationTypes
  <1>4. Follows(can, can')
    <2>1. CASE CallSeal
      BY <1>3, <2>1, CanSame, SealedFollows, Zenon DEF CallSeal
    <2>2. CASE Refresh
      BY <1>3, <2>2, CanSame, AttestedFollows, Zenon DEF Refresh
    <2>3. CASE CallPrepare
      <3>1. Admitted(driver.phase) /\ can' = Prepared(can, driver.phase)
        BY <2>3, Zenon DEF CallPrepare
      <3>2. CASE can.tx # None
        BY <3>1, <3>2, CanSame, Zenon DEF Prepared
      <3>3. CASE can.tx = None
        <4>1. (driver.phase = "schedule") = (can.timelock = None)
          BY <3>1, <3>3 DEF Admitted
        <4>2. driver.phase \in Phases
          <5>1. "CallPrepare" \in PhaseSteps /\ driver.todo[1] = "CallPrepare"
            BY <2>3 DEF PhaseSteps, CallPrepare, Doing, Step
          <5> QED BY <1>1, <5>1, StepPhase, Zenon
        <4> QED BY <1>3, <3>1, <4>1, <4>2, PreparedFollows, Zenon
      <3> QED BY <3>2, <3>3, Zenon
    <2>4. CASE ReadAttestation
      BY <2>4, CanSame, Zenon DEF ReadAttestation
    <2> QED BY <2>1, <2>2, <2>3, <2>4, Zenon
  <1>5. CASE ReadAttestation
    <2>1. driver' = Then([driver EXCEPT !.at = can.attestedAt])
            /\ driver.todo[1] = "ReadAttestation"
      BY <1>5, Zenon DEF ReadAttestation, Doing, Step
    <2>2. can.attestedAt \in Nat
      BY <1>3, Zenon DEF CanisterOk
    <2> QED BY <1>1, <1>2, <1>4, <2>1, <2>2, PlainStep, Zenon
  <1>6. CASE CallSeal \/ Refresh \/ CallPrepare
    <2>1. driver' = Then(driver)
      BY <1>6, Zenon DEF CallSeal, Refresh, CallPrepare
    <2> QED BY <1>1, <1>2, <1>4, <2>1, AtSame, PlainStep, Zenon
  <1> QED BY <1>5, <1>6, Zenon

\* The driver after a step that sets other fields.
LEMMA DriverAfter ==
  ASSUME NEW d \in Drivers, d.todo # <<>>, driver' = Then(d), d.todo = driver.todo
  PROVE  /\ driver' \in Drivers /\ driver'.todo = Tail(driver.todo)
         /\ \/ driver' = Idle
            \/ /\ driver'.phase = d.phase /\ driver'.slot = d.slot
               /\ driver'.at = d.at /\ driver'.got = d.got
  BY ThenFields, Zenon

\* The date of an authorization is read after the schedule was verified and
\* before the pending transactions are looked at.
LEMMA StampKeeps ==
  ASSUME ActivationInv, Stamp PROVE ActivationInv'
  <1>1. /\ driver.todo # <<>> /\ driver.todo[1] = "Stamp"
        /\ driver' = Then([driver EXCEPT !.at = now]) /\ UNCHANGED <<now, can, files>>
    BY DEF Stamp, Doing, Step, envVars
  <1>2. now \in Nat /\ driver \in Drivers
    BY Zenon DEF ActivationInv, ActivationTypes
  <1>3. now' \in Nat /\ now' >= now
    BY <1>1, <1>2
  <1>4. (\A p \in Phases : FilesOk(p)') /\ SignedUnderAuthorization'
    BY <1>1, <1>3, CanSame, FilesStay, Zenon
  <1>5. PICK d : d = [driver EXCEPT !.at = now]
    BY Zenon
  <1>6. /\ d \in Drivers /\ d.at = now /\ d.phase = driver.phase /\ d.slot = driver.slot
        /\ d.got = driver.got /\ d.todo = driver.todo
    BY ONLY <1>2, <1>5 DEF Drivers
  <1>7. /\ driver' \in Drivers /\ driver'.todo = Tail(driver.todo)
        /\ \/ driver' = Idle
           \/ /\ driver'.phase = driver.phase /\ driver'.slot = driver.slot
              /\ driver'.at = now /\ driver'.got = driver.got
    BY <1>1, <1>5, <1>6, DriverAfter, Zenon
  <1>8. ActivationTypes'
    BY <1>1, <1>7, Zenon DEF ActivationInv, ActivationTypes
  <1>9. CASE driver' = Idle
    BY <1>4, <1>8, <1>9, DriverStopped, Zenon DEF ActivationInv
  <1>10. CASE /\ driver'.phase = driver.phase /\ driver'.slot = driver.slot
              /\ driver'.at = now /\ driver'.got = driver.got
    <2>1. FilesGrow
      BY <1>1, Zenon DEF FilesGrow
    <2>2. DriverPlan'
      BY <1>1, <1>7, <1>10, <2>1, DriverGoesOn, Zenon
    <2>3. /\ Advanced(driver.todo, driver'.todo)
          /\ (\A x : Ahead(x)' => Ahead(x)) /\ (\A x : Ahead(x) => x = "Stamp" \/ Ahead(x)')
      BY <1>1, <1>7, AtStep, Zenon
    <2>4. Ahead("Pending")'
      <3>1. "Stamp" \in Needing /\ Needed("Stamp") = "Pending"
        BY DEF Needing, Needed
      <3> QED BY <1>1, <2>3, <3>1, Zenon DEF Advanced, Ahead
    <2>5. driver.phase = "execute" => files["schedule"].receipt[1].verifiedAt <= now
      <3>1. "schedule" \in Phases
        BY DEF Phases
      <3> QED BY <3>1, Zenon DEF ActivationInv, DriverPlan, FilesOk
    <2>6. now <= now
      BY <1>2
    <2>7. Authorizing'
      BY <1>1, <1>10, <2>4, <2>5, <2>6, Zenon DEF Authorizing
    <2>8. \A x \in ArtifactSteps \cup {"Authorized", "StatusMatches", "WriteReceipt"} : x # "Stamp"
      BY DEF ArtifactSteps
    <2>9. \A x \in ArtifactSteps \cup {"Authorized", "StatusMatches", "WriteReceipt"} :
            Ahead(x)' <=> Ahead(x)
      BY <2>3, <2>8, Zenon
    <2>10. Fetching' /\ Verifying'
      <3>1. \A x \in {"Answer", "Recover", "CallReplace", "WriteArtifact", "Bind"} : Ahead(x)'
              <=> Ahead(x)
        BY <2>9, Zenon DEF ArtifactSteps
      <3>2. (Ahead("Authorized")' <=> Ahead("Authorized"))
            /\ (AheadOf(ArtifactSteps)' <=> AheadOf(ArtifactSteps))
            /\ (AheadOf({"Answer", "Recover", "CallReplace"})'
                 <=> AheadOf({"Answer", "Recover", "CallReplace"}))
        BY <2>9, <3>1, Zenon DEF AheadOf
      <3>3. Fetching'
        BY <1>1, <1>10, <3>1, <3>2, Zenon DEF ActivationInv, Fetching
      <3>4. Verifying'
        BY <1>1, <1>10, <2>9, Zenon DEF ActivationInv, Verifying
      <3> QED BY <3>3, <3>4, Zenon
    <2> QED BY <1>4, <1>8, <2>2, <2>7, <2>10, Zenon DEF ActivationInv
  <1> QED BY <1>7, <1>9, <1>10, Zenon

\* A step that changes one file of the driver's phase.
LEMMA FileChange ==
  ASSUME ActivationInv, NEW p \in Phases, NEW f \in PhaseFiles, files' = [files EXCEPT ![p] = f]
  PROVE  /\ files' \in [Phases -> PhaseFiles] /\ files'[p] = f
         /\ \A q \in Phases : q # p => files'[q] = files[q]
  <1>1. files \in [Phases -> PhaseFiles]
    BY Zenon DEF ActivationInv, ActivationTypes
  <1> QED BY <1>1

LEMMA WriteAuthorizationKeeps ==
  ASSUME ActivationInv, WriteAuthorization PROVE ActivationInv'
  <1>1. /\ driver.todo # <<>> /\ driver.todo[1] = "WriteAuthorization"
        /\ files[driver.phase].auth = None
        /\ files' = [files EXCEPT ![driver.phase].auth = <<driver.at>>]
        /\ driver' = Then([driver EXCEPT !.at = 0]) /\ UNCHANGED <<now, can>>
    BY DEF WriteAuthorization, Doing, Step, envVars
  <1>2. now \in Nat /\ driver \in Drivers
    BY Zenon DEF ActivationInv, ActivationTypes
  <1>3. PICK p \in Phases : p = driver.phase
    <2>1. "WriteAuthorization" \in PhaseSteps
      BY DEF PhaseSteps
    <2> QED BY <1>1, <2>1, StepPhase, Zenon
  <1>4. PICK d : d = [driver EXCEPT !.at = 0]
    BY Zenon
  <1>5. /\ d \in Drivers /\ d.at = 0 /\ d.phase = driver.phase /\ d.slot = driver.slot
        /\ d.got = driver.got /\ d.todo = driver.todo
    BY ONLY <1>2, <1>4 DEF Drivers
  <1>6. /\ driver' \in Drivers /\ driver'.todo = Tail(driver.todo)
        /\ \/ driver' = Idle
           \/ /\ driver'.phase = driver.phase /\ driver'.slot = driver.slot
              /\ driver'.at = 0 /\ driver'.got = driver.got
    BY <1>1, <1>4, <1>5, DriverAfter, Zenon
  <1>7. /\ Ahead("WriteAuthorization")
        /\ (\A x : Ahead(x)' => Ahead(x)) /\ (\A x : Ahead(x) => x = "WriteAuthorization"
             \/ Ahead(x)')
        /\ (\A x : NeverAfter("WriteAuthorization", x) => ~Ahead(x)')
    BY <1>1, <1>6, AtStep, Zenon
  <1>8. ~Ahead("Stamp") /\ ~Ahead("Pending") /\ ~Ahead("WriteAuthorization")'
    <2>1. \A x \in {"Stamp", "Pending", "WriteAuthorization"} : NeverAfter("WriteAuthorization", x)
      BY DEF NeverAfter
    <2>2. "Stamp" # "WriteAuthorization" /\ "Pending" # "WriteAuthorization"
      OBVIOUS
    <2> QED BY <1>7, <2>1, <2>2, Zenon
  <1>9. /\ driver.at <= now /\ Since(driver.at) /\ driver.at \in Nat
        /\ p = "execute" => files["schedule"].receipt[1].verifiedAt <= driver.at
    BY <1>2, <1>3, <1>7, <1>8, DriverFields, Zenon DEF ActivationInv, Authorizing
  <1>10. PICK f : f = [files[p] EXCEPT !.auth = <<driver.at>>]
    BY Zenon
  <1>11. /\ f \in PhaseFiles /\ f.auth = <<driver.at>> /\ f.art = files[p].art
         /\ f.bound = files[p].bound /\ f.receipt = files[p].receipt
    <2>1. files[p] \in PhaseFiles
      BY Zenon DEF ActivationInv, ActivationTypes
    <2>2. PICK q, A, B, C, R : q = <<driver.at>> /\ A = Seq(Nat)
                 /\ B = [Generations -> Seq(Signature)]
                            /\ C = [Generations -> Seq(BOOLEAN)] /\ R = Seq(Verified)
      BY Zenon
    <2>3. q \in A
      BY <1>9, <2>2
    <2>4. f = [files[p] EXCEPT !.auth = q]
          /\ files[p] \in [auth : A, art : B, bound : [Generations -> BOOLEAN], conf : C,
               receipt : R]
      BY <1>10, <2>1, <2>2, Zenon DEF PhaseFiles
    <2>5. /\ f \in [auth : A, art : B, bound : [Generations -> BOOLEAN], conf : C, receipt : R]
          /\ f.auth = q /\ f.art = files[p].art
          /\ f.bound = files[p].bound /\ f.receipt = files[p].receipt
      BY ONLY <2>3, <2>4
    <2> QED BY <2>2, <2>5, Zenon DEF PhaseFiles
  <1>12. files' = [files EXCEPT ![p] = f]
    BY <1>1, <1>3, <1>10
  <1>13. /\ files' \in [Phases -> PhaseFiles] /\ files'[p] = f
         /\ \A q \in Phases : q # p => files'[q] = files[q]
    BY <1>11, <1>12, FileChange, Zenon
  <1>14. /\ f.auth # None /\ f.auth[1] = driver.at
         /\ \A q \in Phases : files'[q].art = files[q].art /\ files'[q].bound = files[q].bound
                              /\ files'[q].receipt = files[q].receipt
    <2>1. f.auth # None /\ f.auth[1] = driver.at
      BY <1>11 DEF None
    <2> QED BY <1>11, <1>13, <2>1, Zenon
  <1>15. "schedule" \in Phases /\ "execute" \in Phases
    BY DEF Phases
  <1>16. ASSUME NEW q \in Phases PROVE FilesOk(q)'
    <2>1. FilesOk(q)
      BY Zenon DEF ActivationInv
    <2>2. /\ files'[q].art = files[q].art /\ files'[q].bound = files[q].bound
          /\ files'[q].receipt = files[q].receipt
          /\ files'["schedule"].receipt = files["schedule"].receipt
      BY <1>14, <1>15, Zenon
    <2>3. CASE q = p
      <3>1. \A g \in Generations : files[q].art[g] = None
        BY <1>1, <1>3, <2>1, <2>3, Zenon DEF FilesOk
      <3>2. q = "execute" => files["schedule"].receipt # None
        BY <1>3, <2>3, Zenon DEF ActivationInv, DriverPlan
      <3>3. files'[q].auth[1] = driver.at
        BY <1>13, <1>14, <2>3, Zenon
      <3>4. files'[q].auth # None =>
              /\ files'[q].auth[1] <= now' /\ SignedSince(can', files'[q].auth[1])
              /\ q = "execute" =>
                   /\ files'["schedule"].receipt # None
                   /\ files'["schedule"].receipt[1].verifiedAt <= files'[q].auth[1]
        BY <1>1, <1>9, <2>2, <2>3, <3>2, <3>3, Zenon DEF Since
      <3> QED BY <1>1, <2>1, <2>2, <3>1, <3>4, Zenon DEF FilesOk, Since
    <2>4. CASE q # p
      <3>1. files'[q] = files[q]
        BY <1>13, <2>4, Zenon
      <3> QED BY <1>1, <2>1, <2>2, <3>1, Zenon DEF FilesOk, Since
    <2> QED BY <2>3, <2>4, Zenon
  <1>17. SignedUnderAuthorization'
    BY <1>14, <1>15, Zenon DEF ActivationInv, SignedUnderAuthorization
  <1>18. ActivationTypes'
    BY <1>1, <1>6, <1>13, Zenon DEF ActivationInv, ActivationTypes
  <1>19. CASE driver' = Idle
    BY <1>16, <1>17, <1>18, <1>19, DriverStopped, Zenon DEF ActivationInv
  <1>20. CASE /\ driver'.phase = driver.phase /\ driver'.slot = driver.slot
              /\ driver'.at = 0 /\ driver'.got = driver.got
    <2>1. FilesGrow
      BY <1>14, Zenon DEF FilesGrow
    <2>2. DriverPlan'
      BY <1>1, <1>6, <1>20, <2>1, DriverGoesOn, Zenon
    <2>3. Authorizing'
      BY <1>8, Zenon DEF Authorizing
    <2>4. driver.got = None
      BY <1>1, Zenon DEF ActivationInv, Fetching
    <2>5. \A x \in {"WriteArtifact", "Answer", "Recover", "CallReplace", "Bind", "StatusMatches"} :
            x # "WriteAuthorization"
      OBVIOUS
    <2>6. Fetching'
      <3>1. files'[driver'.phase].auth # None
        BY <1>3, <1>13, <1>14, <1>20, Zenon
      <3>2. Ahead("WriteArtifact")' => AheadOf({"Answer", "Recover", "CallReplace"})'
        BY <1>7, <2>4, <2>5, Zenon DEF ActivationInv, Fetching, AheadOf
      <3>3. Ahead("Bind")' => Ahead("WriteArtifact")'
              \/ files'[driver'.phase].art[driver'.slot] # None
        BY <1>3, <1>7, <1>14, <1>20, <2>5, Zenon DEF ActivationInv, Fetching
      <3> QED BY <1>20, <2>4, <3>1, <3>2, <3>3, Zenon DEF Fetching
    <2>7. Verifying'
      BY <1>7, <1>14, <1>15, <1>20, <2>5, Zenon DEF ActivationInv, Verifying
    <2> QED BY <1>16, <1>17, <1>18, <2>2, <2>3, <2>6, <2>7, Zenon DEF ActivationInv
  <1> QED BY <1>6, <1>19, <1>20, Zenon

\* The artifact of the newest attempt.
LEMMA SignedViewType ==
  ASSUME NEW c, CanisterOk(c), c.tx # None, Signed(c.tx[1])
  PROVE  /\ SignedView(c.tx[1]) \in Signature /\ SignedView(c.tx[1]).phase = c.tx[1].phase
         /\ \A a : SignedSince(c, a) => a <= SignedView(c.tx[1]).signedAt
  <1>1. PICK t \in Transaction : t = c.tx[1]
    BY SeqFirst, Zenon DEF CanisterOk, None
  <1>2. PICK p, n : p = t.attempts /\ n = Len(p)
    BY Zenon
  <1>3. /\ t.phase \in Phases /\ t.id \in Nat /\ t.op \in Nat /\ p \in Seq(Nat) /\ p # <<>>
    BY <1>1, <1>2 DEF Transaction, Signed
  <1>4. n \in Nat /\ n >= 1 /\ n - 1 \in Nat /\ (n - 1) + 1 = n /\ p[n] \in Nat
    BY ONLY <1>2, <1>3
  <1>5. PICK v : v = [phase |-> t.phase, id |-> t.id, op |-> t.op, gen |-> n - 1, signedAt |-> p[n]]
    BY Zenon
  <1>6. SignedView(t) = v
    BY <1>2, <1>4, <1>5 DEF SignedView, Artifact
  <1>7. v \in Signature /\ v.phase = t.phase /\ v.signedAt = p[n]
    BY <1>3, <1>4, <1>5 DEF Signature
  <1>8. n \in 1..Len(p)
    BY <1>2, <1>4
  <1>9. \A a : SignedSince(c, a) => a <= p[n]
    BY <1>1, <1>2, <1>8, Zenon DEF SignedSince
  <1> QED BY <1>1, <1>6, <1>7, <1>9, Zenon

\* An artifact is fetched under an authorization.
LEMMA FetchesAuthorized ==
  ASSUME ActivationInv, driver.todo # <<>>, driver.todo[1] \in ArtifactSteps
  PROVE  /\ driver.phase \in Phases /\ driver.slot \in Generations
         /\ files[driver.phase].auth # None /\ files[driver.phase].auth[1] \in Nat
         /\ files[driver.phase].auth[1] <= now /\ Since(files[driver.phase].auth[1])
         /\ ~Ahead("WriteReceipt")
  <1>1. driver.phase \in Phases /\ driver.slot \in Generations
    BY StepPhase, Zenon DEF PhaseSteps
  <1>2. Advanced(driver.todo, Tail(driver.todo))
    BY TailAdvanced, Zenon DEF ActivationInv, DriverPlan
  <1>3. AheadOf(ArtifactSteps)
    BY <1>2, Zenon DEF Advanced, AheadOf, Ahead
  <1>4. NeverAfter(driver.todo[1], "Authorized") /\ driver.todo[1] # "Authorized"
    BY DEF ArtifactSteps, NeverAfter
  <1>5. ~Ahead("Authorized")
    BY <1>2, <1>4, Zenon DEF Advanced, Ahead
  <1>6. files[driver.phase].auth # None
    BY <1>3, <1>5, Zenon DEF ActivationInv, Fetching
  <1>7. files[driver.phase].auth[1] \in Nat
    BY <1>1, <1>6, FileTimes, Zenon DEF ActivationInv
  <1>8. files[driver.phase].auth[1] <= now /\ Since(files[driver.phase].auth[1])
    BY <1>1, <1>6, Zenon DEF ActivationInv, FilesOk
  <1>9. ~Ahead("WriteReceipt")
    BY <1>3, Zenon DEF ActivationInv, DriverPlan
  <1> QED BY <1>1, <1>6, <1>7, <1>8, <1>9, Zenon

\* An authorization on its way stays dated well while the step is another one.
LEMMA AuthorizingStays ==
  ASSUME ActivationInv, Follows(can, can'), UNCHANGED now,
         files'["schedule"].receipt = files["schedule"].receipt,
         driver'.at = driver.at, driver'.phase = driver.phase,
         \A x \in {"WriteAuthorization", "Stamp", "Pending"} : Ahead(x)' <=> Ahead(x)
  PROVE  Authorizing'
  <1>1. driver.at \in Nat
    BY DriverFields, Zenon DEF ActivationInv, ActivationTypes
  <1>2. SUFFICES ASSUME Ahead("WriteAuthorization"), ~Ahead("Stamp")
                 PROVE  /\ driver.at <= now
                        /\ driver.phase = "execute"
                             => files["schedule"].receipt[1].verifiedAt <= driver.at
                        /\ ~Ahead("Pending") => SignedSince(can', driver.at)
    BY Zenon DEF Authorizing, Since
  <1>3. /\ driver.at <= now
        /\ driver.phase = "execute" => files["schedule"].receipt[1].verifiedAt <= driver.at
        /\ ~Ahead("Pending") => SignedSince(can, driver.at)
    BY <1>2, Zenon DEF ActivationInv, Authorizing, Since
  <1> QED BY <1>1, <1>3, Zenon DEF Follows

\* A step that fetches an artifact.
LEMMA FetchStep ==
  ASSUME ActivationInv, driver.todo # <<>>, driver.todo[1] \in {"Answer", "Recover", "CallReplace"},
         NEW s \in Generations, s = driver.slot \/ driver.todo[1] = "CallReplace",
         NEW g \in Signature, g.phase = driver.phase, files[driver.phase].auth[1] <= g.signedAt,
         NEW d, d = [driver EXCEPT !.slot = s, !.got = <<g>>], driver' = Then(d),
         Follows(can, can'), UNCHANGED <<now, files>>
  PROVE  ActivationInv'
  <1>1. now \in Nat /\ driver \in Drivers
    BY Zenon DEF ActivationInv, ActivationTypes
  <1>2. now' \in Nat /\ now' >= now
    BY <1>1
  <1>3. (\A p \in Phases : FilesOk(p)') /\ SignedUnderAuthorization'
    BY <1>2, FilesStay, Zenon
  <1>4. /\ d \in Drivers /\ d.at = driver.at /\ d.phase = driver.phase /\ d.slot = s
        /\ d.got = <<g>> /\ d.todo = driver.todo
    <2>1. PICK q, G, e : q = <<g>> /\ G = Seq(Signature) /\ e = [driver EXCEPT !.slot = s]
      BY Zenon
    <2>2. q \in G
      BY <2>1
    <2>3. d = [e EXCEPT !.got = q]
      BY <1>1, <2>1 DEF Drivers
    <2>4. driver \in [phase : Phases \cup {"none", "seal"}, slot : Generations, at : Nat, got : G,
                      todo : Seq(Word)]
      BY <1>1, <2>1, Zenon DEF Drivers
    <2>5. e \in [phase : Phases \cup {"none", "seal"}, slot : Generations, at : Nat, got : G,
                 todo : Seq(Word)] /\ e.at = driver.at /\ e.phase = driver.phase /\ e.slot = s
          /\ e.todo = driver.todo
      BY ONLY <2>1, <2>4, s \in Generations
    <2>6. d \in [phase : Phases \cup {"none", "seal"}, slot : Generations, at : Nat, got : G,
                 todo : Seq(Word)] /\ d.at = e.at /\ d.phase = e.phase /\ d.slot = e.slot
          /\ d.got = q /\ d.todo = e.todo
      BY ONLY <2>2, <2>3, <2>5
    <2> QED BY <2>1, <2>5, <2>6, Zenon DEF Drivers
  <1>5. /\ driver' \in Drivers /\ driver'.todo = Tail(driver.todo)
        /\ \/ driver' = Idle
           \/ /\ driver'.phase = driver.phase /\ driver'.slot = s
              /\ driver'.at = driver.at /\ driver'.got = <<g>>
    BY <1>4, DriverAfter, Zenon
  <1>6. ActivationTypes'
    BY <1>5, Zenon DEF ActivationInv, ActivationTypes, Follows
  <1>7. CASE driver' = Idle
    BY <1>3, <1>6, <1>7, DriverStopped, Zenon DEF ActivationInv
  <1>8. CASE /\ driver'.phase = driver.phase /\ driver'.slot = s
             /\ driver'.at = driver.at /\ driver'.got = <<g>>
    <2>1. FilesGrow
      BY Zenon DEF FilesGrow
    <2>2. DriverPlan'
      BY <1>5, <1>8, <2>1, DriverGoesOn, Zenon
    <2>3. /\ Advanced(driver.todo, driver'.todo)
          /\ (\A x : Ahead(x)' => Ahead(x)) /\ (\A x : Ahead(x) => x = driver.todo[1] \/ Ahead(x)')
      BY <1>5, AtStep, Zenon
    <2>4. \A x \in {"WriteAuthorization", "Stamp", "Pending", "WriteArtifact"} : x # driver.todo[1]
      OBVIOUS
    <2>5. Authorizing'
      BY <1>8, <2>3, <2>4, AuthorizingStays, Zenon
    <2>6. /\ driver.phase \in Phases /\ files[driver.phase].auth # None /\ ~Ahead("WriteReceipt")
      BY FetchesAuthorized, Zenon DEF ArtifactSteps
    <2>7. driver'.got # None /\ driver'.got[1] = g
      <3>1. <<g>> # <<>> /\ <<g>>[1] = g
        BY ONLY TRUE
      <3> QED BY <1>8, <3>1, Zenon DEF None
    <2>8. Ahead("Bind")' => Ahead("WriteArtifact")'
            \/ files'[driver'.phase].art[driver'.slot] # None
      <3>1. CASE driver.todo[1] = "CallReplace"
        <4>1. "CallReplace" \in Needing /\ Needed("CallReplace") = "WriteArtifact"
          BY DEF Needing, Needed
        <4> QED BY <2>3, <3>1, <4>1, Zenon DEF Advanced, Ahead
      <3>2. CASE s = driver.slot
        BY <1>8, <2>3, <2>4, <3>2, Zenon DEF ActivationInv, Fetching
      <3> QED BY <3>1, <3>2, Zenon
    <2>9. Fetching'
      BY <1>8, <2>6, <2>7, <2>8, Zenon DEF Fetching
    <2>10. Verifying'
      BY <2>3, <2>6, Zenon DEF Verifying
    <2> QED BY <1>3, <1>6, <2>2, <2>5, <2>9, <2>10, Zenon DEF ActivationInv
  <1> QED BY <1>5, <1>7, <1>8, Zenon

LEMMA SlotSame ==
  ASSUME ActivationInv, NEW q
  PROVE  [driver EXCEPT !.got = q] = [driver EXCEPT !.slot = driver.slot, !.got = q]
  <1>1. driver \in Drivers
    BY Zenon DEF ActivationInv, ActivationTypes
  <1>2. [driver EXCEPT !.slot = driver.slot] = driver
    BY ONLY <1>1 DEF Drivers
  <1>3. [driver EXCEPT !.slot = driver.slot, !.got = q]
          = [[driver EXCEPT !.slot = driver.slot] EXCEPT !.got = q]
    BY ONLY <1>1 DEF Drivers
  <1> QED BY <1>2, <1>3, Zenon

LEMMA AnswerKeeps ==
  ASSUME ActivationInv, Answer PROVE ActivationInv'
  <1>1. /\ driver.todo # <<>> /\ driver.todo[1] = "Answer" /\ can.tx # None /\ Signed(can.tx[1])
        /\ can.tx[1].phase = driver.phase /\ UNCHANGED <<now, can, files>>
        /\ driver' = Then([driver EXCEPT !.got = <<SignedView(can.tx[1])>>])
    BY DEF Answer, Doing, Step, PendingSigned, envVars
  <1>2. driver.todo[1] \in ArtifactSteps /\ driver.todo[1] \in {"Answer", "Recover", "CallReplace"}
    BY <1>1 DEF ArtifactSteps
  <1>3. /\ driver.slot \in Generations /\ Since(files[driver.phase].auth[1])
    BY <1>1, <1>2, FetchesAuthorized, Zenon
  <1>4. /\ SignedView(can.tx[1]) \in Signature /\ SignedView(can.tx[1]).phase = can.tx[1].phase
        /\ files[driver.phase].auth[1] <= SignedView(can.tx[1]).signedAt
    BY <1>1, <1>3, SignedViewType, Zenon DEF ActivationInv, ActivationTypes, Since
  <1>5. Follows(can, can')
    BY <1>1, CanSame, Zenon
  <1>6. PICK g : g = SignedView(can.tx[1])
    BY Zenon
  <1>7. driver' = Then([driver EXCEPT !.slot = driver.slot, !.got = <<g>>])
    BY <1>1, <1>6, SlotSame, Zenon
  <1> QED BY <1>1, <1>2, <1>3, <1>4, <1>5, <1>6, <1>7, FetchStep, Zenon

\* What the steps of a command promise when it starts.
Startable(S) ==
  /\ "WriteReceipt" \in S => "StatusMatches" \in S /\ \A x \in ArtifactSteps : x \notin S
  /\ "WriteAuthorization" \in S =>
       "Stamp" \in S /\ \A x \in {"ReadAttestation", "CallConfirm",
         "WriteConfirmation"} : x \notin S
  /\ \A x \in ArtifactSteps : x \in S => "Authorized" \in S
  /\ "WriteArtifact" \in S => \E x \in {"Answer", "Recover", "CallReplace"} : x \in S
  /\ "Bind" \in S => "WriteArtifact" \in S

LEMMA CommandStarts ==
  ASSUME ActivationInv, UNCHANGED <<now, can, files>>, driver' \in Drivers,
         NEW S, WellPlanned(driver'.todo), StepsOf(driver'.todo) = S, Startable(S),
         (\E x \in PhaseSteps : x \in S) => driver'.phase \in Phases,
         driver'.phase = "execute" => files["schedule"].receipt # None,
         "CallReplace" \in S =>
           driver'.slot + 1 \in Generations /\ files[driver'.phase].bound[driver'.slot],
         driver'.got = None \/ (driver'.got = driver.got /\ driver'.phase = driver.phase)
  PROVE  ActivationInv'
  <1>1. now \in Nat
    BY Zenon DEF ActivationInv, ActivationTypes
  <1>2. now' \in Nat /\ now' >= now
    BY <1>1
  <1>3. (\A p \in Phases : FilesOk(p)') /\ SignedUnderAuthorization'
    BY <1>2, CanSame, FilesStay, Zenon
  <1>4. ActivationTypes'
    BY Zenon DEF ActivationInv, ActivationTypes
  <1>5. DriverPlan'
    BY Zenon DEF DriverPlan, Startable, Ahead, AheadOf
  <1>6. Authorizing' /\ Verifying'
    BY Zenon DEF Authorizing, Verifying, Startable, Ahead
  <1>7. Fetching'
    <2>1. driver'.got # None =>
            /\ driver'.phase \in Phases /\ files[driver'.phase].auth # None
            /\ files[driver'.phase].auth[1] <= driver'.got[1].signedAt
            /\ driver'.got[1].phase = driver'.phase
      BY Zenon DEF ActivationInv, Fetching
    <2> QED BY <2>1, Zenon DEF Fetching, Startable, Ahead, AheadOf
  <1> QED BY <1>3, <1>4, <1>5, <1>6, <1>7, Zenon DEF ActivationInv

LEMMA RecoverKeeps ==
  ASSUME ActivationInv, Recover PROVE ActivationInv'
  <1>1. /\ driver.todo # <<>> /\ driver.todo[1] = "Recover" /\ UNCHANGED <<now, can, files>>
        /\ driver' = IF Recoverable THEN Then([driver EXCEPT !.got = <<SignedView(can.tx[1])>>])
                     ELSE ThenDo(driver, PrepareUnrecovered(driver.phase))
    BY DEF Recover, Doing, Step, envVars
  <1>2. driver.todo[1] \in ArtifactSteps /\ driver.todo[1] \in {"Answer", "Recover", "CallReplace"}
    BY <1>1 DEF ArtifactSteps
  <1>3. /\ driver.phase \in Phases /\ driver.slot \in Generations
        /\ Since(files[driver.phase].auth[1])
    BY <1>1, <1>2, FetchesAuthorized, Zenon
  <1>4. CASE Recoverable
    <2>1. /\ can.tx # None /\ Signed(can.tx[1]) /\ can.tx[1].phase = driver.phase
      BY <1>4, Zenon DEF Recoverable, PendingSigned
    <2>2. /\ SignedView(can.tx[1]) \in Signature /\ SignedView(can.tx[1]).phase = can.tx[1].phase
          /\ files[driver.phase].auth[1] <= SignedView(can.tx[1]).signedAt
      BY <1>3, <2>1, SignedViewType, Zenon DEF ActivationInv, ActivationTypes, Since
    <2>3. Follows(can, can')
      BY <1>1, CanSame, Zenon
    <2>4. PICK g : g = SignedView(can.tx[1])
      BY Zenon
    <2>5. driver' = Then([driver EXCEPT !.slot = driver.slot, !.got = <<g>>])
      BY <1>1, <1>4, <2>4, SlotSame, Zenon
    <2> QED BY <1>1, <1>2, <1>3, <2>1, <2>2, <2>3, <2>4, <2>5, FetchStep, Zenon
  <1>5. CASE ~Recoverable
    <2>1. PICK G \in SUBSET GateSteps : Plan(PrepareUnrecovered(driver.phase), G \cup PrepareSteps,
                 {})
      BY <1>3, PrepareUnrecoveredPlan, Zenon
    <2>2. PICK q : q = PrepareUnrecovered(driver.phase)
      BY Zenon
    <2>3. PICK S : S = G \cup PrepareSteps
      BY Zenon
    <2>4. WellPlanned(q) /\ StepsOf(q) = S
      BY <2>1, <2>2, <2>3, PlanWhole, Zenon
    <2>5. Startable(S) /\ "CallReplace" \notin S
      BY <2>3 DEF Startable, GateSteps, PrepareSteps, LiveSteps, ContextSteps, CallSteps,
         ArtifactSteps
    <2>6. driver' = [driver EXCEPT !.todo = q]
      BY <1>1, <1>5, <2>2, Zenon DEF ThenDo
    <2>7. q \in Seq(Word) /\ driver \in Drivers
      BY <2>4, Zenon DEF WellPlanned, ActivationInv, ActivationTypes
    <2>8. /\ driver' \in Drivers /\ driver'.todo = q /\ driver'.phase = driver.phase
          /\ driver'.got = driver.got
      BY ONLY <2>6, <2>7 DEF Drivers
    <2>9. driver'.phase = "execute" => files["schedule"].receipt # None
      BY <2>8, Zenon DEF ActivationInv, DriverPlan
    <2> QED BY <1>1, <1>3, <2>4, <2>5, <2>8, <2>9, CommandStarts, Zenon
  <1> QED BY <1>4, <1>5, Zenon

LEMMA CallReplaceKeeps ==
  ASSUME ActivationInv, CallReplace PROVE ActivationInv'
  <1>1. /\ driver.todo # <<>> /\ driver.todo[1] = "CallReplace" /\ can.tx # None
             /\ Signed(can.tx[1])
        /\ UNCHANGED <<now, files>>
        /\ driver' = Then([driver EXCEPT !.slot = @ + 1, !.got = <<SignedView(can'.tx[1])>>])
    BY DEF CallReplace, Doing, Step, PendingSigned, envVars
  <1>2. driver.todo[1] \in ArtifactSteps /\ driver.todo[1] \in {"Answer", "Recover", "CallReplace"}
    BY <1>1 DEF ArtifactSteps
  <1>3. /\ driver.phase \in Phases /\ driver.slot \in Generations
        /\ files[driver.phase].auth[1] \in Nat /\ files[driver.phase].auth[1] <= now
        /\ Since(files[driver.phase].auth[1])
    BY <1>1, <1>2, FetchesAuthorized, Zenon
  <1>4. Ahead("CallReplace")
    <2>1. Advanced(driver.todo, Tail(driver.todo))
      BY <1>1, TailAdvanced, Zenon DEF ActivationInv, DriverPlan
    <2> QED BY <1>1, <2>1, Zenon DEF Advanced, Ahead
  <1>5. driver.slot + 1 \in Generations /\ files[driver.phase].bound[driver.slot]
    BY <1>4, Zenon DEF ActivationInv, DriverPlan
  <1>6. PICK art \in Signature : art = files[driver.phase].art[driver.slot][1]
               /\ art.phase = driver.phase
    <2>1. FilesOk(driver.phase) /\ ActivationTypes
      BY <1>3, Zenon DEF ActivationInv
    <2>2. files[driver.phase].art[driver.slot] # None
      BY <1>3, <1>5, <2>1, Zenon DEF FilesOk
    <2>3. files[driver.phase].art[driver.slot][1] \in Signature
      BY <1>3, <2>1, <2>2, FileTimes, Zenon
    <2>4. files[driver.phase].art[driver.slot][1].phase = driver.phase
      BY <1>3, <2>1, <2>2, Zenon DEF FilesOk
    <2> QED BY <2>3, <2>4, Zenon
  <1>7. CanisterOk(can) /\ now \in Nat
    BY Zenon DEF ActivationInv, ActivationTypes
  <1>8. /\ SignedView(can.tx[1]).phase = can.tx[1].phase
    BY <1>1, <1>7, SignedViewType, Zenon
  <1>9. /\ Follows(can, can') /\ can'.tx # None /\ Signed(can'.tx[1])
        /\ can'.tx[1].phase = driver.phase
    <2>1. \/ /\ art = SignedView(can.tx[1]) /\ can' = SignedNow(can)
          \/ /\ UNCHANGED can
             /\ SignedView(can.tx[1])
                  = [art EXCEPT !.gen = @ + 1, !.signedAt = SignedView(can.tx[1]).signedAt]
      BY <1>6, Zenon DEF CallReplace
    <2>2. CASE art = SignedView(can.tx[1]) /\ can' = SignedNow(can)
      BY <1>1, <1>6, <1>7, <1>8, <2>2, SignedNowFollows, Zenon
    <2>3. CASE /\ UNCHANGED can
               /\ SignedView(can.tx[1])
                    = [art EXCEPT !.gen = @ + 1, !.signedAt = SignedView(can.tx[1]).signedAt]
      <3>1. PICK t : t = SignedView(can.tx[1]).signedAt
        BY Zenon
      <3>2. [art EXCEPT !.gen = @ + 1, !.signedAt = t].phase = art.phase
        BY ONLY art \in Signature DEF Signature
      <3>3. can.tx[1].phase = driver.phase
        BY <1>6, <1>8, <2>3, <3>1, <3>2, Zenon
      <3> QED BY <1>1, <2>3, <3>3, CanSame, Zenon
    <2> QED BY <2>1, <2>2, <2>3, Zenon
  <1>10. CanisterOk(can') /\ SignedSince(can', files[driver.phase].auth[1])
    BY <1>3, <1>9, Zenon DEF Follows, Since
  <1>11. PICK g \in Signature : /\ g = SignedView(can'.tx[1]) /\ g.phase = driver.phase
                                /\ files[driver.phase].auth[1] <= g.signedAt
    BY <1>9, <1>10, SignedViewType, Zenon
  <1>12. PICK s \in Generations : s = driver.slot + 1
    BY <1>5, Zenon
  <1>13. driver' = Then([driver EXCEPT !.slot = s, !.got = <<g>>])
    BY <1>1, <1>11, <1>12, Zenon
  <1> QED BY <1>1, <1>2, <1>9, <1>11, <1>13, FetchStep, Zenon

\* The files of a phase after one field of them was written.
WithArtifact(f, g, q) == [f EXCEPT !.art[g] = q]
WithBound(f, g) == [f EXCEPT !.bound[g] = TRUE]
WithConfirmation(f, g, q) == [f EXCEPT !.conf[g] = q]
WithReceipt(f, q) == [f EXCEPT !.receipt = q]

LEMMA ArtifactWritten ==
  ASSUME NEW f \in PhaseFiles, NEW g \in Generations, NEW q \in Seq(Signature)
  PROVE  /\ WithArtifact(f, g, q) \in PhaseFiles /\ WithArtifact(f, g, q).auth = f.auth
         /\ WithArtifact(f, g, q).bound = f.bound /\ WithArtifact(f, g, q).receipt = f.receipt
         /\ WithArtifact(f, g, q).art[g] = q
         /\ \A h \in Generations : h # g => WithArtifact(f, g, q).art[h] = f.art[h]
  <1>1. PICK e : e = WithArtifact(f, g, q)
    BY Zenon
  <1>2. PICK A, B, C, R : /\ A = Seq(Nat) /\ B = Seq(Signature) /\ C = [Generations -> Seq(BOOLEAN)]
                          /\ R = Seq(Verified)
    BY Zenon
  <1>3. /\ f \in [auth : A, art : [Generations -> B], bound : [Generations -> BOOLEAN], conf : C,
             receipt : R]
        /\ q \in B
    BY <1>2, Zenon DEF PhaseFiles
  <1>4. PICK a : a = [f.art EXCEPT ![g] = q]
    BY Zenon
  <1>5. e = [f EXCEPT !.art = a]
    BY <1>4, <1>1, Zenon DEF WithArtifact
  <1>6. /\ f.art \in [Generations -> B] /\ a \in [Generations -> B] /\ a[g] = q
        /\ \A h \in Generations : h # g => a[h] = f.art[h]
    BY ONLY <1>3, <1>4, g \in Generations
  <1>7. /\ e \in [auth : A, art : [Generations -> B], bound : [Generations -> BOOLEAN], conf : C,
             receipt : R]
        /\ e.auth = f.auth /\ e.bound = f.bound /\ e.receipt = f.receipt /\ e.art = a
    BY ONLY <1>3, <1>6, <1>5
  <1>8. e \in PhaseFiles
    BY <1>2, <1>7, Zenon DEF PhaseFiles
  <1> QED BY <1>6, <1>7, <1>8, <1>1, Zenon

LEMMA ArtifactBinds ==
  ASSUME NEW f \in PhaseFiles, NEW g \in Generations
  PROVE  /\ WithBound(f, g) \in PhaseFiles /\ WithBound(f, g).auth = f.auth
         /\ WithBound(f, g).art = f.art /\ WithBound(f, g).receipt = f.receipt
         /\ WithBound(f, g).bound[g]
         /\ \A h \in Generations : h # g => WithBound(f, g).bound[h] = f.bound[h]
  <1>1. PICK e : e = WithBound(f, g)
    BY Zenon
  <1>2. PICK A, B, C, R : /\ A = Seq(Nat) /\ B = [Generations -> Seq(Signature)]
                          /\ C = [Generations -> Seq(BOOLEAN)] /\ R = Seq(Verified)
    BY Zenon
  <1>3. f \in [auth : A, art : B, bound : [Generations -> BOOLEAN], conf : C, receipt : R]
    BY <1>2, Zenon DEF PhaseFiles
  <1>4. PICK a : a = [f.bound EXCEPT ![g] = TRUE]
    BY Zenon
  <1>5. e = [f EXCEPT !.bound = a]
    BY <1>4, <1>1, Zenon DEF WithBound
  <1>6. /\ f.bound \in [Generations -> BOOLEAN] /\ a \in [Generations -> BOOLEAN] /\ a[g]
        /\ \A h \in Generations : h # g => a[h] = f.bound[h]
    BY ONLY <1>3, <1>4, g \in Generations
  <1>7. /\ e \in [auth : A, art : B, bound : [Generations -> BOOLEAN], conf : C, receipt : R]
        /\ e.auth = f.auth /\ e.art = f.art /\ e.receipt = f.receipt /\ e.bound = a
    BY ONLY <1>3, <1>6, <1>5
  <1>8. e \in PhaseFiles
    BY <1>2, <1>7, Zenon DEF PhaseFiles
  <1> QED BY <1>6, <1>7, <1>8, <1>1, Zenon

LEMMA ConfirmationWritten ==
  ASSUME NEW f \in PhaseFiles, NEW g \in Generations, NEW q \in Seq(BOOLEAN)
  PROVE  /\ WithConfirmation(f, g, q) \in PhaseFiles /\ WithConfirmation(f, g, q).auth = f.auth
         /\ WithConfirmation(f, g, q).art = f.art
         /\ WithConfirmation(f, g, q).receipt = f.receipt
         /\ WithConfirmation(f, g, q).bound = f.bound
  <1>1. PICK e : e = WithConfirmation(f, g, q)
    BY Zenon
  <1>2. PICK A, B, C, R : /\ A = Seq(Nat) /\ B = [Generations -> Seq(Signature)]
                          /\ C = Seq(BOOLEAN) /\ R = Seq(Verified)
    BY Zenon
  <1>3. /\ f \in [auth : A, art : B, bound : [Generations -> BOOLEAN], conf : [Generations -> C],
             receipt : R]
        /\ q \in C
    BY <1>2, Zenon DEF PhaseFiles
  <1>4. PICK a : a = [f.conf EXCEPT ![g] = q]
    BY Zenon
  <1>5. e = [f EXCEPT !.conf = a]
    BY <1>4, <1>1, Zenon DEF WithConfirmation
  <1>6. /\ f.conf \in [Generations -> C] /\ a \in [Generations -> C]
    BY ONLY <1>3, <1>4, g \in Generations
  <1>7. /\ e \in [auth : A, art : B, bound : [Generations -> BOOLEAN], conf : [Generations -> C],
             receipt : R]
        /\ e.auth = f.auth /\ e.art = f.art /\ e.receipt = f.receipt /\ e.bound = f.bound
    BY ONLY <1>3, <1>6, <1>5
  <1>8. e \in PhaseFiles
    BY <1>2, <1>7, Zenon DEF PhaseFiles
  <1> QED BY <1>6, <1>7, <1>8, <1>1, Zenon

LEMMA ReceiptWritten ==
  ASSUME NEW f \in PhaseFiles, NEW q \in Seq(Verified)
  PROVE  /\ WithReceipt(f, q) \in PhaseFiles /\ WithReceipt(f, q).auth = f.auth
         /\ WithReceipt(f, q).art = f.art /\ WithReceipt(f, q).receipt = q
         /\ WithReceipt(f, q).bound = f.bound
  <1>1. PICK e : e = WithReceipt(f, q)
    BY Zenon
  <1>2. PICK A, B, C, R : /\ A = Seq(Nat) /\ B = [Generations -> Seq(Signature)]
                          /\ C = [Generations -> Seq(BOOLEAN)] /\ R = Seq(Verified)
    BY Zenon
  <1>3. /\ f \in [auth : A, art : B, bound : [Generations -> BOOLEAN], conf : C, receipt : R]
        /\ q \in R
    BY <1>2, Zenon DEF PhaseFiles
  <1>4. e = [f EXCEPT !.receipt = q]
    BY <1>1, Zenon DEF WithReceipt
  <1>5. /\ e \in [auth : A, art : B, bound : [Generations -> BOOLEAN], conf : C, receipt : R]
        /\ e.auth = f.auth /\ e.art = f.art /\ e.receipt = q /\ e.bound = f.bound
    BY ONLY <1>3, <1>4
  <1>6. e \in PhaseFiles
    BY <1>2, <1>5, Zenon DEF PhaseFiles
  <1> QED BY <1>5, <1>6, <1>1, Zenon

\* Every artifact of a phase was signed under its authorization, and is there when
\* it is bound.
ArtifactsOk(f, p) ==
  \A g \in Generations :
    /\ f.art[g] # None =>
         /\ f.auth # None /\ f.auth[1] <= f.art[g][1].signedAt /\ f.art[g][1].phase = p
    /\ f.bound[g] => f.art[g] # None

\* The files after a step that leaves the authorizations and the receipts alone.
LEMMA FilesChanged ==
  ASSUME ActivationInv, UNCHANGED <<now, can>>, NEW p \in Phases, NEW f \in PhaseFiles,
         files' = [files EXCEPT ![p] = f], f.auth = files[p].auth, f.receipt = files[p].receipt,
         ArtifactsOk(f, p)
  PROVE  /\ files' \in [Phases -> PhaseFiles] /\ files'[p] = f
         /\ \A q \in Phases : q # p => files'[q] = files[q]
         /\ \A q \in Phases : files'[q].auth = files[q].auth /\ files'[q].receipt = files[q].receipt
         /\ \A q \in Phases : FilesOk(q)'
         /\ SignedUnderAuthorization' /\ Follows(can, can')
         /\ files'["schedule"].receipt = files["schedule"].receipt
  <1>1. /\ files' \in [Phases -> PhaseFiles] /\ files'[p] = f
        /\ \A q \in Phases : q # p => files'[q] = files[q]
    BY FileChange, Zenon
  <1>2. \A q \in Phases : files'[q].auth = files[q].auth /\ files'[q].receipt = files[q].receipt
    BY <1>1, Zenon
  <1>3. "schedule" \in Phases /\ "execute" \in Phases
    BY DEF Phases
  <1>4. ASSUME NEW q \in Phases PROVE FilesOk(q)'
    <2>1. FilesOk(q)
      BY Zenon DEF ActivationInv
    <2>2. ArtifactsOk(files'[q], q)
      <3>1. CASE q = p
        BY <1>1, <3>1, Zenon
      <3>2. CASE q # p
        BY <1>1, <2>1, <3>2, Zenon DEF FilesOk, ArtifactsOk
      <3> QED BY <3>1, <3>2, Zenon
    <2> QED BY <1>2, <1>3, <2>1, <2>2, Zenon DEF FilesOk, ArtifactsOk, Since
  <1>5. SignedUnderAuthorization'
    BY <1>2, <1>3, Zenon DEF ActivationInv, SignedUnderAuthorization
  <1> QED BY <1>1, <1>2, <1>3, <1>4, <1>5, CanSame, Zenon

LEMMA WriteArtifactKeeps ==
  ASSUME ActivationInv, WriteArtifact PROVE ActivationInv'
  <1>1. /\ driver.todo # <<>> /\ driver.todo[1] = "WriteArtifact"
        /\ files' = [files EXCEPT ![driver.phase].art[driver.slot] = driver.got]
        /\ driver' = Then([driver EXCEPT !.got = None]) /\ UNCHANGED <<now, can>>
    BY DEF WriteArtifact, Doing, Step, envVars
  <1>2. driver \in Drivers
    BY Zenon DEF ActivationInv, ActivationTypes
  <1>3. driver.todo[1] \in ArtifactSteps
    BY <1>1 DEF ArtifactSteps
  <1>4. /\ driver.phase \in Phases /\ driver.slot \in Generations
        /\ files[driver.phase].auth # None /\ ~Ahead("WriteReceipt")
    BY <1>1, <1>3, FetchesAuthorized, Zenon
  <1>5. PICK p \in Phases : p = driver.phase
    BY <1>4, Zenon
  <1>6. PICK d : d = [driver EXCEPT !.got = None]
    BY Zenon
  <1>7. /\ d \in Drivers /\ d.at = driver.at /\ d.phase = driver.phase /\ d.slot = driver.slot
        /\ d.got = None /\ d.todo = driver.todo
    <2>1. None \in Seq(Signature)
      BY DEF None
    <2> QED BY ONLY <1>2, <1>6, <2>1, Zenon DEF Drivers
  <1>8. /\ driver' \in Drivers /\ driver'.todo = Tail(driver.todo)
        /\ \/ driver' = Idle
           \/ /\ driver'.phase = driver.phase /\ driver'.slot = driver.slot
              /\ driver'.at = driver.at /\ driver'.got = None
    BY <1>1, <1>6, <1>7, DriverAfter, Zenon
  <1>9. /\ Ahead("WriteArtifact")
        /\ (\A x : Ahead(x)' => Ahead(x)) /\ (\A x : Ahead(x) => x = "WriteArtifact" \/ Ahead(x)')
        /\ (\A x : NeverAfter("WriteArtifact", x) => ~Ahead(x)')
    BY <1>1, <1>8, AtStep, Zenon
  <1>10. ~Ahead("WriteArtifact")' /\ ~AheadOf({"Answer", "Recover", "CallReplace"})
    <2>1. \A x \in {"Answer", "Recover", "CallReplace",
            "WriteArtifact"} : NeverAfter("WriteArtifact", x)
      BY DEF NeverAfter
    <2>2. \A x \in {"Answer", "Recover", "CallReplace"} : x # "WriteArtifact"
      OBVIOUS
    <2> QED BY <1>9, <2>1, <2>2, Zenon DEF AheadOf
  <1>11. /\ driver.got # None /\ files[p].auth[1] <= driver.got[1].signedAt
         /\ driver.got[1].phase = p /\ driver.got \in Seq(Signature)
    BY <1>2, <1>5, <1>9, <1>10, DriverFields, Zenon DEF ActivationInv, Fetching
  <1>12. PICK f : f = WithArtifact(files[p], driver.slot, driver.got)
    BY Zenon
  <1>13. files[p] \in PhaseFiles
    BY Zenon DEF ActivationInv, ActivationTypes
  <1>14. /\ f \in PhaseFiles /\ f.auth = files[p].auth /\ f.bound = files[p].bound
              /\ f.receipt = files[p].receipt
         /\ f.art[driver.slot] = driver.got
         /\ \A h \in Generations : h # driver.slot => f.art[h] = files[p].art[h]
    <2>1. driver.slot \in Generations /\ driver.got \in Seq(Signature)
      BY <1>4, <1>11, Zenon
    <2> QED BY <1>12, <1>13, <2>1, ArtifactWritten
  <1>15. files' = [files EXCEPT ![p] = f]
    BY <1>1, <1>5, <1>12, Zenon DEF WithArtifact
  <1>16. ArtifactsOk(f, p)
    <2> SUFFICES ASSUME NEW g \in Generations
                 PROVE  /\ f.art[g] # None =>
                             /\ f.auth # None /\ f.auth[1] <= f.art[g][1].signedAt
                             /\ f.art[g][1].phase = p
                        /\ f.bound[g] => f.art[g] # None
      BY Zenon DEF ArtifactsOk
    <2>1. FilesOk(p)
      BY Zenon DEF ActivationInv
    <2>2. CASE g = driver.slot
      BY <1>4, <1>5, <1>11, <1>12, <1>14, <2>2, Zenon
    <2>3. CASE g # driver.slot
      BY <1>12, <1>14, <2>1, <2>3, Zenon DEF FilesOk
    <2> QED BY <2>2, <2>3, Zenon
  <1>17. /\ files' \in [Phases -> PhaseFiles] /\ files'[p] = f
         /\ \A q \in Phases : q # p => files'[q] = files[q]
         /\ \A q \in Phases : files'[q].auth = files[q].auth /\ files'[q].receipt = files[q].receipt
         /\ \A q \in Phases : FilesOk(q)'
         /\ SignedUnderAuthorization' /\ Follows(can, can')
         /\ files'["schedule"].receipt = files["schedule"].receipt
    BY <1>1, <1>12, <1>14, <1>15, <1>16, FilesChanged, Zenon
  <1>18. ActivationTypes'
    BY <1>1, <1>8, <1>17, Zenon DEF ActivationInv, ActivationTypes
  <1>19. CASE driver' = Idle
    BY <1>17, <1>18, <1>19, DriverStopped, Zenon DEF ActivationInv
  <1>20. CASE /\ driver'.phase = driver.phase /\ driver'.slot = driver.slot
              /\ driver'.at = driver.at /\ driver'.got = None
    <2>1. FilesGrow
      BY <1>12, <1>14, <1>17, Zenon DEF FilesGrow
    <2>2. DriverPlan'
      BY <1>1, <1>8, <1>20, <2>1, DriverGoesOn, Zenon
    <2>3. \A x \in {"WriteAuthorization", "Stamp", "Pending"} : x # "WriteArtifact"
      OBVIOUS
    <2>4. Authorizing'
      BY <1>1, <1>9, <1>17, <1>20, <2>3, AuthorizingStays, Zenon
    <2>5. files'[driver'.phase].auth # None /\ files'[driver'.phase].art[driver'.slot] # None
      <3>1. files[p].auth # None /\ driver'.phase = p /\ driver'.slot = driver.slot
        BY <1>4, <1>5, <1>20, Zenon
      <3>2. files'[p].auth # None /\ files'[p].art[driver.slot] # None
        BY <1>11, <1>14, <1>17, <3>1, Zenon
      <3> QED BY <3>1, <3>2, Zenon
    <2>6. Fetching'
      BY <1>10, <1>20, <2>5, Zenon DEF Fetching
    <2>7. Verifying'
      BY <1>4, <1>9, Zenon DEF Verifying
    <2> QED BY <1>17, <1>18, <2>2, <2>4, <2>6, <2>7, Zenon DEF ActivationInv
  <1> QED BY <1>8, <1>19, <1>20, Zenon

LEMMA BindKeeps ==
  ASSUME ActivationInv, Bind PROVE ActivationInv'
  <1>1. /\ driver.todo # <<>> /\ driver.todo[1] = "Bind"
        /\ files' = [files EXCEPT ![driver.phase].bound[driver.slot] = TRUE]
        /\ driver' = Then(driver) /\ UNCHANGED <<now, can>>
    BY DEF Bind, Doing, Step, envVars
  <1>2. driver \in Drivers
    BY Zenon DEF ActivationInv, ActivationTypes
  <1>3. driver.todo[1] \in ArtifactSteps
    BY <1>1 DEF ArtifactSteps
  <1>4. /\ driver.phase \in Phases /\ driver.slot \in Generations
        /\ files[driver.phase].auth # None /\ ~Ahead("WriteReceipt")
    BY <1>1, <1>3, FetchesAuthorized, Zenon
  <1>5. PICK p \in Phases : p = driver.phase
    BY <1>4, Zenon
  <1>6. /\ driver' \in Drivers /\ driver'.todo = Tail(driver.todo)
        /\ \/ driver' = Idle
           \/ /\ driver'.phase = driver.phase /\ driver'.slot = driver.slot
              /\ driver'.at = driver.at /\ driver'.got = driver.got
    BY <1>1, <1>2, ThenFields, Zenon
  <1>7. /\ Ahead("Bind")
        /\ (\A x : Ahead(x)' => Ahead(x)) /\ (\A x : Ahead(x) => x = "Bind" \/ Ahead(x)')
        /\ (\A x : NeverAfter("Bind", x) => ~Ahead(x)')
    BY <1>1, <1>6, AtStep, Zenon
  <1>8. ~Ahead("WriteArtifact") /\ ~Ahead("WriteArtifact")'
    <2>1. NeverAfter("Bind", "WriteArtifact") /\ "WriteArtifact" # "Bind"
      BY DEF NeverAfter
    <2> QED BY <1>7, <2>1, Zenon
  <1>9. files[p].art[driver.slot] # None
    BY <1>5, <1>7, <1>8, Zenon DEF ActivationInv, Fetching
  <1>10. PICK f : f = WithBound(files[p], driver.slot)
    BY Zenon
  <1>11. files[p] \in PhaseFiles
    BY Zenon DEF ActivationInv, ActivationTypes
  <1>12. /\ f \in PhaseFiles /\ f.auth = files[p].auth /\ f.art = files[p].art
              /\ f.receipt = files[p].receipt
         /\ f.bound[driver.slot]
         /\ \A h \in Generations : h # driver.slot => f.bound[h] = files[p].bound[h]
    <2>1. driver.slot \in Generations
      BY <1>4, Zenon
    <2> QED BY <1>10, <1>11, <2>1, ArtifactBinds
  <1>13. files' = [files EXCEPT ![p] = f]
    BY <1>1, <1>5, <1>10, Zenon DEF WithBound
  <1>14. ArtifactsOk(f, p)
    <2> SUFFICES ASSUME NEW g \in Generations
                 PROVE  /\ f.art[g] # None =>
                             /\ f.auth # None /\ f.auth[1] <= f.art[g][1].signedAt
                             /\ f.art[g][1].phase = p
                        /\ f.bound[g] => f.art[g] # None
      BY Zenon DEF ArtifactsOk
    <2>1. FilesOk(p)
      BY Zenon DEF ActivationInv
    <2>2. f.bound[g] => f.art[g] # None
      BY <1>9, <1>10, <1>12, <2>1, Zenon DEF FilesOk
    <2> QED BY <1>10, <1>12, <2>1, <2>2, Zenon DEF FilesOk
  <1>15. /\ files' \in [Phases -> PhaseFiles] /\ files'[p] = f
         /\ \A q \in Phases : q # p => files'[q] = files[q]
         /\ \A q \in Phases : files'[q].auth = files[q].auth /\ files'[q].receipt = files[q].receipt
         /\ \A q \in Phases : FilesOk(q)'
         /\ SignedUnderAuthorization' /\ Follows(can, can')
         /\ files'["schedule"].receipt = files["schedule"].receipt
    BY <1>1, <1>10, <1>12, <1>13, <1>14, FilesChanged, Zenon
  <1>16. ActivationTypes'
    BY <1>1, <1>6, <1>15, Zenon DEF ActivationInv, ActivationTypes
  <1>17. CASE driver' = Idle
    BY <1>15, <1>16, <1>17, DriverStopped, Zenon DEF ActivationInv
  <1>18. CASE /\ driver'.phase = driver.phase /\ driver'.slot = driver.slot
              /\ driver'.at = driver.at /\ driver'.got = driver.got
    <2>1. FilesGrow
      <3>1. ASSUME NEW q \in Phases, NEW g \in Generations,
                     files[q].bound[g] PROVE files'[q].bound[g]
        <4>1. CASE q = p
          BY <1>12, <1>15, <3>1, <4>1, Zenon
        <4>2. CASE q # p
          BY <1>15, <3>1, <4>2, Zenon
        <4> QED BY <4>1, <4>2, Zenon
      <3> QED BY <1>15, <3>1, Zenon DEF FilesGrow
    <2>2. DriverPlan'
      BY <1>1, <1>6, <1>18, <2>1, DriverGoesOn, Zenon
    <2>3. \A x \in {"WriteAuthorization", "Stamp", "Pending"} : x # "Bind"
      OBVIOUS
    <2>4. Authorizing'
      BY <1>1, <1>7, <1>15, <1>18, <2>3, AuthorizingStays, Zenon
    <2>5. /\ files'[driver'.phase].auth # None /\ files'[driver'.phase].art[driver'.slot] # None
          /\ files'[driver'.phase].auth = files[driver.phase].auth
      <3>1. /\ files[p].auth # None /\ driver'.phase = p /\ driver'.slot = driver.slot
            /\ driver.phase = p
        BY <1>4, <1>5, <1>18, Zenon
      <3>2. /\ files'[p].auth # None /\ files'[p].art[driver.slot] # None
            /\ files'[p].auth = files[p].auth
        BY <1>9, <1>12, <1>15, <3>1, Zenon
      <3> QED BY <3>1, <3>2, Zenon
    <2>6. Fetching'
      BY <1>8, <1>18, <2>5, Zenon DEF Fetching, ActivationInv
    <2>7. Verifying'
      BY <1>4, <1>7, Zenon DEF Verifying
    <2> QED BY <1>15, <1>16, <2>2, <2>4, <2>6, <2>7, Zenon DEF ActivationInv
  <1> QED BY <1>6, <1>17, <1>18, Zenon

LEMMA WriteConfirmationKeeps ==
  ASSUME ActivationInv, WriteConfirmation PROVE ActivationInv'
  <1>1. PICK conf : conf = <<driver.at = 1>>
    BY Zenon
  <1>2. /\ driver.todo # <<>> /\ driver.todo[1] = "WriteConfirmation"
        /\ files' = [files EXCEPT ![driver.phase].conf[driver.slot] = conf]
        /\ driver' = Then([driver EXCEPT !.at = 0]) /\ UNCHANGED <<now, can>>
    BY <1>1 DEF WriteConfirmation, Doing, Step, envVars
  <1>3. driver \in Drivers /\ conf \in Seq(BOOLEAN)
    <2>1. conf \in Seq(BOOLEAN)
      BY ONLY <1>1
    <2> QED BY <2>1, Zenon DEF ActivationInv, ActivationTypes
  <1>4. driver.phase \in Phases /\ driver.slot \in Generations
    <2>1. driver.todo[1] \in PhaseSteps
      BY <1>2 DEF PhaseSteps
    <2> QED BY <1>2, <2>1, StepPhase, Zenon
  <1>5. PICK p \in Phases : p = driver.phase
    BY <1>4, Zenon
  <1>6. PICK d : d = [driver EXCEPT !.at = 0]
    BY Zenon
  <1>7. /\ d \in Drivers /\ d.at = 0 /\ d.phase = driver.phase /\ d.slot = driver.slot
        /\ d.got = driver.got /\ d.todo = driver.todo
    BY ONLY <1>3, <1>6, Zenon DEF Drivers
  <1>8. /\ driver' \in Drivers /\ driver'.todo = Tail(driver.todo)
        /\ \/ driver' = Idle
           \/ /\ driver'.phase = driver.phase /\ driver'.slot = driver.slot
              /\ driver'.at = 0 /\ driver'.got = driver.got
    BY <1>2, <1>6, <1>7, DriverAfter, Zenon
  <1>9. /\ Ahead("WriteConfirmation")
        /\ (\A x : Ahead(x)' => Ahead(x)) /\ (\A x : Ahead(x) => x = "WriteConfirmation"
             \/ Ahead(x)')
    BY <1>2, <1>8, AtStep, Zenon
  <1>10. ~Ahead("WriteAuthorization")
    BY <1>9, Zenon DEF ActivationInv, DriverPlan, AheadOf
  <1>11. PICK f : f = WithConfirmation(files[p], driver.slot, conf)
    BY Zenon
  <1>12. files[p] \in PhaseFiles
    BY Zenon DEF ActivationInv, ActivationTypes
  <1>13. /\ f \in PhaseFiles /\ f.auth = files[p].auth /\ f.art = files[p].art
         /\ f.receipt = files[p].receipt /\ f.bound = files[p].bound
    BY <1>3, <1>4, <1>11, <1>12, ConfirmationWritten, Zenon
  <1>14. files' = [files EXCEPT ![p] = f]
    BY <1>2, <1>5, <1>11, Zenon DEF WithConfirmation
  <1>15. ArtifactsOk(f, p)
    <2>1. FilesOk(p)
      BY Zenon DEF ActivationInv
    <2> QED BY <1>13, <2>1, Zenon DEF FilesOk, ArtifactsOk
  <1>16. /\ files' \in [Phases -> PhaseFiles] /\ files'[p] = f
         /\ \A q \in Phases : q # p => files'[q] = files[q]
         /\ \A q \in Phases : files'[q].auth = files[q].auth /\ files'[q].receipt = files[q].receipt
         /\ \A q \in Phases : FilesOk(q)'
         /\ SignedUnderAuthorization' /\ Follows(can, can')
         /\ files'["schedule"].receipt = files["schedule"].receipt
    BY <1>2, <1>13, <1>14, <1>15, FilesChanged, Zenon
  <1>17. \A q \in Phases : files'[q].art = files[q].art /\ files'[q].bound = files[q].bound
    BY <1>13, <1>16, Zenon
  <1>18. ActivationTypes'
    BY <1>2, <1>8, <1>16, Zenon DEF ActivationInv, ActivationTypes
  <1>19. CASE driver' = Idle
    BY <1>16, <1>18, <1>19, DriverStopped, Zenon DEF ActivationInv
  <1>20. CASE /\ driver'.phase = driver.phase /\ driver'.slot = driver.slot
              /\ driver'.at = 0 /\ driver'.got = driver.got
    <2>1. FilesGrow
      BY <1>16, <1>17, Zenon DEF FilesGrow
    <2>2. DriverPlan'
      BY <1>2, <1>8, <1>20, <2>1, DriverGoesOn, Zenon
    <2>3. Authorizing'
      BY <1>9, <1>10, Zenon DEF Authorizing
    <2>4. \A x \in ArtifactSteps \cup {"Authorized", "StatusMatches", "WriteReceipt"} :
            x # "WriteConfirmation"
      BY DEF ArtifactSteps
    <2>5. \A x \in ArtifactSteps \cup {"Authorized", "StatusMatches", "WriteReceipt"} :
            Ahead(x)' <=> Ahead(x)
      BY <1>9, <2>4, Zenon
    <2>6. Fetching'
      <3>1. \A x \in {"Answer", "Recover", "CallReplace", "WriteArtifact", "Bind"} : Ahead(x)'
              <=> Ahead(x)
        BY <2>5, Zenon DEF ArtifactSteps
      <3>2. (Ahead("Authorized")' <=> Ahead("Authorized"))
            /\ (AheadOf(ArtifactSteps)' <=> AheadOf(ArtifactSteps))
            /\ (AheadOf({"Answer", "Recover", "CallReplace"})'
                 <=> AheadOf({"Answer", "Recover", "CallReplace"}))
        BY <2>5, <3>1, Zenon DEF AheadOf
      <3>3. /\ files'[driver'.phase].auth = files[driver.phase].auth
            /\ files'[driver'.phase].art = files[driver.phase].art
        BY <1>4, <1>16, <1>17, <1>20, Zenon
      <3> QED BY <1>20, <3>1, <3>2, <3>3, Zenon DEF ActivationInv, Fetching
    <2>7. Verifying'
      <3>1. "execute" \in Phases
        BY DEF Phases
      <3>2. files'["execute"].art = files["execute"].art
        BY <1>17, <3>1, Zenon
      <3> QED BY <1>16, <1>20, <2>5, <3>2, Zenon DEF ActivationInv, Verifying
    <2> QED BY <1>16, <1>18, <2>2, <2>3, <2>6, <2>7, Zenon DEF ActivationInv
  <1> QED BY <1>8, <1>19, <1>20, Zenon

\* The receipt is of an artifact that was bound, hence signed under the
\* authorization, and for the execution of the operation that was scheduled.
LEMMA WriteReceiptKeeps ==
  ASSUME ActivationInv, WriteReceipt PROVE ActivationInv'
  <1>1. PICK art, v : /\ art = files[driver.phase].art[driver.slot][1]
                      /\ v = [id |-> art.id, op |-> art.op, signedAt |-> art.signedAt,
                              authorizedAt |-> files[driver.phase].auth[1], verifiedAt |-> now]
    BY Zenon
  <1>2. /\ driver.todo # <<>> /\ driver.todo[1] = "WriteReceipt" /\ driver' = Idle
        /\ files[driver.phase].receipt = None /\ files[driver.phase].bound[driver.slot]
        /\ files' = [files EXCEPT ![driver.phase].receipt = <<v>>] /\ UNCHANGED <<now, can>>
    BY <1>1, Zenon DEF WriteReceipt, Doing, Step, envVars, TimelineOrdered
  <1>3. driver.phase \in Phases /\ driver.slot \in Generations
    <2>1. driver.todo[1] \in PhaseSteps
      BY <1>2 DEF PhaseSteps
    <2> QED BY <1>2, <2>1, StepPhase, Zenon
  <1>4. PICK p \in Phases : p = driver.phase
    BY <1>3, Zenon
  <1>5. ActivationTypes /\ FilesOk(p) /\ now \in Nat
    BY Zenon DEF ActivationInv, ActivationTypes
  <1>6. files[p].art[driver.slot] # None
    BY <1>2, <1>3, <1>4, <1>5, Zenon DEF FilesOk
  <1>7. /\ art \in Signature /\ files[p].auth # None /\ files[p].auth[1] \in Nat
        /\ files[p].auth[1] <= art.signedAt
    BY <1>1, <1>3, <1>4, <1>5, <1>6, FileTimes, Zenon DEF FilesOk
  <1>8. /\ v \in Verified /\ v.id = art.id /\ v.op = art.op /\ v.signedAt = art.signedAt
        /\ v.authorizedAt = files[p].auth[1] /\ v.verifiedAt = now
    <2>1. art.id \in Nat /\ art.op \in Nat /\ art.signedAt \in Nat
      BY <1>7 DEF Signature
    <2>2. PICK a \in Nat : a = files[p].auth[1]
      BY <1>7, Zenon
    <2>3. v = [id |-> art.id, op |-> art.op, signedAt |-> art.signedAt,
               authorizedAt |-> a, verifiedAt |-> now]
      BY <1>1, <1>4, <2>2, Zenon
    <2>4. /\ v \in Verified /\ v.id = art.id /\ v.op = art.op /\ v.signedAt = art.signedAt
          /\ v.authorizedAt = a /\ v.verifiedAt = now
      BY ONLY <1>5, <2>1, <2>2, <2>3 DEF Verified
    <2> QED BY <2>2, <2>4, Zenon
  <1>9. PICK q \in Seq(Verified) : q = <<v>> /\ q # None /\ q[1] = v
    <2>1. PICK V : V = Verified
      BY Zenon
    <2>2. v \in V
      BY <1>8, <2>1, Zenon
    <2>3. <<v>> \in Seq(V) /\ <<v>> # <<>> /\ <<v>>[1] = v
      BY ONLY <2>2
    <2> QED BY <2>1, <2>3, Zenon DEF None
  <1>10. PICK f : f = WithReceipt(files[p], q)
    BY Zenon
  <1>11. files[p] \in PhaseFiles
    BY <1>5, Zenon DEF ActivationTypes
  <1>12. /\ f \in PhaseFiles /\ f.auth = files[p].auth /\ f.art = files[p].art
         /\ f.receipt = q /\ f.bound = files[p].bound
    BY <1>10, <1>11, ReceiptWritten, Zenon
  <1>13. files' = [files EXCEPT ![p] = f]
    BY <1>2, <1>4, <1>9, <1>10, Zenon DEF WithReceipt
  <1>14. /\ files' \in [Phases -> PhaseFiles] /\ files'[p] = f
         /\ \A x \in Phases : x # p => files'[x] = files[x]
    BY <1>12, <1>13, FileChange, Zenon
  <1>15. "schedule" \in Phases /\ "execute" \in Phases /\ "schedule" # "execute"
    BY DEF Phases
  <1>16. files[p].receipt = None /\ p = "schedule" =>
           files["execute"].auth = None /\ files["execute"].receipt = None
    BY <1>15, Zenon DEF ActivationInv, FilesOk, SignedUnderAuthorization
  <1>17. files[p].receipt = None
    BY <1>2, <1>4, Zenon
  <1>18. ASSUME NEW x \in Phases PROVE FilesOk(x)'
    <2>1. FilesOk(x)
      BY Zenon DEF ActivationInv
    <2>2. CASE x = p
      <3>1. now <= now
        BY <1>5
      <3>2. p = "execute" => files'["schedule"] = files["schedule"]
        BY <1>14, <1>15, Zenon
      <3>3. files'[x].receipt # None => files'[x].receipt[1].verifiedAt <= now'
        BY <1>2, <1>8, <1>9, <1>12, <1>14, <2>2, <3>1, Zenon
      <3>4. files'[x].auth = files[x].auth /\ files'[x].art = files[x].art
            /\ files'[x].bound = files[x].bound
        BY <1>12, <1>14, <2>2, Zenon
      <3> QED BY <1>2, <2>1, <2>2, <3>2, <3>3, <3>4, Zenon DEF FilesOk, Since
    <2>3. CASE x # p
      <3>1. files'[x] = files[x]
        BY <1>14, <2>3, Zenon
      <3>2. x = "execute" => files[x].auth = None
        BY <1>4, <1>16, <1>17, <2>3, Zenon DEF Phases
      <3> QED BY <1>2, <2>1, <3>1, <3>2, Zenon DEF FilesOk, Since
    <2> QED BY <2>2, <2>3, Zenon
  <1>19. p = "execute" =>
           art.op = files["schedule"].receipt[1].op /\ files["schedule"].receipt[1].id < art.id
    <2>1. Advanced(driver.todo, Tail(driver.todo))
      BY <1>2, TailAdvanced, Zenon DEF ActivationInv, DriverPlan
    <2>2. NeverAfter("WriteReceipt", "StatusMatches") /\ "WriteReceipt" # "StatusMatches"
      BY DEF NeverAfter
    <2>3. Ahead("WriteReceipt") /\ ~Ahead("StatusMatches")
      BY <1>2, <2>1, <2>2, Zenon DEF Advanced, Ahead
    <2> QED BY <1>1, <1>4, <2>3, Zenon DEF ActivationInv, Verifying
  <1>20. SignedUnderAuthorization'
    <2>1. ASSUME NEW x \in Phases, files'[x].receipt # None
          PROVE  files'[x].receipt[1].authorizedAt <= files'[x].receipt[1].signedAt
      <3>1. CASE x = p
        BY <1>7, <1>8, <1>9, <1>12, <1>14, <3>1, Zenon
      <3>2. CASE x # p
        BY <1>14, <2>1, <3>2, Zenon DEF ActivationInv, SignedUnderAuthorization
      <3> QED BY <3>1, <3>2, Zenon
    <2>2. ASSUME files'["execute"].receipt # None
          PROVE  /\ files'["schedule"].receipt # None
                 /\ files'["schedule"].receipt[1].op = files'["execute"].receipt[1].op
                 /\ files'["schedule"].receipt[1].id < files'["execute"].receipt[1].id
                 /\ files'["schedule"].receipt[1].verifiedAt <= files'["execute"].receipt[1].authorizedAt
      <3>1. p # "schedule"
        BY <1>14, <1>15, <1>16, <1>17, <2>2, Zenon
      <3>2. p = "execute"
        BY <3>1, Zenon DEF Phases
      <3>3. files'["schedule"] = files["schedule"] /\ files'["execute"].receipt[1] = v
        BY <1>9, <1>12, <1>14, <1>15, <3>2, Zenon
      <3>4. /\ files["schedule"].receipt # None
            /\ files["schedule"].receipt[1].verifiedAt <= files[p].auth[1]
        BY <1>5, <1>7, <3>2, Zenon DEF FilesOk
      <3> QED BY <1>8, <1>19, <3>2, <3>3, <3>4, Zenon
    <2> QED BY <2>1, <2>2, Zenon DEF SignedUnderAuthorization
  <1>21. ActivationTypes'
    BY <1>2, <1>5, <1>14, IdleFields, Zenon DEF ActivationTypes
  <1> QED BY <1>2, <1>18, <1>20, <1>21, DriverStopped, Zenon DEF ActivationInv

LEMMA CallConfirmKeeps ==
  ASSUME ActivationInv, CallConfirm PROVE ActivationInv'
  <1>1. /\ driver.todo # <<>> /\ driver.todo[1] = "CallConfirm" /\ UNCHANGED <<now, files>>
    BY Zenon DEF CallConfirm, Doing, Step, envVars
  <1>2. now \in Nat /\ CanisterOk(can) /\ 0 \in Nat /\ 1 \in Nat
    BY DEF ActivationInv, ActivationTypes
  <1>3. \/ \E gen, ok : can' = Confirmed(can, gen, ok)
        \/ UNCHANGED can
    BY Zenon DEF CallConfirm
  <1>4. Follows(can, can')
    BY <1>2, <1>3, CanSame, ConfirmedFollows, Zenon
  <1>5. driver' = Idle \/ \E a \in {0, 1} : driver' = Then([driver EXCEPT !.at = a])
    <2>1. \/ driver' = IF landed[1].ok THEN Then([driver EXCEPT !.at = 1]) ELSE Idle
          \/ \E x : driver' = Then([driver EXCEPT !.at = IF x.ok THEN 1 ELSE 0])
      BY Zenon DEF CallConfirm
    <2>2. CASE driver' = IF landed[1].ok THEN Then([driver EXCEPT !.at = 1]) ELSE Idle
      BY <2>2, Zenon
    <2>3. ASSUME NEW x, driver' = Then([driver EXCEPT !.at = IF x.ok THEN 1 ELSE 0])
          PROVE  \E a \in {0, 1} : driver' = Then([driver EXCEPT !.at = a])
      <3>1. (IF x.ok THEN 1 ELSE 0) \in {0, 1}
        BY Zenon
      <3> QED BY <2>3, <3>1, Zenon
    <2> QED BY <2>1, <2>2, <2>3, Zenon
  <1>6. CASE driver' = Idle
    <2>1. now' \in Nat /\ now' >= now
      BY <1>1, <1>2
    <2>2. (\A p \in Phases : FilesOk(p)') /\ SignedUnderAuthorization'
      BY <1>1, <1>4, <2>1, FilesStay, Zenon
    <2>3. ActivationTypes'
      BY <1>1, <1>4, <1>6, IdleFields, Zenon DEF ActivationInv, ActivationTypes, Follows
    <2> QED BY <1>6, <2>2, <2>3, DriverStopped, Zenon DEF ActivationInv
  <1>7. ASSUME NEW a \in {0, 1}, driver' = Then([driver EXCEPT !.at = a]) PROVE ActivationInv'
    <2>1. /\ a \in Nat /\ driver.todo[1] \in {"ReadAttestation", "CallConfirm"}
          /\ driver.todo[1] \notin {"Stamp", "Answer", "Recover", "CallReplace", "WriteArtifact"}
          /\ driver.todo[1] # "Pending" /\ driver.todo[1] # "Authorized"
          /\ driver.todo[1] # "StatusMatches"
      BY <1>1
    <2> QED BY <1>1, <1>4, <1>7, <2>1, PlainStep, Zenon
  <1> QED BY <1>5, <1>6, <1>7, Zenon

\* A command may stop anywhere, and the seal's ends with its receipt.
LEMMA CommandStops ==
  ASSUME ActivationInv, driver' = Idle, UNCHANGED <<now, can, files>> PROVE ActivationInv'
  <1>1. now' \in Nat /\ now' >= now
    <2>1. now \in Nat
      BY Zenon DEF ActivationInv, ActivationTypes
    <2> QED BY <2>1
  <1>2. (\A p \in Phases : FilesOk(p)') /\ SignedUnderAuthorization'
    BY <1>1, CanSame, FilesStay, Zenon
  <1>3. ActivationTypes'
    BY IdleFields, Zenon DEF ActivationInv, ActivationTypes
  <1> QED BY <1>2, <1>3, DriverStopped, Zenon DEF ActivationInv

LEMMA DriverStepKeeps ==
  ASSUME ActivationInv, DriverStep PROVE ActivationInv'
  <1>1. CASE Abort \/ WriteSealReceipt
    <2>1. driver' = Idle /\ UNCHANGED <<now, can, files>>
      BY <1>1 DEF Abort, WriteSealReceipt, envVars
    <2> QED BY <2>1, CommandStops, Zenon
  <1>2. CASE CheckPasses \/ CallSeal \/ Refresh \/ CallPrepare \/ ReadAttestation
             \/ Stamp \/ WriteAuthorization
    BY <1>2, CheckPassesKeeps, CallsKeep, StampKeeps, WriteAuthorizationKeeps, Zenon
  <1>3. CASE Answer \/ Recover \/ WriteArtifact \/ Bind \/ CallReplace \/ CallConfirm
             \/ WriteConfirmation \/ WriteReceipt
    BY <1>3, AnswerKeeps, RecoverKeeps, WriteArtifactKeeps, BindKeeps, CallReplaceKeeps,
       CallConfirmKeeps, WriteConfirmationKeeps, WriteReceiptKeeps, Zenon
  <1> QED BY <1>1, <1>2, <1>3, Zenon DEF DriverStep

\* A command starts over the files that exist.
LEMMA StartKeeps ==
  ASSUME ActivationInv, NEW phase \in Phases, NEW g \in Generations, NEW q, Start(phase, g, q),
         NEW S, Plan(q, S, {}), Startable(S),
         "CallReplace" \in S => g + 1 \in Generations /\ files[phase].bound[g],
         phase = "execute" => files["schedule"].receipt # None
  PROVE  ActivationInv'
  <1>1. WellPlanned(q) /\ StepsOf(q) = S
    BY PlanWhole, Zenon
  <1>2. PICK n : n = None
    BY Zenon
  <1>3. /\ driver' = [phase |-> phase, slot |-> g, at |-> 0, got |-> n, todo |-> q]
        /\ UNCHANGED <<now, can, files>>
    BY <1>2 DEF Start, envVars
  <1>4. q \in Seq(Word) /\ n \in Seq(Signature)
    BY <1>1, <1>2 DEF WellPlanned, None
  <1>5. /\ driver' \in Drivers /\ driver'.todo = q /\ driver'.phase = phase /\ driver'.slot = g
        /\ driver'.got = n
    BY ONLY <1>3, <1>4, phase \in Phases, g \in Generations DEF Drivers
  <1> QED BY <1>1, <1>2, <1>3, <1>5, CommandStarts, Zenon

LEMMA BoundScheduled ==
  ASSUME ActivationInv, NEW phase \in Phases, NEW g \in Generations, files[phase].bound[g],
         phase = "execute"
  PROVE  files["schedule"].receipt # None
  <1>1. FilesOk(phase)
    BY Zenon DEF ActivationInv
  <1>2. files[phase].art[g] # None
    BY <1>1, Zenon DEF FilesOk
  <1>3. files[phase].auth # None
    BY <1>1, <1>2, Zenon DEF FilesOk
  <1> QED BY <1>1, <1>3, Zenon DEF FilesOk

LEMMA StartPrepareKeeps ==
  ASSUME ActivationInv, NEW phase \in Phases, StartPrepare(phase) PROVE ActivationInv'
  <1>1. 0 \in Generations
    BY ActivationAssumption DEF Generations
  <1>2. phase = "execute" => files["schedule"].receipt # None
    BY Zenon DEF StartPrepare
  <1>3. CASE Start(phase, 0, PrepareNew(phase))
    <2>1. PICK G \in SUBSET GateSteps :
            Plan(PrepareNew(phase), G \cup AuthorizeSteps \cup PrepareSteps, {})
      BY PrepareNewPlan, Zenon
    <2>2. PICK S : S = G \cup AuthorizeSteps \cup PrepareSteps
      BY Zenon
    <2>3. Startable(S) /\ "CallReplace" \notin S
      BY <2>2 DEF Startable, GateSteps, AuthorizeSteps, PrepareSteps, LiveSteps, ContextSteps,
                  CallSteps, ArtifactSteps
    <2> QED BY <1>1, <1>2, <1>3, <2>1, <2>2, <2>3, StartKeeps, Zenon
  <1>4. CASE Start(phase, 0, PrepareAgain)
    <2>1. PICK S : S = ((ContextSteps \cup {"SealReceipt"}) \cup {"Authorized"}) \cup RecoverSteps
      BY Zenon
    <2>2. Startable(S) /\ "CallReplace" \notin S
      BY <2>1 DEF Startable, ContextSteps, RecoverSteps, ArtifactSteps
    <2> QED BY <1>1, <1>2, <1>4, <2>1, <2>2, PrepareAgainPlan, StartKeeps, Zenon
  <1> QED BY <1>3, <1>4, Zenon DEF StartPrepare

LEMMA StartReplaceKeeps ==
  ASSUME ActivationInv, NEW phase \in Phases, NEW g \in Generations, StartReplace(phase, g)
  PROVE  ActivationInv'
  <1>1. g + 1 \in Generations /\ files[phase].bound[g] /\ Start(phase, g, Replacement)
    BY Zenon DEF StartReplace
  <1>2. PICK S : S = ((ContextSteps \cup {"SealReceipt"}) \cup {"Authorized"})
                       \cup ContextSteps \cup ReplaceSteps
    BY Zenon
  <1>3. Startable(S)
    BY <1>2 DEF Startable, ContextSteps, ReplaceSteps, ArtifactSteps
  <1> QED BY <1>1, <1>2, <1>3, BoundScheduled, ReplacementPlan, StartKeeps, Zenon

LEMMA StartConfirmKeeps ==
  ASSUME ActivationInv, NEW phase \in Phases, NEW g \in Generations, StartConfirm(phase, g)
  PROVE  ActivationInv'
  <1>1. files[phase].bound[g] /\ Start(phase, g, Confirmation(phase))
    BY Zenon DEF StartConfirm
  <1>2. PICK F \in SUBSET FinalSteps :
          Plan(Confirmation(phase), ConfirmSteps \cup F \cup {"StatusMatches", "WriteReceipt"}, {})
    BY ConfirmationPlan, Zenon
  <1>3. PICK S : S = ConfirmSteps \cup F \cup {"StatusMatches", "WriteReceipt"}
    BY Zenon
  <1>4. Startable(S) /\ "CallReplace" \notin S
    BY <1>3 DEF Startable, ConfirmSteps, FinalSteps, ContextSteps, OpenSteps, ArtifactSteps
  <1> QED BY <1>1, <1>2, <1>3, <1>4, BoundScheduled, StartKeeps, Zenon

LEMMA StartSealKeeps ==
  ASSUME ActivationInv, StartSeal PROVE ActivationInv'
  <1>1. PICK q : q = IF seal.reserved THEN ProveSeal ELSE SealCall \o ProveSeal
    BY Zenon
  <1>2. driver' = [Idle EXCEPT !.phase = "seal", !.todo = q] /\ UNCHANGED <<now, can, files>>
    BY <1>1 DEF StartSeal, envVars
  <1>3. PICK S \in {LiveSteps \cup ProofSteps, {"CallSeal"} \cup (LiveSteps \cup ProofSteps)} :
          Plan(q, S, {})
    BY <1>1, ProveSealPlan, SealPlan, Zenon
  <1>4. WellPlanned(q) /\ StepsOf(q) = S
    BY <1>3, PlanWhole, Zenon
  <1>5. /\ Startable(S) /\ "CallReplace" \notin S /\ ~\E x \in PhaseSteps : x \in S
    BY <1>3 DEF Startable, LiveSteps, ProofSteps, PhaseSteps, ArtifactSteps
  <1>6. q \in Seq(Word)
    BY <1>4, Zenon DEF WellPlanned
  <1>7. PICK d : d = Idle
    BY Zenon
  <1>8. d \in Drivers /\ d.got = None
    BY <1>7, IdleFields, Zenon
  <1>9. driver' = [d EXCEPT !.phase = "seal", !.todo = q]
    BY <1>2, <1>7, Zenon
  <1>10. /\ driver' \in Drivers /\ driver'.todo = q /\ driver'.phase = "seal" /\ driver'.got = d.got
    BY ONLY <1>6, <1>8, <1>9, Zenon DEF Drivers
  <1>11. driver'.phase # "execute"
    BY <1>10
  <1> QED BY <1>2, <1>4, <1>5, <1>8, <1>10, <1>11, CommandStarts, Zenon

\* The operator gives the files of a phase up; an execution that was authorized
\* keeps the receipt of its schedule.
LEMMA EmptyFilesType ==
  /\ EmptyFiles \in PhaseFiles /\ EmptyFiles.auth = None /\ EmptyFiles.receipt = None
  /\ \A g \in Generations : EmptyFiles.art[g] = None /\ ~EmptyFiles.bound[g]
  <1>1. PICK n, A, B, C, R : n = None /\ A = Seq(Nat) /\ B = Seq(Signature) /\ C = Seq(BOOLEAN)
                             /\ R = Seq(Verified)
    BY Zenon
  <1>2. n \in A /\ n \in B /\ n \in C /\ n \in R
    BY <1>1 DEF None
  <1>3. EmptyFiles = [auth |-> n, art |-> [g \in Generations |-> n],
                      bound |-> [g \in Generations |-> FALSE],
                      conf |-> [g \in Generations |-> n], receipt |-> n]
    BY <1>1 DEF EmptyFiles
  <1>4. /\ EmptyFiles \in [auth : A, art : [Generations -> B], bound : [Generations -> BOOLEAN],
                           conf : [Generations -> C], receipt : R]
        /\ EmptyFiles.auth = n /\ EmptyFiles.receipt = n
        /\ \A g \in Generations : EmptyFiles.art[g] = n /\ ~EmptyFiles.bound[g]
    BY ONLY <1>2, <1>3
  <1> QED BY <1>1, <1>4, Zenon DEF PhaseFiles

LEMMA NewPathsKeeps ==
  ASSUME ActivationInv, NEW phase \in Phases, NewPaths(phase) PROVE ActivationInv'
  <1>1. /\ driver' = Idle /\ files[phase].receipt = None
        /\ files' = [files EXCEPT ![phase] = EmptyFiles] /\ UNCHANGED <<now, can, driver>>
    BY DEF NewPaths, envVars
  <1>2. /\ files' \in [Phases -> PhaseFiles] /\ files'[phase] = EmptyFiles
        /\ \A q \in Phases : q # phase => files'[q] = files[q]
    BY <1>1, EmptyFilesType, FileChange, Zenon
  <1>3. "schedule" \in Phases /\ "execute" \in Phases /\ "schedule" # "execute"
    BY DEF Phases
  <1>4. phase = "schedule" => files["execute"].auth = None /\ files["execute"].receipt = None
    BY <1>1, <1>3, Zenon DEF ActivationInv, FilesOk, SignedUnderAuthorization
  <1>5. ASSUME NEW x \in Phases PROVE FilesOk(x)'
    <2>1. FilesOk(x)
      BY Zenon DEF ActivationInv
    <2>2. CASE x = phase
      BY <1>2, <2>2, EmptyFilesType, Zenon DEF FilesOk
    <2>3. CASE x # phase
      <3>1. files'[x] = files[x]
        BY <1>2, <2>3, Zenon
      <3>2. phase # "schedule" => files'["schedule"] = files["schedule"]
        BY <1>2, <1>3, Zenon
      <3>3. phase = "schedule" => x = "execute"
        BY <2>3 DEF Phases
      <3>4. x = "execute" /\ files[x].auth # None => files'["schedule"] = files["schedule"]
        BY <1>4, <3>2, Zenon
      <3> QED BY <1>1, <2>1, <3>1, <3>4, Zenon DEF FilesOk, Since
    <2> QED BY <2>2, <2>3, Zenon
  <1>6. SignedUnderAuthorization'
    <2>1. \A x \in Phases : files'[x].receipt = None \/ files'[x] = files[x]
      BY <1>2, EmptyFilesType, Zenon
    <2>2. files'["execute"].receipt # None => files'["schedule"] = files["schedule"]
      BY <1>2, <1>3, <1>4, <2>1, Zenon
    <2> QED BY <1>3, <2>1, <2>2, Zenon DEF ActivationInv, SignedUnderAuthorization
  <1>7. ActivationTypes'
    BY <1>1, <1>2, Zenon DEF ActivationInv, ActivationTypes
  <1> QED BY <1>1, <1>5, <1>6, <1>7, DriverStopped, Zenon DEF ActivationInv

\* The canister and other callers.
LEMMA OthersMove ==
  ASSUME ActivationInv,
         \/ \E phase \in Phases : ControllerPrepares(phase)
         \/ CanisterSigns \/ EmergencyPause \/ RelayerRefreshes
         \/ \E g \in Generations, ok \in BOOLEAN : Lands(g, ok)
  PROVE  ActivationInv'
  <1>1. now \in Nat /\ CanisterOk(can)
    BY Zenon DEF ActivationInv, ActivationTypes
  <1>2. UNCHANGED <<now, files, driver>>
    BY DEF ControllerPrepares, CanisterSigns, EmergencyPause, RelayerRefreshes, Lands, envVars
  <1>3. Follows(can, can')
    <2>1. ASSUME NEW phase \in Phases, ControllerPrepares(phase) PROVE Follows(can, can')
      <3>1. (phase = "schedule") = (can.timelock = None)
        BY <2>1 DEF ControllerPrepares, Admitted
      <3> QED BY <1>1, <2>1, <3>1, PreparedFollows, Zenon DEF ControllerPrepares
    <2>2. CASE CanisterSigns
      BY <1>1, <2>2, AbortedFollows, SignedNowFollows, Zenon DEF CanisterSigns
    <2>3. CASE EmergencyPause
      BY <1>1, <2>3, PauseFollows, Zenon DEF EmergencyPause
    <2>4. CASE RelayerRefreshes
      BY <1>1, <2>4, AttestedFollows, Zenon DEF RelayerRefreshes
    <2>5. ASSUME NEW g, NEW ok, Lands(g, ok) PROVE Follows(can, can')
      BY <2>5, CanSame, Zenon DEF Lands
    <2> QED BY <2>1, <2>2, <2>3, <2>4, <2>5, Zenon
  <1> QED BY <1>2, <1>3, CanisterMoves, Zenon

\* Upgrades leave the activation alone, but for an emergency pause.
LEMMA UpgradesMeanwhile ==
  ASSUME ActivationInv, UpgradeNext PROVE ActivationInv'
  <1>1. CASE PausedMeanwhile
    BY <1>1, OthersMove, Zenon DEF PausedMeanwhile
  <1>2. CASE UNCHANGED <<now, activationVars>>
    <2>1. UNCHANGED <<now, can, files, driver>>
      BY <1>2 DEF activationVars
    <2> QED BY <2>1, CanSame, CanisterMoves, Zenon
  <1>3. PausedMeanwhile \/ UNCHANGED <<now, activationVars>>
    <2>1. CASE ClearChunks
      BY <2>1, Zenon DEF ClearChunks, envVars
    <2>2. CASE (\E m, n \in Modules : StartDirect(m, n))
               \/ \E m \in Modules : \E id \in Upgrades : StartSnsCheck(m, id)
      BY <2>2, Zenon DEF StartDirect, StartSnsCheck, Begin, envVars
    <2>3. CASE Reads \/ KeepSnapshot \/ Stops \/ Sign \/ Upload \/ Send \/ Outcome \/ Report
      BY <2>3, Zenon DEF Reads, KeepSnapshot, Stops, Sign, Upload, Send, Outcome, Report,
         sessionEnv,
                         envVars
    <2>4. CASE (\E r \in installer.live : RequestRuns(r)) \/ AddRoot \/ RootRegisters
               \/ RegistrationCounts
      BY <2>4, Zenon DEF RequestRuns, AddRoot, RootRegisters, RegistrationCounts, SnsChanges,
         envVars
    <2>5. CASE \/ \E m \in Modules : ProposalCalls(m)
               \/ \E id \in Upgrades : RootUpgrades(id) \/ ProposalCounts(id)
      BY <2>5, Zenon DEF ProposalCalls, RootUpgrades, ProposalCounts, SnsChanges, envVars
    <2> QED BY <2>1, <2>2, <2>3, <2>4, <2>5, Zenon DEF UpgradeNext
  <1> QED BY <1>1, <1>2, <1>3, Zenon

LEMMA ActivationInitially == ASSUME Init PROVE ActivationInv
  <1>1. /\ now = 1 /\ files = [p \in Phases |-> EmptyFiles] /\ driver = Idle
        /\ can = NewCanister \/ can = ActivatedCanister
    BY Zenon DEF Init, ActivationInit, ActivatedInit
  <1>2. CanisterOk(can) /\ can.tx = None
    <2>1. CanisterOk(NewCanister) /\ NewCanister.tx = None
      BY DEF CanisterOk, CanisterFields, NewCanister, None
    <2>2. CanisterOk(ActivatedCanister) /\ ActivatedCanister.tx = None
      <3>1. PICK c, l : /\ c = NewCanister
                        /\ l = <<[phase |-> "execute", id |-> 1, op |-> 0, gen |-> 0,
                             signedAt |-> 1]>>
        BY Zenon
      <3>2. PICK d : d = [c EXCEPT !.lifecycle = "Activated", !.paused = FALSE, !.attestedAt = 1,
                                   !.attestedPaused = FALSE, !.nextId = MaxOps, !.last = l]
        BY Zenon
      <3>3. DOMAIN c = CanisterFields /\ c.tx = <<>> /\ c.timelock = <<>>
        BY <3>1 DEF NewCanister, CanisterFields, None
      <3>4. /\ DOMAIN d = CanisterFields /\ d.tx = <<>> /\ d.timelock = <<>>
            /\ d.nextId = MaxOps /\ d.attestedAt = 1
        BY ONLY <3>2, <3>3 DEF CanisterFields
      <3>5. ActivatedCanister = d
        BY <3>1, <3>2, Zenon DEF ActivatedCanister
      <3>6. /\ <<>> \in Seq(Transaction) /\ <<>> \in Seq(Nat) /\ MaxOps \in Nat /\ 1 \in Nat
        BY ActivationAssumption
      <3>7. CanisterOk(d) /\ d.tx = None
        BY <3>4, <3>6, Zenon DEF CanisterOk, None
      <3> QED BY <3>5, <3>7, Zenon
    <2> QED BY <1>1, <2>1, <2>2, Zenon
  <1>3. \A p \in Phases : files[p] = EmptyFiles
    BY <1>1, Zenon
  <1>4. \A p \in Phases : FilesOk(p)
    BY <1>3, EmptyFilesType, Zenon DEF FilesOk
  <1>5. SignedUnderAuthorization
    <2>1. "execute" \in Phases
      BY DEF Phases
    <2> QED BY <1>3, <2>1, EmptyFilesType, Zenon DEF SignedUnderAuthorization
  <1>6. ActivationTypes
    <2>1. now \in Nat /\ files \in [Phases -> PhaseFiles]
      BY <1>1, EmptyFilesType
    <2> QED BY <1>1, <1>2, <2>1, IdleFields, Zenon DEF ActivationTypes
  <1>7. DriverPlan /\ Authorizing /\ Fetching /\ Verifying
    <2>1. driver.phase = "none" /\ driver.got = None /\ StepsOf(driver.todo) = {}
          /\ WellPlanned(driver.todo)
      BY <1>1, IdleFields, NothingLeft, Zenon
    <2>2. driver.phase # "execute"
      BY <2>1
    <2> QED BY <2>1, <2>2, Zenon DEF DriverPlan, Authorizing, Fetching, Verifying, Ahead, AheadOf
  <1> QED BY <1>4, <1>5, <1>6, <1>7, Zenon DEF ActivationInv

LEMMA ActivationInductive == ASSUME ActivationInv, [Next]_vars PROVE ActivationInv'
  <1>1. CASE ActivationNext
    <2>1. ASSUME NEW phase \in Phases,
                 \/ StartPrepare(phase) \/ ControllerPrepares(phase) \/ NewPaths(phase)
                 \/ \E g \in Generations : StartReplace(phase, g) \/ StartConfirm(phase, g)
          PROVE  ActivationInv'
      BY <2>1, StartPrepareKeeps, OthersMove, NewPathsKeeps, StartReplaceKeeps, StartConfirmKeeps,
         Zenon
    <2>2. CASE StartSeal \/ DriverStep
      BY <2>2, StartSealKeeps, DriverStepKeeps, Zenon
    <2>3. CASE CanisterSigns \/ (\E g \in Generations, ok \in BOOLEAN : Lands(g, ok))
               \/ EmergencyPause \/ RelayerRefreshes
      BY <2>3, OthersMove, Zenon
    <2> QED BY <1>1, <2>1, <2>2, <2>3, Zenon DEF ActivationNext
  <1>2. CASE UpgradeNext
    BY <1>2, UpgradesMeanwhile, Zenon
  <1>3. CASE Tick
    BY <1>3, ClockMoves, Zenon
  <1>4. CASE UNCHANGED vars
    <2>1. UNCHANGED <<now, can, files, driver>>
      BY <1>4 DEF vars, activationVars
    <2> QED BY <2>1, CanSame, CanisterMoves, Zenon
  <1> QED BY <1>1, <1>2, <1>3, <1>4, Zenon DEF Next

\* Every activation receipt is of a transaction signed after the operator had
\* authorized it, and an execution was authorized after its schedule had been
\* verified (controller_activation_authorization, recover-activation), however the
\* commands of the operator, their crashes, the canister and Base interleave.
THEOREM AlwaysSignedUnderAuthorization == Spec => []SignedUnderAuthorization
  <1>1. Init => ActivationInv
    BY ActivationInitially, Zenon
  <1>2. ActivationInv /\ [Next]_vars => ActivationInv'
    BY ActivationInductive, Zenon
  <1>3. ActivationInv => SignedUnderAuthorization
    BY Zenon DEF ActivationInv
  <1> QED BY <1>1, <1>2, <1>3, PTL DEF Spec
==============================================================================
