------------------------ MODULE ReleaseChain_proofs ------------------------
(***************************************************************************)
(* Theorems about ReleaseChain for every set of variants, every set of      *)
(* operator processes and every number of faults.                           *)
(*                                                                         *)
(* The invariant Inv has three layers.  A stage is owned by the one process *)
(* that created its invocation record (OwnerInv), which makes it run once;  *)
(* a PASS is of a run that ended (RunInv, ReportInv), and where the tool    *)
(* contents recorded, run and on disk differ somebody edited between        *)
(* (ToolInv); what an audit found stays found (AuditInv), because the       *)
(* reports it stands on are final, and one audit writes it (SealInv).       *)
(***************************************************************************)
EXTENDS ReleaseChain, TLAPS

PinnedStages == OpenroadStages \cup {"gds"}
Runs == Variants \X OpenroadStages \X {"compute", "audit"}

Permits == [status : {"absent", "PASS", "BLOCKED", "torn"}, pin : Contents,
            by : Procs \cup {None}]

Labels ==
    {"idle", "authorizing", "checked", "attempted", "computing", "auditing", "sealing",
     "sealed", "loaded", "verifying", "concluding", "publishing", "rewriting"}

Processes ==
    [at : Labels,
     v : Variants \cup {None}, s : Stages \cup {None},
     verdict : {None, "PASS", "FAIL", "BLOCKED"}, pin : Contents,
     pid : SUBSET Runs, known : SUBSET {"compute", "audit"}, rc : {0, 1}, signal : BOOLEAN]

(* The types of everything, those that TypeOK names and those the proofs    *)
(* need besides.                                                            *)
DocumentType ==
    /\ gate \in [Variants -> {"PASS", "BLOCKED"}]
    /\ auth \in [Variants -> [OpenroadStages -> Permits]]
    /\ attempt \in [Variants -> [Stages -> {"absent", "preflight", "started"}]]
    /\ recorded \in [Variants -> [PinnedStages -> [tool : Contents, auth : Permits]]]
    /\ report \in [Variants -> [Stages -> {"absent", "PASS", "FAIL", "torn"}]]
    /\ clean \in [Variants -> BOOLEAN]

MachineType ==
    /\ completion \in [Variants -> {"absent", "preflight", "PASS", "FAIL", "torn"}]
    /\ html \in Variants \cup {None, "torn"}
    /\ files \in [Variants -> SUBSET (Stages \cup {"place"})]
    /\ tool \in [Variants -> [PinnedStages -> Contents]]
    /\ live \subseteq Runs
    /\ finished \subseteq Runs
    /\ faults \in 0..MaxFaults
    /\ launches \in [Variants -> [Stages -> Nat]]
    /\ used \in [Variants -> [PinnedStages -> Contents]]
    /\ edits \in [Variants -> [PinnedStages -> Nat]]

ProcessType == proc \in [Procs -> Processes]

(* Where an audit is under way, and where it has its preflight record.      *)
Sealing == {"verifying", "concluding", "publishing", "rewriting"}
Auditing == {"loaded"} \cup Sealing

(* What a process has in hand at each of its labels.                        *)
LabelInv ==
    \A p \in Procs :
        /\ proc[p].at # "idle" => proc[p].v \in Variants
        /\ proc[p].at = "authorizing" =>
             proc[p].s \in OpenroadStages /\ proc[p].verdict \in {"PASS", "BLOCKED"}
        /\ proc[p].at \in {"checked", "attempted", "sealing", "sealed"} => proc[p].s \in Stages
        /\ proc[p].at \in {"computing", "auditing"} => proc[p].s \in OpenroadStages
        /\ proc[p].at \in Auditing =>
             proc[p].verdict \in {"PASS", "FAIL"}

TypeInv == DocumentType /\ MachineType /\ ProcessType /\ LabelInv

-----------------------------------------------------------------------------
(* The process that created the invocation record of stage s of v owns the  *)
(* stage until it goes away.                                                *)
Owns(p, v, s) ==
    /\ proc[p].at \in {"attempted", "computing", "auditing", "sealing", "sealed"}
    /\ proc[p].v = v
    /\ proc[p].s = s

(* One process at most owns a stage, because the record is opened with "x"; *)
(* a stage without a record was neither run nor reported.                   *)
OneOwner(v, s) ==
    /\ launches[v][s] <= 1
    /\ attempt[v][s] # "started" => launches[v][s] = 0 /\ report[v][s] = "absent"
    /\ \A p \in Procs : Owns(p, v, s) =>
         /\ attempt[v][s] = "started"
         /\ launches[v][s] = (IF proc[p].at = "attempted" THEN 0 ELSE 1)
         /\ proc[p].at \in {"attempted", "computing", "auditing"} => report[v][s] = "absent"
    /\ \A p, q \in Procs : Owns(p, v, s) /\ Owns(q, v, s) => p = q

OwnerInv == \A v \in Variants, s \in Stages : OneOwner(v, s)

(* The process stands behind what its exit code says: 0 only for a run that *)
(* ended, and for the seal a reopen audit that ended too.                   *)
Computed(v, s) ==
    /\ <<v, s, "compute">> \in finished
    /\ <<v, s, "compute">> \notin live

RunGrounded(v, s) ==
    /\ launches[v][s] = 0 => <<v, s, "compute">> \notin live
    /\ \A p \in Procs : Owns(p, v, s) /\ proc[p].rc = 0 =>
         /\ proc[p].at = "auditing" => Computed(v, s)
         /\ proc[p].at = "sealing" => Computed(v, s) /\ <<v, s, "audit">> \in finished
    /\ report[v][s] = "PASS" => Computed(v, s) /\ <<v, s, "audit">> \in finished

RunInv == \A v \in Variants, s \in OpenroadStages : RunGrounded(v, s)

(* A passing report is of a stage that ran, and of a clean route.           *)
ReportInv ==
    \A v \in Variants :
        /\ \A s \in Stages : report[v][s] = "PASS" => launches[v][s] = 1
        /\ report[v]["post"] = "PASS" => clean[v]

(* Where the tool on disk is not the one that was recorded, somebody edited *)
(* it; where OpenROAD ran another and the recorded one is back, twice.      *)
ToolOk(v, s) ==
    /\ attempt[v][s] = "started" /\ tool[v][s] # recorded[v][s].tool => edits[v][s] >= 1
    /\ launches[v][s] = 1 /\ used[v][s] # recorded[v][s].tool =>
         /\ edits[v][s] >= 1
         /\ tool[v][s] = recorded[v][s].tool => edits[v][s] >= 2

ToolInv == \A v \in Variants, s \in OpenroadStages : ToolOk(v, s)

(* What the audit found passing stays so until it says so, and after.       *)
ChainPassed(v) ==
    /\ gate[v] = "PASS"
    /\ \A s \in Stages : report[v][s] = "PASS"

PinnedTools(v) ==
    Audit[v].inputs =>
        \A s \in OpenroadStages :
            /\ recorded[v][s].tool = recorded[v][s].auth.pin
            /\ used[v][s] # recorded[v][s].tool => edits[v][s] >= 2

AuditInv ==
    /\ \A p \in Procs :
         /\ proc[p].at \in Auditing /\ proc[p].verdict = "PASS" => ChainPassed(proc[p].v)
         /\ proc[p].at \in {"concluding", "publishing", "rewriting"} /\ proc[p].verdict = "PASS" =>
              PinnedTools(proc[p].v)
    /\ \A v \in Variants : completion[v] = "PASS" => ChainPassed(v) /\ PinnedTools(v)

(* The preflight record lets one audit of a variant past, which finds its   *)
(* own verdict in the completion report when it writes that once more.      *)
SealInv ==
    /\ \A p \in Procs : proc[p].at \in Sealing => completion[proc[p].v] # "absent"
    /\ \A p \in Procs : proc[p].at \in {"publishing", "rewriting"} =>
         completion[proc[p].v] = proc[p].verdict
    /\ \A p, q \in Procs :
         proc[p].at \in Sealing /\ proc[q].at \in Sealing /\ proc[p].v = proc[q].v => p = q

Inv == TypeInv /\ OwnerInv /\ RunInv /\ ReportInv /\ ToolInv /\ AuditInv /\ SealInv
-----------------------------------------------------------------------------
(* Types.                                                                   *)

(* The records that the steps of a process make of it are processes.        *)
LEMMA ProcessUpdates ==
    ASSUME NEW r \in Processes
    PROVE  /\ \A a \in Labels : [r EXCEPT !.at = a] \in Processes
           /\ \A a \in Labels, c \in {0, 1} : [r EXCEPT !.at = a, !.rc = c] \in Processes
           /\ \A a \in Labels, g \in {"PASS", "FAIL"} :
                [r EXCEPT !.at = a, !.verdict = g] \in Processes
           /\ \A a \in Labels, b \in SUBSET Runs, k \in SUBSET {"compute", "audit"}, c \in {0, 1} :
                [r EXCEPT !.at = a, !.pid = b, !.known = k, !.rc = c] \in Processes
           /\ \A b \in SUBSET Runs, k \in SUBSET {"compute", "audit"} :
                [r EXCEPT !.pid = b, !.known = k] \in Processes
           /\ \A a \in Labels, b \in SUBSET Runs, c \in {0, 1} :
                [r EXCEPT !.signal = TRUE, !.pid = b, !.rc = c, !.at = a] \in Processes
  BY ZenonT(30) DEF Processes

(* Writing one entry of a table keeps its type.                             *)
LEMMA EntryUpdate ==
    ASSUME NEW S, NEW T, NEW V, NEW f \in [S -> [T -> V]], NEW i \in S, NEW j \in T, NEW x \in V
    PROVE  [f EXCEPT ![i][j] = x] \in [S -> [T -> V]]
  OBVIOUS

(* The records that a process starts with.                                  *)
LEMMA ProcessStarts ==
    /\ NoAuth \in Permits
    /\ Idle \in Processes
    /\ \A v \in Variants, s \in OpenroadStages, n \in Contents, g \in {"PASS", "BLOCKED"} :
         [Idle EXCEPT !.at = "authorizing", !.v = v, !.s = s, !.verdict = g, !.pin = n]
           \in Processes
    /\ \A v \in Variants, s \in Stages :
         [Idle EXCEPT !.at = "checked", !.v = v, !.s = s] \in Processes
    /\ \A v \in Variants, g \in {"PASS", "FAIL"} :
         [Idle EXCEPT !.at = "loaded", !.v = v, !.verdict = g] \in Processes
<1>1. NoAuth \in Permits
  BY ReleaseAssumption DEF NoAuth, Permits
<1>2. Idle \in Processes
  BY ReleaseAssumption DEF Idle, Processes, Labels
<1>0. 0 \in Contents
  BY ReleaseAssumption
<1>3. ASSUME NEW v \in Variants, NEW s \in OpenroadStages, NEW n \in Contents,
             NEW g \in {"PASS", "BLOCKED"}
      PROVE  [Idle EXCEPT !.at = "authorizing", !.v = v, !.s = s, !.verdict = g, !.pin = n]
               \in Processes
  BY DEF Idle, Processes, Labels, Stages
<1>4. ASSUME NEW v \in Variants, NEW s \in Stages
      PROVE  [Idle EXCEPT !.at = "checked", !.v = v, !.s = s] \in Processes
  BY <1>0 DEF Idle, Processes, Labels
<1>5. ASSUME NEW v \in Variants, NEW g \in {"PASS", "FAIL"}
      PROVE  [Idle EXCEPT !.at = "loaded", !.v = v, !.verdict = g] \in Processes
  BY <1>0 DEF Idle, Processes, Labels
<1> QED
  BY <1>1, <1>2, <1>3, <1>4, <1>5, Zenon

(* The initial documents, machine and processes are of their types.         *)
LEMMA TypeInit == Init => TypeInv
<1> SUFFICES ASSUME Init PROVE TypeInv
  OBVIOUS
<1> USE ReleaseAssumption
<1>1. NoAuth \in Permits /\ Idle \in Processes
  BY ProcessStarts
<1>2. DocumentType
  BY <1>1 DEF Init, DocumentType, NoInputs, PinnedStages
<1>3. MachineType
  BY DEF Init, MachineType, PinnedStages, Stages, OpenroadStages
<1>4. ProcessType /\ LabelInv
  BY <1>1 DEF Init, ProcessType, LabelInv, Idle, Auditing, Sealing
<1> QED
  BY <1>2, <1>3, <1>4 DEF TypeInv

(* A tool has a content.                                                    *)
LEMMA ToolBounded ==
    ASSUME MachineType, NEW v \in Variants, NEW s \in PinnedStages
    PROVE  tool[v][s] \in Contents
  BY DEF MachineType

(* What a step leaves alone keeps its type.                                 *)
LEMMA DocumentsKept ==
    ASSUME DocumentType, UNCHANGED documents
    PROVE  DocumentType'
  BY DEF DocumentType, documents

LEMMA MachineKept ==
    ASSUME MachineType, UNCHANGED <<sealed, machine, faults, history>>
    PROVE  MachineType'
  BY DEF MachineType, sealed, machine, history

LEMMA MachineFaulty ==
    ASSUME MachineType, Fault, UNCHANGED <<machine, history>>,
           html' \in Variants \cup {None, "torn"},
           completion' \in [Variants -> {"absent", "preflight", "PASS", "FAIL", "torn"}]
    PROVE  MachineType'
<1>1. faults' \in 0..MaxFaults
  BY ReleaseAssumption DEF Fault, MachineType
<1> QED
  BY <1>1 DEF MachineType, machine, history

(* A step of one process, which becomes the record r.                       *)
HasLabel(r) ==
    /\ r.at # "idle" => r.v \in Variants
    /\ r.at = "authorizing" =>
         r.s \in OpenroadStages /\ r.verdict \in {"PASS", "BLOCKED"}
    /\ r.at \in {"checked", "attempted", "sealing", "sealed"} => r.s \in Stages
    /\ r.at \in {"computing", "auditing"} => r.s \in OpenroadStages
    /\ r.at \in Auditing => r.verdict \in {"PASS", "FAIL"}

LEMMA OneMoves ==
    ASSUME ProcessType, NEW p \in Procs, NEW r, proc' = [proc EXCEPT ![p] = r]
    PROVE  proc'[p] = r /\ \A q \in Procs : q # p => proc'[q] = proc[q]
  BY DEF ProcessType

LEMMA LabelStep ==
    ASSUME ProcessType, LabelInv, NEW p \in Procs, NEW r,
           proc' = [proc EXCEPT ![p] = r], HasLabel(r)
    PROVE  LabelInv'
<1>1. \A q \in Procs : HasLabel(proc[q])
  BY DEF LabelInv, HasLabel
<1>2. \A q \in Procs : HasLabel(proc'[q])
  BY <1>1, OneMoves
<1> QED
  BY <1>2 DEF LabelInv, HasLabel

LEMMA IdleLabel == HasLabel(Idle)
  BY DEF HasLabel, Idle, Auditing, Sealing

(* The fields of a process that has moved on.                               *)
LEMMA ProcessFields ==
    ASSUME ProcessType, NEW p \in Procs, NEW a
    PROVE  LET q == [proc[p] EXCEPT !.at = a]
           IN  q.at = a /\ q.v = proc[p].v /\ q.s = proc[p].s /\ q.verdict = proc[p].verdict
<1>1. proc[p] \in Processes
  BY DEF ProcessType
<1> QED
  BY <1>1 DEF Processes

(* Every step keeps the types.                                              *)
LEMMA TypeNext == ASSUME TypeInv, Next PROVE TypeInv'
<1> USE ReleaseAssumption DEF TypeInv, Auditing, Sealing
<1>1. ASSUME NEW p \in Procs, NEW v \in Variants, NEW s \in OpenroadStages, AuthorizeReads(p, v, s)
      PROVE  TypeInv'
  <2>1. DocumentType'
    BY <1>1, DocumentsKept DEF AuthorizeReads
  <2>2. MachineType'
    BY <1>1, MachineKept DEF AuthorizeReads
  <2> DEFINE g == PermissionVerdict(v, PermissionFor(v, s))
  <2>a. g \in {"PASS", "BLOCKED"} /\ tool[v][s] \in Contents
    BY ToolBounded DEF PermissionVerdict, PinnedStages
  <2>b. proc' = [proc EXCEPT ![p] = [Idle EXCEPT !.at = "authorizing", !.v = v, !.s = s,
                                     !.verdict = g, !.pin = tool[v][s]]]
    BY <1>1 DEF AuthorizeReads
  <2> HIDE DEF g
  <2>3. ProcessType'
    BY <2>a, <2>b, ProcessStarts DEF ProcessType
  <2>4. LabelInv'
    <3>1. HasLabel([Idle EXCEPT !.at = "authorizing", !.v = v, !.s = s, !.verdict = g,
                                !.pin = tool[v][s]])
      BY <2>a DEF HasLabel, Idle
    <3> QED
      BY <2>b, <3>1, LabelStep
  <2> QED
    BY <2>1, <2>2, <2>3, <2>4
<1>2. ASSUME NEW p \in Procs, NEW v \in Variants, NEW s \in Stages, RunnerChecks(p, v, s)
      PROVE  TypeInv'
  <2>1. DocumentType'
    BY <1>2, DocumentsKept DEF RunnerChecks
  <2>2. MachineType'
    BY <1>2, MachineKept DEF RunnerChecks
  <2>3. ProcessType'
    BY <1>2, ProcessStarts DEF RunnerChecks, ProcessType
  <2>4. LabelInv'
    <3>1. HasLabel([Idle EXCEPT !.at = "checked", !.v = v, !.s = s])
      BY DEF HasLabel, Idle
    <3>2. proc' = [proc EXCEPT ![p] = [Idle EXCEPT !.at = "checked", !.v = v, !.s = s]]
      BY <1>2 DEF RunnerChecks
    <3> QED
      BY <3>1, <3>2, LabelStep
  <2> QED
    BY <2>1, <2>2, <2>3, <2>4
<1>3. ASSUME NEW p \in Procs, NEW v \in Variants, AuditReads(p, v) PROVE TypeInv'
  <2>1. DocumentType'
    BY <1>3, DocumentsKept DEF AuditReads
  <2>2. MachineType'
    BY <1>3, MachineKept DEF AuditReads
  <2> DEFINE g == IF PhaseChecks(v) THEN "PASS" ELSE "FAIL"
  <2>b. proc' = [proc EXCEPT ![p] = [Idle EXCEPT !.at = "loaded", !.v = v, !.verdict = g]]
    BY <1>3 DEF AuditReads
  <2>a. g \in {"PASS", "FAIL"}
    OBVIOUS
  <2> HIDE DEF g
  <2>3. ProcessType'
    BY <2>a, <2>b, ProcessStarts DEF ProcessType
  <2>4. LabelInv'
    <3>1. HasLabel([Idle EXCEPT !.at = "loaded", !.v = v, !.verdict = g])
      BY <2>a DEF HasLabel, Idle
    <3> QED
      BY <2>b, <3>1, LabelStep
  <2> QED
    BY <2>1, <2>2, <2>3, <2>4
<1>4. ASSUME NEW p \in Procs, AuthorizeWrites(p) PROVE TypeInv'
  <2>1. DocumentType'
    BY <1>4 DEF AuthorizeWrites, DocumentType, ProcessType, LabelInv, Processes, Permits, documents
  <2>2. MachineType'
    BY <1>4, MachineKept DEF AuthorizeWrites
  <2>3. ProcessType'
    BY <1>4, ProcessStarts DEF AuthorizeWrites, ProcessType, machine
  <2>4. LabelInv'
    BY <1>4 DEF AuthorizeWrites, LabelInv, ProcessType, Processes, Idle
  <2> QED
    BY <2>1, <2>2, <2>3, <2>4
<1>5. ASSUME NEW p \in Procs, CreateAttempt(p) PROVE TypeInv'
  <2> DEFINE v == proc[p].v
             s == proc[p].s
  <2>p. v \in Variants /\ s \in Stages
    BY <1>5 DEF CreateAttempt, LabelInv
  <2>q. \/ /\ attempt' = [attempt EXCEPT ![v][s] = "started"]
           /\ recorded' = IF s \notin OpenroadStages THEN recorded
                ELSE [recorded EXCEPT ![v][s] = [tool |-> tool[v][s], auth |-> auth[v][s]]]
           /\ proc' = [proc EXCEPT ![p] = [proc[p] EXCEPT !.at = "attempted"]]
        \/ /\ proc' = [proc EXCEPT ![p] = Idle]
           /\ UNCHANGED <<attempt, recorded>>
    BY <1>5 DEF CreateAttempt
  <2>1. DocumentType'
    <3>1. attempt' \in [Variants -> [Stages -> {"absent", "preflight", "started"}]]
      <4>1. [attempt EXCEPT ![v][s] = "started"]
              \in [Variants -> [Stages -> {"absent", "preflight", "started"}]]
        BY <2>p, EntryUpdate DEF DocumentType
      <4> QED
        BY <2>q, <4>1 DEF DocumentType
    <3>2. s \in OpenroadStages =>
            [tool |-> tool[v][s], auth |-> auth[v][s]] \in [tool : Contents, auth : Permits]
      BY <2>p, ToolBounded DEF DocumentType, PinnedStages
    <3>3. recorded' \in [Variants -> [PinnedStages -> [tool : Contents, auth : Permits]]]
      <4>1. s \in OpenroadStages =>
              [recorded EXCEPT ![v][s] = [tool |-> tool[v][s], auth |-> auth[v][s]]]
                \in [Variants -> [PinnedStages -> [tool : Contents, auth : Permits]]]
        BY <2>p, <3>2, EntryUpdate DEF DocumentType, PinnedStages
      <4> QED
        BY <2>q, <4>1 DEF DocumentType
    <3> QED
      BY <1>5, <3>1, <3>3 DEF CreateAttempt, DocumentType
  <2>2. MachineType'
    BY <1>5 DEF CreateAttempt, MachineType, LabelInv, sealed, machine, history, Fault
  <2>u. [proc[p] EXCEPT !.at = "attempted"] \in Processes
    BY ProcessUpdates, Zenon DEF ProcessType, Labels
  <2>3. ProcessType'
    BY <2>q, <2>u, ProcessStarts DEF ProcessType
  <2>4. LabelInv'
    BY <2>p, <2>q DEF LabelInv, ProcessType, Processes, Idle
  <2> QED
    BY <2>1, <2>2, <2>3, <2>4
<1>6. ASSUME NEW p \in Procs, Launch(p) PROVE TypeInv'
  <2>1. DocumentType'
    BY <1>6 DEF Launch, DocumentType, documents
  <2>2. MachineType'
    <3> DEFINE v == proc[p].v
               s == proc[p].s
    <3>1. v \in Variants /\ s \in OpenroadStages /\ s \in Stages /\ s \in PinnedStages
      BY <1>6 DEF Launch, LabelInv, Stages, PinnedStages
    <3>2. tool[v][s] \in Contents /\ launches[v][s] + 1 \in Nat
      BY <3>1, ToolBounded DEF MachineType
    <3>3. launches' \in [Variants -> [Stages -> Nat]]
      BY <1>6, <3>1, <3>2, EntryUpdate DEF Launch, MachineType
    <3>4. used' \in [Variants -> [PinnedStages -> Contents]]
      BY <1>6, <3>1, <3>2, EntryUpdate DEF Launch, MachineType
    <3>5. live' \subseteq Runs
      BY <1>6, <3>1 DEF Launch, MachineType, Runs
    <3> QED
      BY <1>6, <3>3, <3>4, <3>5 DEF Launch, MachineType, sealed
  <2>3. ProcessType'
    BY <1>6, ProcessUpdates, Zenon DEF Launch, ProcessType, Labels
  <2>4. LabelInv'
    BY <1>6 DEF Launch, LabelInv, ProcessType, Processes
  <2> QED
    BY <2>1, <2>2, <2>3, <2>4
<1>7. ASSUME NEW p \in Procs, PollComputePid(p) PROVE TypeInv'
  <2>1. DocumentType'
    BY <1>7 DEF PollComputePid, DocumentType, documents
  <2>2. MachineType'
    BY <1>7 DEF PollComputePid, MachineType, LabelInv, sealed, machine, history, Fault
  <2>a. proc[p].known \cup {"compute"} \in SUBSET {"compute", "audit"} /\ live \in SUBSET Runs
    BY DEF ProcessType, Processes, MachineType
  <2>b. proc' =
          [proc EXCEPT ![p] =
             [proc[p] EXCEPT !.pid = live, !.known = proc[p].known \cup {"compute"}]]
    BY <1>7 DEF PollComputePid, ProcessType
  <2>c. [proc[p] EXCEPT !.pid = live, !.known = proc[p].known \cup {"compute"}] \in Processes
    BY <2>a, ProcessUpdates, Zenon DEF ProcessType
  <2>3. ProcessType'
    BY <2>b, <2>c DEF ProcessType
  <2>4. LabelInv'
    BY <1>7 DEF PollComputePid, LabelInv, ProcessType, Processes, Idle
  <2> QED
    BY <2>1, <2>2, <2>3, <2>4
<1>8. ASSUME NEW p \in Procs, WaitReturns(p) PROVE TypeInv'
  <2>1. DocumentType'
    BY <1>8, DocumentsKept DEF WaitReturns
  <2>2. MachineType'
    <3>1. proc[p].v \in Variants /\ proc[p].s \in OpenroadStages
      BY <1>8 DEF WaitReturns, LabelInv
    <3>2. live' \subseteq Runs
      BY <1>8, <3>1 DEF WaitReturns, MachineType, Runs
    <3> QED
      BY <1>8, <3>2 DEF WaitReturns, MachineType, sealed, history
  <2> DEFINE ok == /\ <<proc[p].v, proc[p].s, "compute">> \in finished
                   /\ proc[p].s \in files[proc[p].v]
             k == IF ok THEN proc[p].known \cup {"audit"} ELSE proc[p].known
             c == IF ok THEN 0 ELSE 1
  <2>a. k \in SUBSET {"compute", "audit"} /\ c \in {0, 1} /\ "auditing" \in Labels
    BY DEF ProcessType, Processes, Labels
  <2>b. proc' =
          [proc EXCEPT ![p] = [proc[p] EXCEPT !.at = "auditing", !.pid = {}, !.known = k, !.rc = c]]
    BY <1>8 DEF WaitReturns, ProcessType
  <2> HIDE DEF k, c
  <2>3. ProcessType'
    BY <2>a, <2>b, ProcessUpdates, Zenon DEF ProcessType
  <2>4. LabelInv'
    <3>1. proc[p].v \in Variants /\ proc[p].s \in OpenroadStages /\ proc[p] \in Processes
      BY <1>8 DEF WaitReturns, LabelInv, ProcessType
    <3>2. HasLabel([proc[p] EXCEPT !.at = "auditing", !.pid = {}, !.known = k, !.rc = c])
      BY <3>1 DEF HasLabel, Processes
    <3> QED
      BY <2>b, <3>2, LabelStep
  <2> QED
    BY <2>1, <2>2, <2>3, <2>4
<1>9. ASSUME NEW p \in Procs, AuditReturns(p) PROVE TypeInv'
  <2>1. DocumentType'
    BY <1>9, DocumentsKept DEF AuditReturns
  <2>2. MachineType'
    BY <1>9, MachineKept DEF AuditReturns
  <2> DEFINE c == IF <<proc[p].v, proc[p].s, "audit">> \in finished THEN proc[p].rc ELSE 1
  <2>a. c \in {0, 1} /\ "sealing" \in Labels
    BY DEF ProcessType, Processes, Labels
  <2>b. proc' = [proc EXCEPT ![p] = [proc[p] EXCEPT !.at = "sealing", !.rc = c]]
    BY <1>9 DEF AuditReturns, ProcessType
  <2> HIDE DEF c
  <2>3. ProcessType'
    BY <2>a, <2>b, ProcessUpdates, Zenon DEF ProcessType
  <2>4. LabelInv'
    BY <2>b, <1>9 DEF AuditReturns, LabelInv, ProcessType, Processes, Stages
  <2> QED
    BY <2>1, <2>2, <2>3, <2>4
<1>10. ASSUME NEW p \in Procs, BuildGds(p) PROVE TypeInv'
  <2>1. DocumentType'
    BY <1>10, DocumentsKept DEF BuildGds
  <2>2. MachineType'
    <3> DEFINE v == proc[p].v
               s == proc[p].s
    <3>1. v \in Variants /\ s \in Stages /\ (s = "gds" => s \in PinnedStages)
      BY <1>10 DEF BuildGds, LabelInv, PinnedStages
    <3>2. launches[v][s] + 1 \in Nat /\ (s = "gds" => tool[v][s] \in Contents)
      BY <3>1, ToolBounded DEF MachineType
    <3>3. launches' \in [Variants -> [Stages -> Nat]]
      BY <1>10, <3>1, <3>2, EntryUpdate DEF BuildGds, MachineType
    <3>4. used' \in [Variants -> [PinnedStages -> Contents]]
      BY <1>10, <3>1, <3>2, EntryUpdate DEF BuildGds, MachineType
    <3>5. files' \in [Variants -> SUBSET (Stages \cup {"place"})]
      <4>1. [files EXCEPT ![v] = @ \cup {s}] \in [Variants -> SUBSET (Stages \cup {"place"})]
        BY <3>1 DEF MachineType
      <4>2. files' = [files EXCEPT ![v] = @ \cup {s}] \/ files' = files
        BY <1>10 DEF BuildGds
      <4> QED
        BY <4>1, <4>2 DEF MachineType
    <3> QED
      BY <1>10, <3>3, <3>4, <3>5 DEF BuildGds, MachineType, sealed
  <2>a. \/ proc' = [proc EXCEPT ![p] = Idle]
        \/ proc' = [proc EXCEPT ![p] = [proc[p] EXCEPT !.at = "sealing"]]
    BY <1>10 DEF BuildGds
  <2>u. [proc[p] EXCEPT !.at = "sealing"] \in Processes
    BY ProcessUpdates, Zenon DEF ProcessType, Labels
  <2>3. ProcessType'
    BY <2>a, <2>u, ProcessStarts DEF ProcessType
  <2>4. LabelInv'
    <3>1. proc[p].v \in Variants /\ proc[p].s \in Stages
      BY <1>10 DEF BuildGds, LabelInv
    <3>2. HasLabel([proc[p] EXCEPT !.at = "sealing"])
      BY <3>1, ProcessFields DEF HasLabel
    <3> QED
      BY <2>a, <3>2, IdleLabel, LabelStep
  <2> QED
    BY <2>1, <2>2, <2>3, <2>4
<1>11. ASSUME NEW p \in Procs, SealReport(p) PROVE TypeInv'
  <2>1. DocumentType'
    <3> DEFINE v == proc[p].v
               s == proc[p].s
    <3>1. v \in Variants /\ s \in Stages
      BY <1>11 DEF SealReport, LabelInv
    <3>2. report' \in [Variants -> [Stages -> {"absent", "PASS", "FAIL", "torn"}]]
      <4>1. \A g \in {"PASS", "FAIL"} : [report EXCEPT ![v][s] = g]
              \in [Variants -> [Stages -> {"absent", "PASS", "FAIL", "torn"}]]
        BY <3>1, EntryUpdate DEF DocumentType
      <4>2. \E g \in {"PASS", "FAIL"} : report' = [report EXCEPT ![v][s] = g]
        BY <1>11 DEF SealReport
      <4> QED
        BY <4>1, <4>2
    <3>3. ASSUME s = "gds"
          PROVE  [recorded EXCEPT ![v][s].tool = tool[v][s]]
                   \in [Variants -> [PinnedStages -> [tool : Contents, auth : Permits]]]
      <4>1. s \in PinnedStages /\ tool[v][s] \in Contents
        BY <3>1, <3>3, ToolBounded DEF PinnedStages
      <4>2. recorded[v][s] \in [tool : Contents, auth : Permits]
        BY <3>1, <4>1 DEF DocumentType
      <4>3. [recorded[v][s] EXCEPT !.tool = tool[v][s]] \in [tool : Contents, auth : Permits]
        BY <4>1, <4>2
      <4> QED
        BY <3>1, <4>1, <4>3, EntryUpdate DEF DocumentType
    <3>4. recorded' \in [Variants -> [PinnedStages -> [tool : Contents, auth : Permits]]]
      BY <1>11, <3>3 DEF SealReport, DocumentType
    <3> QED
      BY <1>11, <3>2, <3>4 DEF SealReport, DocumentType
  <2>2. MachineType'
    BY <1>11, MachineKept DEF SealReport
  <2>3. ProcessType'
    BY <1>11, ProcessUpdates, Zenon DEF SealReport, ProcessType, Labels
  <2>4. LabelInv'
    BY <1>11 DEF SealReport, LabelInv, ProcessType, Processes, Idle
  <2> QED
    BY <2>1, <2>2, <2>3, <2>4
<1>12. ASSUME NEW p \in Procs, Finalize(p) PROVE TypeInv'
  <2>1. DocumentType'
    BY <1>12, DocumentsKept DEF Finalize
  <2>2. MachineType'
    BY <1>12, MachineKept DEF Finalize
  <2>3. ProcessType'
    BY <1>12, ProcessStarts DEF Finalize, ProcessType, machine
  <2>4. LabelInv'
    BY <1>12 DEF Finalize, LabelInv, ProcessType, Processes, Idle
  <2> QED
    BY <2>1, <2>2, <2>3, <2>4
<1>13. ASSUME NEW p \in Procs, AuditPreflight(p) PROVE TypeInv'
  <2>1. DocumentType'
    BY <1>13, DocumentsKept DEF AuditPreflight
  <2>2. MachineType'
    BY <1>13 DEF AuditPreflight, MachineType, LabelInv, sealed, machine, history, Fault
  <2>a. \/ proc' = [proc EXCEPT ![p] = Idle]
        \/ proc' = [proc EXCEPT ![p] = [proc[p] EXCEPT !.at = "verifying"]]
    BY <1>13 DEF AuditPreflight
  <2>u. [proc[p] EXCEPT !.at = "verifying"] \in Processes
    BY ProcessUpdates, Zenon DEF ProcessType, Labels
  <2>3. ProcessType'
    BY <2>a, <2>u, ProcessStarts DEF ProcessType
  <2>4. LabelInv'
    BY <1>13, <2>a DEF AuditPreflight, LabelInv, ProcessType, Processes, Idle
  <2> QED
    BY <2>1, <2>2, <2>3, <2>4
<1>14. ASSUME NEW p \in Procs, AuditVerifies(p) PROVE TypeInv'
  <2>1. DocumentType'
    BY <1>14, DocumentsKept DEF AuditVerifies
  <2>2. MachineType'
    BY <1>14 DEF AuditVerifies, MachineType, LabelInv, sealed, machine, history, Fault
  <2>a. \/ proc' = [proc EXCEPT ![p] = Idle]
        \/ \E g \in {"PASS", "FAIL"} :
             proc' = [proc EXCEPT ![p] = [proc[p] EXCEPT !.at = "concluding", !.verdict = g]]
    BY <1>14 DEF AuditVerifies, ProcessType
  <2>u. \A g \in {"PASS", "FAIL"} :
          [proc[p] EXCEPT !.at = "concluding", !.verdict = g] \in Processes
    BY ProcessUpdates, Zenon DEF ProcessType, Labels
  <2>3. ProcessType'
    BY <2>a, <2>u, ProcessStarts DEF ProcessType
  <2>4. LabelInv'
    BY <1>14, <2>a DEF AuditVerifies, LabelInv, ProcessType, Processes, Idle
  <2> QED
    BY <2>1, <2>2, <2>3, <2>4
<1>15. ASSUME NEW p \in Procs, AuditConcludes(p) PROVE TypeInv'
  <2>1. DocumentType'
    BY <1>15, DocumentsKept DEF AuditConcludes
  <2>2. MachineType'
    BY <1>15 DEF AuditConcludes, MachineType, LabelInv, sealed, machine, history, Fault
  <2>a. \/ proc' = [proc EXCEPT ![p] = Idle]
        \/ proc' = [proc EXCEPT ![p] = [proc[p] EXCEPT !.at = "publishing"]]
    BY <1>15 DEF AuditConcludes
  <2>u. [proc[p] EXCEPT !.at = "publishing"] \in Processes
    BY ProcessUpdates, Zenon DEF ProcessType, Labels
  <2>3. ProcessType'
    BY <2>a, <2>u, ProcessStarts DEF ProcessType
  <2>4. LabelInv'
    BY <1>15, <2>a DEF AuditConcludes, LabelInv, ProcessType, Processes, Idle
  <2> QED
    BY <2>1, <2>2, <2>3, <2>4
<1>16. ASSUME NEW p \in Procs, AuditPublishes(p) PROVE TypeInv'
  <2>1. DocumentType'
    BY <1>16, DocumentsKept DEF AuditPublishes
  <2>2. MachineType'
    <3>1. proc[p].v \in Variants
      BY <1>16 DEF AuditPublishes, LabelInv
    <3>2. html' = proc[p].v /\ UNCHANGED <<completion, machine, faults, history>>
      BY <1>16 DEF AuditPublishes
    <3> QED
      BY <3>1, <3>2 DEF MachineType, machine, history
  <2>a. proc' = [proc EXCEPT ![p] = [proc[p] EXCEPT !.at = "rewriting"]]
    BY <1>16 DEF AuditPublishes
  <2>u. [proc[p] EXCEPT !.at = "rewriting"] \in Processes
    BY ProcessUpdates, Zenon DEF ProcessType, Labels
  <2>3. ProcessType'
    BY <2>a, <2>u, ProcessStarts DEF ProcessType
  <2>4. LabelInv'
    BY <1>16, <2>a DEF AuditPublishes, LabelInv, ProcessType, Processes, Idle
  <2> QED
    BY <2>1, <2>2, <2>3, <2>4
<1>17. ASSUME NEW p \in Procs, SignalRunner(p) PROVE TypeInv'
  <2>1. DocumentType'
    BY <1>17, DocumentsKept DEF SignalRunner
  <2>2. MachineType'
    BY <1>17 DEF SignalRunner, MachineType, LabelInv, sealed, machine, history, Fault
  <2> DEFINE w == proc[p].at \in {"computing", "auditing"}
             b == IF w THEN {} ELSE RefreshComputePid(p)
             c == IF w THEN 1 ELSE proc[p].rc
             a == IF w THEN "sealing" ELSE proc[p].at
  <2>a. b \in SUBSET Runs /\ c \in {0, 1} /\ a \in Labels
    BY DEF ProcessType, Processes, Labels, MachineType, RefreshComputePid
  <2>b. proc' = [proc EXCEPT ![p] = [proc[p] EXCEPT !.signal = TRUE, !.pid = b, !.rc = c, !.at = a]]
    BY <1>17 DEF SignalRunner, ProcessType
  <2> HIDE DEF a, b, c
  <2>3. ProcessType'
    BY <2>a, <2>b, ProcessUpdates, Zenon DEF ProcessType
  <2>4. LabelInv'
    <3>1. /\ proc[p].v \in Variants /\ proc[p].s \in OpenroadStages /\ proc[p] \in Processes
          /\ proc[p].at \in {"computing", "auditing", "sealing", "sealed"}
      BY <1>17 DEF SignalRunner, Trapped, LabelInv, ProcessType
    <3>2. a \in {"sealing", "sealed"}
      BY <3>1 DEF a
    <3> DEFINE u == [proc[p] EXCEPT !.signal = TRUE, !.pid = b, !.rc = c, !.at = a]
    <3>3. u.at = a /\ u.v = proc[p].v /\ u.s = proc[p].s
      BY <3>1 DEF Processes
    <3> HIDE DEF u
    <3>4. HasLabel(u)
      BY <3>1, <3>2, <3>3 DEF HasLabel, Stages
    <3> QED
      BY <2>b, <3>4, LabelStep DEF u
  <2> QED
    BY <2>1, <2>2, <2>3, <2>4
<1>18. ASSUME NEW p \in Procs, RunnerFails(p) PROVE TypeInv'
  <2>1. DocumentType'
    BY <1>18 DEF RunnerFails, DocumentType, LabelInv, Trapped, Stages
  <2>2. MachineType'
    BY <1>18 DEF RunnerFails, MachineType, LabelInv, sealed, machine, history, Fault
  <2>b. proc' = [proc EXCEPT ![p] = Idle]
    BY <1>18 DEF RunnerFails
  <2>3. ProcessType'
    BY <2>b, ProcessStarts DEF ProcessType
  <2>4. LabelInv'
    BY <2>b, IdleLabel, LabelStep
  <2> QED
    BY <2>1, <2>2, <2>3, <2>4
<1>19. ASSUME NEW p \in Procs, KillProc(p) PROVE TypeInv'
  <2>1. DocumentType'
    <3> DEFINE v == proc[p].v
               s == proc[p].s
    <3>1. v \in Variants
      BY <1>19 DEF KillProc, LabelInv
    <3>2. auth' \in [Variants -> [OpenroadStages -> Permits]]
      <4>1. ASSUME proc[p].at = "authorizing"
            PROVE  [auth EXCEPT ![v][s].status = "torn"]
                     \in [Variants -> [OpenroadStages -> Permits]]
        <5>1. s \in OpenroadStages
          BY <4>1 DEF LabelInv
        <5>2. [auth[v][s] EXCEPT !.status = "torn"] \in Permits
          <6>1. auth[v][s] \in Permits
            BY <3>1, <5>1 DEF DocumentType
          <6> QED
            BY <6>1 DEF Permits
        <5> QED
          BY <3>1, <5>1, <5>2, EntryUpdate DEF DocumentType
      <4> QED
        BY <1>19, <4>1 DEF KillProc, DocumentType
    <3>3. attempt' \in [Variants -> [Stages -> {"absent", "preflight", "started"}]]
      BY <1>19, <3>1, EntryUpdate DEF KillProc, DocumentType, LabelInv
    <3>4. report' \in [Variants -> [Stages -> {"absent", "PASS", "FAIL", "torn"}]]
      BY <1>19, <3>1, EntryUpdate DEF KillProc, DocumentType, LabelInv
    <3> QED
      BY <1>19, <3>2, <3>3, <3>4 DEF KillProc, DocumentType
  <2>2. MachineType'
    <3>1. proc[p].v \in Variants
      BY <1>19 DEF KillProc, LabelInv
    <3>2. completion' \in [Variants -> {"absent", "preflight", "PASS", "FAIL", "torn"}]
      BY <1>19, <3>1 DEF KillProc, MachineType
    <3>3. html' \in Variants \cup {None, "torn"}
      BY <1>19 DEF KillProc, MachineType
    <3>4. Fault /\ UNCHANGED <<machine, history>>
      BY <1>19, Zenon DEF KillProc
    <3> QED
      BY <3>2, <3>3, <3>4, MachineFaulty
  <2>3. ProcessType'
    BY <1>19, ProcessStarts, Zenon DEF KillProc, ProcessType, machine
  <2>4. LabelInv'
    BY <1>19 DEF KillProc, LabelInv, ProcessType, Processes, Idle
  <2> QED
    BY <2>1, <2>2, <2>3, <2>4
<1>20. ASSUME NEW l \in live, OpenroadEnds(l) PROVE TypeInv'
  <2>1. DocumentType'
    <3>1. l[1] \in Variants
      BY <1>20 DEF OpenroadEnds, MachineType, Runs
    <3>2. clean' \in [Variants -> BOOLEAN]
      BY <1>20, <3>1 DEF OpenroadEnds, DocumentType
    <3> QED
      BY <1>20, <3>2 DEF OpenroadEnds, DocumentType
  <2>2. MachineType'
    <3>1. l \in Runs /\ l[1] \in Variants /\ l[2] \in Stages
      BY <1>20 DEF OpenroadEnds, MachineType, Runs, Stages
    <3>2. files' \in [Variants -> SUBSET (Stages \cup {"place"})]
      <4>1. [files EXCEPT ![l[1]] = @ \cup {l[2]}] \in [Variants -> SUBSET (Stages \cup {"place"})]
        BY <3>1 DEF MachineType
      <4>2. files' = [files EXCEPT ![l[1]] = @ \cup {l[2]}] \/ files' = files
        BY <1>20 DEF OpenroadEnds
      <4> QED
        BY <4>1, <4>2 DEF MachineType
    <3>3. live' \subseteq Runs /\ finished' \subseteq Runs
      BY <1>20, <3>1 DEF OpenroadEnds, MachineType
    <3> QED
      BY <1>20, <3>2, <3>3 DEF OpenroadEnds, MachineType, sealed, history
  <2>3. ProcessType'
    BY <1>20, ProcessStarts DEF OpenroadEnds, ProcessType, machine
  <2>4. LabelInv'
    BY <1>20 DEF OpenroadEnds, LabelInv, ProcessType, Processes, Idle
  <2> QED
    BY <2>1, <2>2, <2>3, <2>4
<1>21. ASSUME Reboot PROVE TypeInv'
  <2>1. DocumentType'
    BY <1>21, DocumentsKept DEF Reboot
  <2>2. MachineType'
    <3>1. files' \in [Variants -> SUBSET (Stages \cup {"place"})]
      <4>1. \A v \in Variants : files[v] \cap {"final"} \in SUBSET (Stages \cup {"place"})
        BY DEF MachineType
      <4> QED
        BY <1>21, <4>1 DEF Reboot
    <3>2. live' = {} /\ faults' \in 0..MaxFaults
      BY <1>21 DEF Reboot, Fault, MachineType
    <3>3. UNCHANGED <<sealed, tool, finished, history>>
      BY <1>21 DEF Reboot
    <3> QED
      BY <3>1, <3>2, <3>3 DEF MachineType, sealed, history
  <2>3. ProcessType'
    BY <1>21, ProcessStarts DEF Reboot, ProcessType, machine
  <2>4. LabelInv'
    BY <1>21 DEF Reboot, LabelInv, ProcessType, Processes, Idle
  <2> QED
    BY <2>1, <2>2, <2>3, <2>4
<1>22. ASSUME NEW v \in Variants, NEW s \in PinnedStages, EditTool(v, s) PROVE TypeInv'
  <2>1. DocumentType'
    BY <1>22, DocumentsKept DEF EditTool
  <2>2. MachineType'
    <3>1. PICK c \in Contents : tool' = [tool EXCEPT ![v][s] = c]
      BY <1>22 DEF EditTool
    <3>2. faults' \in 0..MaxFaults
      BY <1>22 DEF EditTool, Fault, MachineType
    <3>3. tool' \in [Variants -> [PinnedStages -> Contents]]
      BY <3>1, EntryUpdate DEF MachineType
    <3>4. edits[v][s] + 1 \in Nat /\ edits' = [edits EXCEPT ![v][s] = edits[v][s] + 1]
      BY <1>22 DEF EditTool, MachineType
    <3>5. edits' \in [Variants -> [PinnedStages -> Nat]]
      BY <3>4, EntryUpdate DEF MachineType
    <3>6. UNCHANGED <<sealed, files, live, finished, launches, used>>
      BY <1>22 DEF EditTool
    <3> QED
      BY <3>2, <3>3, <3>5, <3>6 DEF MachineType, sealed
  <2>3. ProcessType'
    BY <1>22, ProcessStarts DEF EditTool, ProcessType, machine
  <2>4. LabelInv'
    BY <1>22 DEF EditTool, LabelInv, ProcessType, Processes, Idle
  <2> QED
    BY <2>1, <2>2, <2>3, <2>4
<1>23. ASSUME NEW p \in Procs, AuditRewrites(p) PROVE TypeInv'
  <2>1. DocumentType'
    BY <1>23, DocumentsKept DEF AuditRewrites
  <2>2. MachineType'
    <3>1. proc[p].v \in Variants /\ proc[p].verdict \in {"PASS", "FAIL"}
      BY <1>23 DEF AuditRewrites, LabelInv
    <3>2. /\ completion' = [completion EXCEPT ![proc[p].v] = proc[p].verdict]
          /\ UNCHANGED <<html, machine, faults, history>>
      BY <1>23 DEF AuditRewrites
    <3> QED
      BY <3>1, <3>2 DEF MachineType, machine, history
  <2>b. proc' = [proc EXCEPT ![p] = Idle]
    BY <1>23 DEF AuditRewrites
  <2>3. ProcessType'
    BY <2>b, ProcessStarts DEF ProcessType
  <2>4. LabelInv'
    BY <2>b, IdleLabel, LabelStep
  <2> QED
    BY <2>1, <2>2, <2>3, <2>4
<1> QED
    BY <1>1, <1>2, <1>3, <1>4, <1>5, <1>6, <1>7, <1>8, <1>9, <1>10, <1>11, <1>12, <1>13, <1>14,
     <1>15, <1>16, <1>17, <1>18, <1>19, <1>20, <1>21, <1>22, <1>23 DEF Next, ProcessStep, PinnedStages

-----------------------------------------------------------------------------
(* One run of each stage.                                                   *)

StageInv == OwnerInv /\ RunInv /\ ReportInv /\ ToolInv

(* A step that starts, ends and passes no stage: no process becomes an      *)
(* owner or moves on as one, a report is only failed or torn, and by a      *)
(* process that goes away.                                                  *)
Calm ==
    /\ UNCHANGED <<recorded, launches, used>>
    /\ live' \subseteq live /\ finished \subseteq finished'
    /\ \A v \in Variants, s \in OpenroadStages :
         \/ tool'[v][s] = tool[v][s] /\ edits'[v][s] = edits[v][s]
         \/ edits'[v][s] = edits[v][s] + 1
    /\ \A v \in Variants : report[v]["post"] = "PASS" => clean'[v] = clean[v]
    /\ \A v \in Variants, s \in Stages :
         /\ attempt'[v][s] = "started" <=> attempt[v][s] = "started"
         /\ \/ report'[v][s] = report[v][s]
            \/ /\ attempt[v][s] = "started" /\ report'[v][s] # "PASS"
               /\ \A q \in Procs : ~ Owns(q, v, s)'
    /\ \A q \in Procs, v \in Variants, s \in Stages : Owns(q, v, s)' =>
         Owns(q, v, s) /\ proc'[q].at = proc[q].at /\ proc'[q].rc = proc[q].rc

(* A calm step keeps what the stages promise.                               *)
LEMMA CalmKeepsStages ==
    ASSUME TypeInv, TypeInv', StageInv, Calm
    PROVE  StageInv'
<1>1. OwnerInv'
  BY DEF StageInv, OwnerInv, OneOwner, Calm
<1>2. RunInv'
  <2> SUFFICES ASSUME NEW v \in Variants, NEW s \in OpenroadStages
               PROVE  RunGrounded(v, s)'
    BY DEF RunInv
  <2>1. s \in Stages
    BY DEF Stages
  <2>2. Computed(v, s) => Computed(v, s)'
    BY DEF Calm, Computed
  <2>3. launches'[v][s] = 0 => <<v, s, "compute">> \notin live'
    BY DEF StageInv, RunInv, RunGrounded, Calm
  <2>4. ASSUME NEW p \in Procs, Owns(p, v, s)', proc'[p].rc = 0
        PROVE  /\ proc'[p].at = "auditing" => Computed(v, s)'
               /\ proc'[p].at = "sealing" =>
                    Computed(v, s)' /\ <<v, s, "audit">> \in finished'
    <3>1. Owns(p, v, s) /\ proc[p].at = proc'[p].at /\ proc[p].rc = 0
      BY <2>1, <2>4 DEF Calm
    <3>2. /\ proc[p].at = "auditing" => Computed(v, s)
          /\ proc[p].at = "sealing" => Computed(v, s) /\ <<v, s, "audit">> \in finished
      BY <3>1 DEF StageInv, RunInv, RunGrounded
    <3>3. finished \subseteq finished'
      BY DEF Calm
    <3> QED
      BY <2>2, <3>1, <3>2, <3>3
  <2>5. report'[v][s] = "PASS" => Computed(v, s)' /\ <<v, s, "audit">> \in finished'
    BY <2>1, <2>2 DEF StageInv, RunInv, RunGrounded, Calm
  <2> QED
    BY <2>3, <2>4, <2>5 DEF RunGrounded
<1>3. ReportInv'
  BY DEF StageInv, ReportInv, Calm, Stages, OpenroadStages
<1>4. ToolInv'
  <2> SUFFICES ASSUME NEW v \in Variants, NEW s \in OpenroadStages
               PROVE  ToolOk(v, s)'
    BY DEF ToolInv
  <2>1. s \in Stages /\ s \in PinnedStages
    BY DEF Stages, PinnedStages
  <2>2. edits[v][s] \in Nat /\ ToolOk(v, s)
    BY <2>1 DEF TypeInv, MachineType, StageInv, ToolInv
  <2> QED
    BY <2>1, <2>2 DEF ToolOk, Calm
<1> QED
  BY <1>1, <1>2, <1>3, <1>4 DEF StageInv

(* A process that ends a step outside the run of a stage owns none.         *)
LEMMA OutsideStages ==
    ASSUME NEW p \in Procs, \A q \in Procs : q # p => proc'[q] = proc[q],
           proc'[p].at \notin {"attempted", "computing", "auditing", "sealing", "sealed"}
    PROVE  \A q \in Procs, v \in Variants, s \in Stages : Owns(q, v, s)' =>
             /\ q # p /\ Owns(q, v, s)
             /\ proc'[q].at = proc[q].at /\ proc'[q].rc = proc[q].rc
  BY DEF Owns

LEMMA OutsideIsCalm ==
    ASSUME TypeInv, NEW p \in Procs, NEW r, proc' = [proc EXCEPT ![p] = r],
           r.at \notin {"attempted", "computing", "auditing", "sealing", "sealed"},
           UNCHANGED <<attempt, recorded, report, clean, machine, history>>
    PROVE  Calm
<1>1. UNCHANGED <<tool, edits>>
  BY DEF machine, history
<1>2. proc'[p] = r /\ \A q \in Procs : q # p => proc'[q] = proc[q]
  BY OneMoves DEF TypeInv
<1>3. \A q \in Procs, v \in Variants, s \in Stages : Owns(q, v, s)' =>
        Owns(q, v, s) /\ proc'[q].at = proc[q].at /\ proc'[q].rc = proc[q].rc
  BY <1>2, OutsideStages
<1> QED
  BY <1>1, <1>3 DEF Calm, machine, history

(* The calm steps.                                                          *)
LEMMA CalmActions ==
    ASSUME TypeInv, TypeInv', StageInv,
           \/ \E p \in Procs, v \in Variants, s \in OpenroadStages : AuthorizeReads(p, v, s)
           \/ \E p \in Procs, v \in Variants, s \in Stages : RunnerChecks(p, v, s)
           \/ \E p \in Procs, v \in Variants : AuditReads(p, v)
           \/ \E p \in Procs :
                \/ AuthorizeWrites(p) \/ PollComputePid(p) \/ Finalize(p) \/ AuditPreflight(p)
                \/ AuditVerifies(p) \/ AuditConcludes(p) \/ AuditPublishes(p) \/ AuditRewrites(p)
                \/ RunnerFails(p) \/ KillProc(p)
           \/ \E l \in live : OpenroadEnds(l)
           \/ Reboot
           \/ \E v \in Variants, s \in PinnedStages : EditTool(v, s)
    PROVE  Calm
<1> USE DEF documents, sealed, machine, history, Fault
<1>1. \A v \in Variants, s \in PinnedStages : edits[v][s] \in Nat
  BY DEF TypeInv, MachineType
<1>2. \A v \in Variants, s \in OpenroadStages : s \in Stages /\ s \in PinnedStages
  BY DEF Stages, PinnedStages
<1>3. ASSUME NEW p \in Procs, NEW v \in Variants, NEW s \in OpenroadStages, AuthorizeReads(p, v, s)
      PROVE  Calm
  <2>1. proc' = [proc EXCEPT ![p] = [Idle EXCEPT !.at = "authorizing", !.v = v, !.s = s,
             !.verdict = PermissionVerdict(v, PermissionFor(v, s)), !.pin = tool[v][s]]]
    BY <1>3 DEF AuthorizeReads
  <2>2. UNCHANGED <<attempt, recorded, report, clean, machine, history>>
    BY <1>3 DEF AuthorizeReads, documents
  <2>3. [Idle EXCEPT !.at = "authorizing", !.v = v, !.s = s,
             !.verdict = PermissionVerdict(v, PermissionFor(v, s)), !.pin = tool[v][s]].at = "authorizing"
    BY DEF Idle
  <2> QED
    BY <2>1, <2>2, <2>3, OutsideIsCalm
<1>4. ASSUME NEW p \in Procs, NEW v \in Variants, NEW s \in Stages, RunnerChecks(p, v, s)
      PROVE  Calm
  <2>1. proc' = [proc EXCEPT ![p] = [Idle EXCEPT !.at = "checked", !.v = v, !.s = s]]
    BY <1>4 DEF RunnerChecks
  <2>2. UNCHANGED <<attempt, recorded, report, clean, machine, history>>
    BY <1>4 DEF RunnerChecks, documents
  <2>3. [Idle EXCEPT !.at = "checked", !.v = v, !.s = s].at = "checked"
    BY DEF Idle
  <2> QED
    BY <2>1, <2>2, <2>3, OutsideIsCalm
<1>5. ASSUME NEW p \in Procs, NEW v \in Variants, AuditReads(p, v)
      PROVE  Calm
  <2>1. proc' = [proc EXCEPT ![p] = [Idle EXCEPT !.at = "loaded", !.v = v,
             !.verdict = IF PhaseChecks(v) THEN "PASS" ELSE "FAIL"]]
    BY <1>5 DEF AuditReads
  <2>2. UNCHANGED <<attempt, recorded, report, clean, machine, history>>
    BY <1>5 DEF AuditReads, documents
  <2>3. [Idle EXCEPT !.at = "loaded", !.v = v,
             !.verdict = IF PhaseChecks(v) THEN "PASS" ELSE "FAIL"].at = "loaded"
    BY DEF Idle
  <2> QED
    BY <2>1, <2>2, <2>3, OutsideIsCalm
<1>6. ASSUME NEW p \in Procs, AuthorizeWrites(p) PROVE Calm
  <2>1. proc' = [proc EXCEPT ![p] = Idle]
    BY <1>6 DEF AuthorizeWrites
  <2>2. UNCHANGED <<attempt, recorded, report, clean, machine, history>>
    BY <1>6 DEF AuthorizeWrites
  <2> QED
    BY <2>1, <2>2, OutsideIsCalm DEF Idle
<1>7. ASSUME NEW p \in Procs, PollComputePid(p) PROVE Calm
  BY <1>7, <1>1, <1>2 DEF PollComputePid, Calm, Owns, Idle, TypeInv, ProcessType, Processes
<1>8. ASSUME NEW p \in Procs, Finalize(p) PROVE Calm
  <2>1. proc' = [proc EXCEPT ![p] = Idle]
    BY <1>8 DEF Finalize
  <2>2. UNCHANGED <<attempt, recorded, report, clean, machine, history>>
    BY <1>8 DEF Finalize, documents
  <2> QED
    BY <2>1, <2>2, OutsideIsCalm DEF Idle
<1>9. ASSUME NEW p \in Procs, AuditPreflight(p) PROVE Calm
  <2>1. \/ proc' = [proc EXCEPT ![p] = Idle]
        \/ proc' = [proc EXCEPT ![p] = [proc[p] EXCEPT !.at = "verifying"]]
    BY <1>9 DEF AuditPreflight, TypeInv, ProcessType
  <2>2. UNCHANGED <<attempt, recorded, report, clean, machine, history>>
    BY <1>9 DEF AuditPreflight, documents
  <2>3. [proc[p] EXCEPT !.at = "verifying"].at = "verifying"
    BY DEF TypeInv, ProcessType, Processes
  <2> QED
    BY <2>1, <2>2, <2>3, OutsideIsCalm DEF Idle
<1>10. ASSUME NEW p \in Procs, AuditVerifies(p) PROVE Calm
  <2>1. \/ proc' = [proc EXCEPT ![p] = Idle]
        \/ \E g \in {"PASS", "FAIL"} :
             proc' = [proc EXCEPT ![p] = [proc[p] EXCEPT !.at = "concluding", !.verdict = g]]
    BY <1>10 DEF AuditVerifies, TypeInv, ProcessType
  <2>2. UNCHANGED <<attempt, recorded, report, clean, machine, history>>
    BY <1>10 DEF AuditVerifies, documents
  <2>3. \A g : [proc[p] EXCEPT !.at = "concluding", !.verdict = g].at = "concluding"
    BY DEF TypeInv, ProcessType, Processes
  <2> QED
    BY <2>1, <2>2, <2>3, OutsideIsCalm DEF Idle
<1>11. ASSUME NEW p \in Procs, AuditConcludes(p) PROVE Calm
  <2>1. \/ proc' = [proc EXCEPT ![p] = Idle]
        \/ proc' = [proc EXCEPT ![p] = [proc[p] EXCEPT !.at = "publishing"]]
    BY <1>11 DEF AuditConcludes, TypeInv, ProcessType
  <2>2. UNCHANGED <<attempt, recorded, report, clean, machine, history>>
    BY <1>11 DEF AuditConcludes, documents
  <2>3. [proc[p] EXCEPT !.at = "publishing"].at = "publishing"
    BY DEF TypeInv, ProcessType, Processes
  <2> QED
    BY <2>1, <2>2, <2>3, OutsideIsCalm DEF Idle
<1>12. ASSUME NEW p \in Procs, AuditPublishes(p) \/ AuditRewrites(p) PROVE Calm
  <2>1. \/ proc' = [proc EXCEPT ![p] = Idle]
        \/ proc' = [proc EXCEPT ![p] = [proc[p] EXCEPT !.at = "rewriting"]]
    BY <1>12 DEF AuditPublishes, AuditRewrites, TypeInv, ProcessType
  <2>2. UNCHANGED <<attempt, recorded, report, clean, machine, history>>
    BY <1>12 DEF AuditPublishes, AuditRewrites, documents
  <2>3. [proc[p] EXCEPT !.at = "rewriting"].at = "rewriting"
    BY DEF TypeInv, ProcessType, Processes
  <2> QED
    BY <2>1, <2>2, <2>3, OutsideIsCalm DEF Idle
<1>13. ASSUME NEW p \in Procs, RunnerFails(p) PROVE Calm
  <2>1. proc'[p].at = "idle" /\ \A q \in Procs : q # p => proc'[q] = proc[q]
    BY <1>13 DEF RunnerFails, Idle, TypeInv, ProcessType
  <2>2. PICK v \in Variants, s \in Stages : v = proc[p].v /\ s = proc[p].s /\ Owns(p, v, s)
    BY <1>13 DEF RunnerFails, Trapped, Owns, TypeInv, LabelInv, Stages
  <2>3. \A q \in Procs, w \in Variants, t \in Stages : Owns(q, w, t)' =>
          q # p /\ Owns(q, w, t) /\ proc'[q].at = proc[q].at /\ proc'[q].rc = proc[q].rc
    BY <2>1, OutsideStages
  <2>4. attempt[v][s] = "started" /\ \A q \in Procs : ~ Owns(q, v, s)'
    BY <2>2, <2>3 DEF StageInv, OwnerInv, OneOwner
  <2>5. \A w \in Variants, t \in Stages :
          report'[w][t] = report[w][t] \/ (w = v /\ t = s /\ report'[w][t] = "FAIL")
    BY <1>13, <2>2 DEF RunnerFails, TypeInv, DocumentType
  <2>6. live' \subseteq live
    BY <1>13 DEF RunnerFails
  <2>7. UNCHANGED <<attempt, recorded, clean, tool, finished, history>>
    BY <1>13 DEF RunnerFails
  <2> QED
    BY <2>3, <2>4, <2>5, <2>6, <2>7, <1>1, <1>2 DEF Calm
<1>14. ASSUME NEW p \in Procs, KillProc(p) PROVE Calm
  <2>1. proc'[p].at = "idle" /\ \A q \in Procs : q # p => proc'[q] = proc[q]
    BY <1>14, Zenon DEF KillProc, Idle, TypeInv, ProcessType
  <2>2. \A q \in Procs, w \in Variants, t \in Stages : Owns(q, w, t)' =>
          q # p /\ Owns(q, w, t) /\ proc'[q].at = proc[q].at /\ proc'[q].rc = proc[q].rc
    BY <2>1, OutsideStages
  <2>3. proc[p].v \in Variants /\ (proc[p].at \in {"checked", "sealing"} => proc[p].s \in Stages)
    BY <1>14, Zenon DEF KillProc, TypeInv, LabelInv
  <2>4. \A w \in Variants, t \in Stages : attempt'[w][t] = "started" <=> attempt[w][t] = "started"
    BY <1>14, <2>3, Zenon DEF KillProc, TypeInv, DocumentType
  <2>5. ASSUME NEW w \in Variants, NEW t \in Stages, report'[w][t] # report[w][t]
        PROVE  /\ attempt[w][t] = "started" /\ report'[w][t] # "PASS"
               /\ \A q \in Procs : ~ Owns(q, w, t)'
    <3>1. proc[p].at = "sealing" /\ w = proc[p].v /\ t = proc[p].s /\ report'[w][t] = "torn"
      BY <1>14, <2>3, <2>5, Zenon DEF KillProc, TypeInv, DocumentType
    <3>2. Owns(p, w, t)
      BY <3>1 DEF Owns
    <3> QED
      BY <2>2, <3>1, <3>2 DEF StageInv, OwnerInv, OneOwner
  <2>6. UNCHANGED <<recorded, clean, machine, history>>
    BY <1>14, Zenon DEF KillProc
  <2> QED
    BY <2>2, <2>4, <2>5, <2>6, <1>1, <1>2 DEF Calm
<1>15. ASSUME NEW l \in live, OpenroadEnds(l) PROVE Calm
  <2>1. l \in Runs
    BY DEF TypeInv, MachineType
  <2>2. ASSUME NEW v \in Variants, report[v]["post"] = "PASS"
        PROVE  clean'[v] = clean[v]
    <3>1. <<v, "post", "compute">> \notin live
      BY <2>2 DEF StageInv, RunInv, RunGrounded, Computed, OpenroadStages
    <3>2. ~ (l[1] = v /\ l[2] = "post" /\ l[3] = "compute")
      BY <2>1, <3>1 DEF Runs
    <3> QED
      BY <1>15, <3>2 DEF OpenroadEnds, TypeInv, DocumentType
  <2>3. live' \subseteq live /\ finished \subseteq finished'
    BY <1>15 DEF OpenroadEnds
  <2> QED
    BY <1>15, <2>2, <2>3, <1>1, <1>2 DEF OpenroadEnds, Calm, Owns
<1>16. ASSUME Reboot PROVE Calm
  BY <1>16, <1>1, <1>2 DEF Reboot, Calm, Owns, Idle, TypeInv, ProcessType, Processes
<1>17. ASSUME NEW v \in Variants, NEW s \in PinnedStages, EditTool(v, s) PROVE Calm
  <2>1. UNCHANGED <<documents, live, finished, proc, launches, used>>
    BY <1>17 DEF EditTool
  <2>2. \A w \in Variants, t \in OpenroadStages :
          \/ tool'[w][t] = tool[w][t] /\ edits'[w][t] = edits[w][t]
          \/ edits'[w][t] = edits[w][t] + 1
    <3>1. PICK c : /\ tool' = [tool EXCEPT ![v][s] = c]
                   /\ edits' = [edits EXCEPT ![v][s] = edits[v][s] + 1]
      BY <1>17 DEF EditTool
    <3> QED
      BY <3>1 DEF TypeInv, MachineType, PinnedStages
  <2> QED
    BY <2>1, <2>2 DEF Calm, Owns
<1> QED
    BY <1>3, <1>4, <1>5, <1>6, <1>7, <1>8, <1>9, <1>10, <1>11, <1>12, <1>13, <1>14, <1>15,
     <1>16, <1>17

(* A process makes the invocation record and owns the stage.                *)
LEMMA CreateAttemptKeepsStages ==
    ASSUME TypeInv, TypeInv', StageInv, NEW p \in Procs, CreateAttempt(p)
    PROVE  StageInv'
<1> USE DEF documents, sealed, machine, history
<1>1. PICK v \in Variants, s \in Stages : v = proc[p].v /\ s = proc[p].s
  BY DEF CreateAttempt, TypeInv, LabelInv
<1>2. UNCHANGED <<report, clean, live, finished, tool, launches, used, edits>>
  BY DEF CreateAttempt
<1>3. CASE attempt[v][s] # "absent"
  <2>1. proc'[p].at = "idle" /\ \A q \in Procs : q # p => proc'[q] = proc[q]
    BY <1>1, <1>3 DEF CreateAttempt, Idle, TypeInv, ProcessType
  <2>2. \A q \in Procs, w \in Variants, t \in Stages : Owns(q, w, t)' =>
          Owns(q, w, t) /\ proc'[q].at = proc[q].at /\ proc'[q].rc = proc[q].rc
    BY <2>1, OutsideStages
  <2>3. UNCHANGED <<attempt, recorded>>
    BY <1>1, <1>3 DEF CreateAttempt
  <2>4. Calm
    BY <1>2, <2>2, <2>3 DEF Calm
  <2> QED
    BY <2>4, CalmKeepsStages
<1>4. CASE attempt[v][s] = "absent"
  <2>1. /\ proc'[p].at = "attempted" /\ proc'[p].v = v /\ proc'[p].s = s
        /\ \A q \in Procs : q # p => proc'[q] = proc[q]
    BY <1>1, <1>4 DEF CreateAttempt, TypeInv, ProcessType, Processes
  <2>2. \A w \in Variants, t \in Stages :
          attempt'[w][t] = (IF w = v /\ t = s THEN "started" ELSE attempt[w][t])
    BY <1>1, <1>4 DEF CreateAttempt, TypeInv, DocumentType
  <2>3. launches[v][s] = 0 /\ report[v][s] = "absent" /\ \A q \in Procs : ~ Owns(q, v, s)
    BY <1>4 DEF StageInv, OwnerInv, OneOwner
  <2>4. \A q \in Procs, w \in Variants, t \in Stages : Owns(q, w, t)' <=>
          (IF q = p THEN w = v /\ t = s ELSE Owns(q, w, t))
    BY <2>1 DEF Owns
  <2>5. OwnerInv'
    BY <1>2, <2>1, <2>2, <2>3, <2>4 DEF StageInv, OwnerInv, OneOwner
  <2>6. RunInv'
    <3> SUFFICES ASSUME NEW w \in Variants, NEW t \in OpenroadStages
                 PROVE  RunGrounded(w, t)'
      BY DEF RunInv
    <3>1. t \in Stages /\ Computed(w, t)' = Computed(w, t)
      BY <1>2 DEF Stages, Computed
    <3>2. \A q \in Procs : Owns(q, w, t)' /\ proc'[q].at # "attempted" =>
            Owns(q, w, t) /\ proc'[q] = proc[q]
      BY <2>1, <2>4, <3>1
    <3> QED
      BY <1>2, <3>1, <3>2 DEF StageInv, RunInv, RunGrounded
  <2>7. ReportInv'
    BY <1>2 DEF StageInv, ReportInv
  <2>8. ToolInv'
    <3>1. \A w \in Variants, t \in OpenroadStages :
            recorded'[w][t].tool = (IF w = v /\ t = s THEN tool[w][t] ELSE recorded[w][t].tool)
      BY <1>1, <1>4 DEF CreateAttempt, TypeInv, DocumentType, PinnedStages
    <3>2. \A w \in Variants, t \in OpenroadStages : t \in Stages
      BY DEF Stages
    <3> QED
      BY <1>2, <2>2, <2>3, <3>1, <3>2 DEF StageInv, ToolInv, ToolOk
  <2> QED
    BY <2>5, <2>6, <2>7, <2>8 DEF StageInv
<1> QED
  BY <1>3, <1>4

(* The owner of a stage starts its one run.                                 *)
LEMMA LaunchKeepsStages ==
    ASSUME TypeInv, TypeInv', StageInv, NEW p \in Procs, Launch(p)
    PROVE  StageInv'
<1> USE DEF documents, sealed
<1>1. PICK v \in Variants, s \in OpenroadStages : v = proc[p].v /\ s = proc[p].s
  BY DEF Launch, TypeInv, LabelInv
<1>2. UNCHANGED <<attempt, recorded, report, clean, finished, tool, edits>>
  BY DEF Launch
<1>3. s \in Stages /\ s \in PinnedStages /\ Owns(p, v, s) /\ proc[p].at = "attempted"
  BY <1>1 DEF Launch, Owns, Stages, PinnedStages
<1>4. launches[v][s] = 0 /\ report[v][s] = "absent" /\ attempt[v][s] = "started"
  BY <1>3 DEF StageInv, OwnerInv, OneOwner
<1>5. /\ proc'[p].at = "computing" /\ proc'[p].v = v /\ proc'[p].s = s
      /\ \A q \in Procs : q # p => proc'[q] = proc[q]
  BY <1>1 DEF Launch, TypeInv, ProcessType, Processes
<1>6. \A q \in Procs, w \in Variants, t \in Stages : Owns(q, w, t)' <=> Owns(q, w, t)
  BY <1>1, <1>3, <1>5 DEF Owns
<1>7. \A w \in Variants, t \in Stages :
        launches'[w][t] = (IF w = v /\ t = s THEN 1 ELSE launches[w][t])
  BY <1>1, <1>3, <1>4 DEF Launch, TypeInv, MachineType
<1>8. \A w \in Variants, t \in OpenroadStages :
        used'[w][t] = (IF w = v /\ t = s THEN tool[w][t] ELSE used[w][t])
  BY <1>1, <1>3 DEF Launch, TypeInv, MachineType, PinnedStages
<1>9. live' = live \cup {<<v, s, "compute">>}
  BY <1>1 DEF Launch
<1>10. \A q \in Procs : q # p => ~ Owns(q, v, s)
  BY <1>3 DEF StageInv, OwnerInv, OneOwner
<1>11. OwnerInv'
  <2> SUFFICES ASSUME NEW w \in Variants, NEW t \in Stages
               PROVE  OneOwner(w, t)'
    BY DEF OwnerInv
  <2>1. CASE w = v /\ t = s
    BY <2>1, <1>2, <1>3, <1>4, <1>5, <1>6, <1>7, <1>10 DEF OneOwner
  <2>2. CASE ~ (w = v /\ t = s)
    BY <2>2, <1>1, <1>2, <1>5, <1>6, <1>7 DEF StageInv, OwnerInv, OneOwner, Owns
  <2> QED
    BY <2>1, <2>2
<1>12. RunInv'
  <2> SUFFICES ASSUME NEW w \in Variants, NEW t \in OpenroadStages
               PROVE  RunGrounded(w, t)'
    BY DEF RunInv
  <2>1. t \in Stages
    BY DEF Stages
  <2>2. CASE w = v /\ t = s
    BY <2>1, <2>2, <1>2, <1>4, <1>5, <1>6, <1>7, <1>10 DEF RunGrounded
  <2>3. CASE ~ (w = v /\ t = s)
    <3>1. launches'[w][t] = launches[w][t] /\ Computed(w, t)' = Computed(w, t)
      BY <2>1, <2>3, <1>2, <1>7, <1>9 DEF Computed
    <3>2. \A q \in Procs : Owns(q, w, t)' => Owns(q, w, t) /\ proc'[q] = proc[q]
      BY <2>1, <2>3, <1>5, <1>6 DEF Owns
    <3>3. <<w, t, "compute">> \in live' <=> <<w, t, "compute">> \in live
      BY <2>3, <1>9
    <3> QED
      BY <3>1, <3>2, <3>3, <1>2 DEF StageInv, RunInv, RunGrounded
  <2> QED
    BY <2>2, <2>3
<1>13. ReportInv'
  BY <1>2, <1>4, <1>7 DEF StageInv, ReportInv
<1>14. ToolInv'
  <2>1. \A w \in Variants, t \in OpenroadStages : t \in Stages
    BY DEF Stages
  <2> QED
    BY <1>2, <1>4, <1>7, <1>8, <2>1 DEF StageInv, ToolInv, ToolOk
<1> QED
  BY <1>11, <1>12, <1>13, <1>14 DEF StageInv

(* The owner goes on to the reopen audit with the exit code of the run.     *)
LEMMA WaitReturnsKeepsStages ==
    ASSUME TypeInv, TypeInv', StageInv, NEW p \in Procs, WaitReturns(p)
    PROVE  StageInv'
<1> USE DEF documents, sealed, history
<1>1. PICK v \in Variants, s \in OpenroadStages : v = proc[p].v /\ s = proc[p].s
  BY DEF WaitReturns, TypeInv, LabelInv
<1>2. UNCHANGED <<attempt, recorded, report, clean, finished, tool, launches, used, edits>>
  BY DEF WaitReturns
<1>3. s \in Stages /\ Owns(p, v, s) /\ proc[p].at = "computing"
  BY <1>1 DEF WaitReturns, Owns, Stages
<1>4. /\ proc'[p].at = "auditing" /\ proc'[p].v = v /\ proc'[p].s = s
      /\ proc'[p].rc = 0 => <<v, s, "compute">> \in finished
      /\ \A q \in Procs : q # p => proc'[q] = proc[q]
  <2> DEFINE ok == <<v, s, "compute">> \in finished /\ s \in files[v]
             k == IF ok THEN proc[p].known \cup {"audit"} ELSE proc[p].known
             c == IF ok THEN 0 ELSE 1
             r == [proc[p] EXCEPT !.at = "auditing", !.pid = {}, !.known = k, !.rc = c]
  <2>1. proc' = [proc EXCEPT ![p] = r]
    BY <1>1 DEF WaitReturns, TypeInv, ProcessType
  <2>2. c = 0 => <<v, s, "compute">> \in finished
    OBVIOUS
  <2> HIDE DEF k, c
  <2>3. r.at = "auditing" /\ r.v = proc[p].v /\ r.s = proc[p].s /\ r.rc = c
    BY DEF TypeInv, ProcessType, Processes
  <2> HIDE DEF r
  <2>4. proc'[p] = r /\ \A q \in Procs : q # p => proc'[q] = proc[q]
    BY <2>1, OneMoves DEF TypeInv
  <2> QED
    BY <1>1, <2>2, <2>3, <2>4
<1>5. live' = live \/ live' = live \cup {<<v, s, "audit">>}
  BY <1>1 DEF WaitReturns
<1>6. <<v, s, "compute">> \notin live
  BY <1>1 DEF WaitReturns
<1>7. \A q \in Procs, w \in Variants, t \in Stages : Owns(q, w, t)' <=> Owns(q, w, t)
  BY <1>1, <1>3, <1>4 DEF Owns
<1>8. OwnerInv'
  BY <1>2, <1>3, <1>4, <1>7 DEF StageInv, OwnerInv, OneOwner
<1>9. RunInv'
  <2> SUFFICES ASSUME NEW w \in Variants, NEW t \in OpenroadStages
               PROVE  RunGrounded(w, t)'
    BY DEF RunInv
  <2>1. t \in Stages /\ Computed(w, t)' = Computed(w, t)
    BY <1>2, <1>5 DEF Stages, Computed
  <2>2. <<w, t, "compute">> \in live' <=> <<w, t, "compute">> \in live
    BY <1>5
  <2>3. Owns(p, w, t)' /\ proc'[p].rc = 0 => Computed(w, t)'
    BY <2>1, <1>4, <1>6 DEF Owns, Computed
  <2> QED
    BY <2>1, <2>2, <2>3, <1>2, <1>4, <1>7 DEF StageInv, RunInv, RunGrounded
<1>10. ReportInv' /\ ToolInv'
  BY <1>2 DEF StageInv, ReportInv, ToolInv, ToolOk
<1> QED
  BY <1>8, <1>9, <1>10 DEF StageInv

(* The owner goes on to the seal with the exit code of the reopen audit.    *)
LEMMA AuditReturnsKeepsStages ==
    ASSUME TypeInv, TypeInv', StageInv, NEW p \in Procs, AuditReturns(p)
    PROVE  StageInv'
<1> USE DEF documents, sealed, machine, history
<1>1. PICK v \in Variants, s \in OpenroadStages : v = proc[p].v /\ s = proc[p].s
  BY DEF AuditReturns, TypeInv, LabelInv
<1>2. UNCHANGED <<attempt, recorded, report, clean, finished, live, tool, launches, used, edits>>
  BY DEF AuditReturns
<1>3. s \in Stages /\ Owns(p, v, s) /\ proc[p].at = "auditing"
  BY <1>1 DEF AuditReturns, Owns, Stages
<1>4. /\ proc'[p].at = "sealing" /\ proc'[p].v = v /\ proc'[p].s = s
      /\ proc'[p].rc = 0 => proc[p].rc = 0 /\ <<v, s, "audit">> \in finished
      /\ \A q \in Procs : q # p => proc'[q] = proc[q]
  BY <1>1 DEF AuditReturns, TypeInv, ProcessType, Processes
<1>5. \A q \in Procs, w \in Variants, t \in Stages : Owns(q, w, t)' <=> Owns(q, w, t)
  BY <1>1, <1>3, <1>4 DEF Owns
<1>6. OwnerInv'
  BY <1>2, <1>3, <1>4, <1>5 DEF StageInv, OwnerInv, OneOwner
<1>7. RunInv'
  <2> SUFFICES ASSUME NEW w \in Variants, NEW t \in OpenroadStages
               PROVE  RunGrounded(w, t)'
    BY DEF RunInv
  <2>1. t \in Stages /\ Computed(w, t)' = Computed(w, t)
    BY <1>2 DEF Stages, Computed
  <2>2. Owns(p, w, t)' /\ proc'[p].rc = 0 => Computed(w, t) /\ <<w, t, "audit">> \in finished
    BY <2>1, <1>3, <1>4 DEF Owns, StageInv, RunInv, RunGrounded
  <2> QED
    BY <2>1, <2>2, <1>2, <1>4, <1>5 DEF StageInv, RunInv, RunGrounded
<1>8. ReportInv' /\ ToolInv'
  BY <1>2 DEF StageInv, ReportInv, ToolInv, ToolOk
<1> QED
  BY <1>6, <1>7, <1>8 DEF StageInv

(* A signal that arrives in a wait makes the run one that failed.           *)
LEMMA SignalRunnerKeepsStages ==
    ASSUME TypeInv, TypeInv', StageInv, NEW p \in Procs, SignalRunner(p)
    PROVE  StageInv'
<1> USE DEF documents, sealed, history
<1>1. PICK v \in Variants, s \in OpenroadStages : v = proc[p].v /\ s = proc[p].s
  BY DEF SignalRunner, Trapped, TypeInv, LabelInv
<1>2. UNCHANGED <<attempt, recorded, report, clean, finished, tool, launches, used, edits>>
  BY DEF SignalRunner
<1>3. s \in Stages /\ Owns(p, v, s) /\ proc[p].at \in {"computing", "auditing", "sealing", "sealed"}
  BY <1>1 DEF SignalRunner, Trapped, Owns, Stages
<1>4. /\ proc'[p].v = v /\ proc'[p].s = s
      /\ \/ proc'[p].at = "sealing" /\ proc'[p].rc = 1
         \/ /\ proc[p].at \in {"sealing", "sealed"}
            /\ proc'[p].at = proc[p].at /\ proc'[p].rc = proc[p].rc
      /\ \A q \in Procs : q # p => proc'[q] = proc[q]
  <2> DEFINE w == proc[p].at \in {"computing", "auditing"}
             b == IF w THEN {} ELSE RefreshComputePid(p)
             c == IF w THEN 1 ELSE proc[p].rc
             a == IF w THEN "sealing" ELSE proc[p].at
             r == [proc[p] EXCEPT !.signal = TRUE, !.pid = b, !.rc = c, !.at = a]
  <2>1. proc' = [proc EXCEPT ![p] = r]
    BY DEF SignalRunner, TypeInv, ProcessType
  <2>2. \/ a = "sealing" /\ c = 1
        \/ proc[p].at \in {"sealing", "sealed"} /\ a = proc[p].at /\ c = proc[p].rc
    BY <1>3
  <2> HIDE DEF a, b, c
  <2>3. r.at = a /\ r.v = proc[p].v /\ r.s = proc[p].s /\ r.rc = c
    BY DEF TypeInv, ProcessType, Processes
  <2> HIDE DEF r
  <2>4. proc'[p] = r /\ \A q \in Procs : q # p => proc'[q] = proc[q]
    BY <2>1, OneMoves DEF TypeInv
  <2> QED
    BY <1>1, <2>2, <2>3, <2>4
<1>5. live' \subseteq live
  BY DEF SignalRunner
<1>6. \A q \in Procs, w \in Variants, t \in Stages : Owns(q, w, t)' <=> Owns(q, w, t)
  BY <1>1, <1>3, <1>4 DEF Owns
<1>7. OwnerInv'
  BY <1>2, <1>3, <1>4, <1>6 DEF StageInv, OwnerInv, OneOwner
<1>8. RunInv'
  <2> SUFFICES ASSUME NEW w \in Variants, NEW t \in OpenroadStages
               PROVE  RunGrounded(w, t)'
    BY DEF RunInv
  <2>1. t \in Stages /\ (Computed(w, t) => Computed(w, t)')
    BY <1>2, <1>5 DEF Stages, Computed
  <2>2. Owns(p, w, t)' /\ proc'[p].rc = 0 =>
          Owns(p, w, t) /\ proc[p].rc = 0 /\ proc'[p].at = proc[p].at
    BY <2>1, <1>4, <1>6
  <2> QED
    BY <2>1, <2>2, <1>2, <1>4, <1>5, <1>6 DEF StageInv, RunInv, RunGrounded
<1>9. ReportInv' /\ ToolInv'
  BY <1>2 DEF StageInv, ReportInv, ToolInv, ToolOk
<1> QED
  BY <1>7, <1>8, <1>9 DEF StageInv

(* A later stage runs once; the process seals it or goes away.              *)
LEMMA BuildGdsKeepsStages ==
    ASSUME TypeInv, TypeInv', StageInv, NEW p \in Procs, BuildGds(p)
    PROVE  StageInv'
<1> USE DEF documents, sealed
<1>1. PICK v \in Variants, s \in Stages : v = proc[p].v /\ s = proc[p].s
  BY DEF BuildGds, TypeInv, LabelInv
<1>2. UNCHANGED <<attempt, recorded, report, clean, finished, live, tool, edits>>
  BY DEF BuildGds
<1>3. s \notin OpenroadStages /\ Owns(p, v, s) /\ proc[p].at = "attempted"
  BY <1>1 DEF BuildGds, Owns
<1>4. launches[v][s] = 0 /\ report[v][s] = "absent" /\ attempt[v][s] = "started"
  BY <1>3 DEF StageInv, OwnerInv, OneOwner
<1>5. /\ \/ proc'[p].at = "sealing" /\ proc'[p].v = v /\ proc'[p].s = s
         \/ proc'[p].at = "idle"
      /\ \A q \in Procs : q # p => proc'[q] = proc[q]
  BY <1>1 DEF BuildGds, TypeInv, ProcessType, Processes, Idle
<1>6. \A q \in Procs, w \in Variants, t \in Stages : Owns(q, w, t)' => Owns(q, w, t)
  BY <1>1, <1>3, <1>5 DEF Owns
<1>7. \A w \in Variants, t \in Stages :
        launches'[w][t] = (IF w = v /\ t = s THEN 1 ELSE launches[w][t])
  BY <1>1, <1>4 DEF BuildGds, TypeInv, MachineType
<1>8. \A w \in Variants, t \in OpenroadStages : used'[w][t] = used[w][t]
  BY <1>1 DEF BuildGds, TypeInv, MachineType, PinnedStages, OpenroadStages
<1>9. \A q \in Procs : q # p => ~ Owns(q, v, s)
  BY <1>3 DEF StageInv, OwnerInv, OneOwner
<1>10. OwnerInv'
  <2> SUFFICES ASSUME NEW w \in Variants, NEW t \in Stages
               PROVE  OneOwner(w, t)'
    BY DEF OwnerInv
  <2>1. CASE w = v /\ t = s
    BY <2>1, <1>2, <1>3, <1>4, <1>5, <1>6, <1>7, <1>9 DEF OneOwner
  <2>2. CASE ~ (w = v /\ t = s)
    <3>1. \A q \in Procs : Owns(q, w, t)' => Owns(q, w, t) /\ proc'[q] = proc[q]
      BY <2>2, <1>5, <1>6 DEF Owns
    <3> QED
      BY <2>2, <3>1, <1>2, <1>7 DEF StageInv, OwnerInv, OneOwner
  <2> QED
    BY <2>1, <2>2
<1>11. \A w \in Variants, t \in OpenroadStages : t \in Stages /\ launches'[w][t] = launches[w][t]
  BY <1>3, <1>7 DEF Stages
<1>12. RunInv'
  <2> SUFFICES ASSUME NEW w \in Variants, NEW t \in OpenroadStages
               PROVE  RunGrounded(w, t)'
    BY DEF RunInv
  <2>1. Computed(w, t)' = Computed(w, t)
    BY <1>2 DEF Computed
  <2>2. \A q \in Procs : Owns(q, w, t)' => Owns(q, w, t) /\ proc'[q] = proc[q]
    BY <1>3, <1>5, <1>6, <1>11 DEF Owns
  <2> QED
    BY <2>1, <2>2, <1>2, <1>11 DEF StageInv, RunInv, RunGrounded
<1>13. ReportInv'
  BY <1>2, <1>4, <1>7 DEF StageInv, ReportInv
<1>14. ToolInv'
  BY <1>2, <1>8, <1>11 DEF StageInv, ToolInv, ToolOk
<1> QED
  BY <1>10, <1>12, <1>13, <1>14 DEF StageInv

(* The seal of the GDS may add to its own record, and to no other.          *)
LEMMA SealedRecords ==
    ASSUME TypeInv, NEW p \in Procs, SealReport(p)
    PROVE  \A w \in Variants, t \in OpenroadStages : recorded'[w][t] = recorded[w][t]
<1>1. \/ recorded' = recorded
      \/ recorded' = [recorded EXCEPT ![proc[p].v]["gds"].tool = tool[proc[p].v]["gds"]]
  BY DEF SealReport
<1>2. /\ recorded \in [Variants -> [PinnedStages -> [tool : Contents, auth : Permits]]]
      /\ \A t \in OpenroadStages : t # "gds" /\ t \in PinnedStages
  BY DEF TypeInv, DocumentType, PinnedStages, OpenroadStages
<1>3. ASSUME NEW w \in Variants, NEW t \in OpenroadStages,
             NEW a, NEW x, recorded' = [recorded EXCEPT ![a]["gds"].tool = x]
      PROVE  recorded'[w][t] = recorded[w][t]
  <2>1. recorded[w] \in [PinnedStages -> [tool : Contents, auth : Permits]]
    BY <1>2
  <2>2. CASE a # w
    BY <1>2, <1>3, <2>2
  <2>3. CASE a = w
    <3>1. recorded'[w] = [recorded[w] EXCEPT !["gds"].tool = x]
      BY <1>2, <1>3, <2>3
    <3> QED
      BY <1>2, <2>1, <3>1
  <2> QED
    BY <2>2, <2>3
<1> QED
  BY <1>1, <1>3

(* The seal: PASS only of a run and a reopen audit that ended, and of a     *)
(* clean route.                                                             *)
LEMMA SealReportKeepsStages ==
    ASSUME TypeInv, TypeInv', StageInv, NEW p \in Procs, SealReport(p)
    PROVE  StageInv'
<1> USE DEF sealed, machine, history
<1>1. PICK v \in Variants, s \in Stages : v = proc[p].v /\ s = proc[p].s
  BY DEF SealReport, TypeInv, LabelInv
<1>2. UNCHANGED <<attempt, clean, finished, live, tool, launches, used, edits>>
  BY DEF SealReport
<1>3. Owns(p, v, s) /\ proc[p].at = "sealing" /\ report[v][s] = "absent"
  BY <1>1 DEF SealReport, Owns
<1>4. launches[v][s] = 1 /\ attempt[v][s] = "started"
  BY <1>3 DEF StageInv, OwnerInv, OneOwner
<1>5. /\ proc'[p].at = "sealed" /\ proc'[p].v = v /\ proc'[p].s = s
      /\ \A q \in Procs : q # p => proc'[q] = proc[q]
  BY <1>1 DEF SealReport, TypeInv, ProcessType, Processes
<1>6. \A q \in Procs, w \in Variants, t \in Stages : Owns(q, w, t)' <=> Owns(q, w, t)
  BY <1>1, <1>3, <1>5 DEF Owns
<1>7. /\ \A w \in Variants, t \in Stages : ~ (w = v /\ t = s) => report'[w][t] = report[w][t]
      /\ report'[v][s] = "PASS" => RunPassed(p)
  <2>1. \/ report' = [report EXCEPT ![v][s] = IF RunPassed(p) THEN "PASS" ELSE "FAIL"]
        \/ report' = [report EXCEPT ![v][s] = "FAIL"]
    BY <1>1 DEF SealReport
  <2>2. report \in [Variants -> [Stages -> {"absent", "PASS", "FAIL", "torn"}]]
    BY DEF TypeInv, DocumentType
  <2> QED
    BY <2>1, <2>2
<1>8. \A q \in Procs : q # p => ~ Owns(q, v, s)
  BY <1>3 DEF StageInv, OwnerInv, OneOwner
<1>9. OwnerInv'
  <2> SUFFICES ASSUME NEW w \in Variants, NEW t \in Stages
               PROVE  OneOwner(w, t)'
    BY DEF OwnerInv
  <2>1. CASE w = v /\ t = s
    BY <2>1, <1>2, <1>4, <1>5, <1>6, <1>8 DEF OneOwner
  <2>2. CASE ~ (w = v /\ t = s)
    <3>1. \A q \in Procs : Owns(q, w, t)' => Owns(q, w, t) /\ proc'[q] = proc[q]
      BY <2>2, <1>5, <1>6 DEF Owns
    <3> QED
      BY <2>2, <3>1, <1>2, <1>7 DEF StageInv, OwnerInv, OneOwner
  <2> QED
    BY <2>1, <2>2
<1>10. RunInv'
  <2> SUFFICES ASSUME NEW w \in Variants, NEW t \in OpenroadStages
               PROVE  RunGrounded(w, t)'
    BY DEF RunInv
  <2>1. t \in Stages /\ Computed(w, t)' = Computed(w, t)
    BY <1>2 DEF Stages, Computed
  <2>2. w = v /\ t = s /\ report'[v][s] = "PASS" =>
          Computed(w, t) /\ <<w, t, "audit">> \in finished
    BY <1>1, <1>3, <1>7 DEF RunPassed, StageInv, RunInv, RunGrounded
  <2> QED
    BY <2>1, <2>2, <1>2, <1>5, <1>6, <1>7 DEF StageInv, RunInv, RunGrounded
<1>11. ReportInv'
  <2>1. s = "post" /\ report'[v][s] = "PASS" => clean[v]
    BY <1>1, <1>7 DEF RunPassed
  <2>2. "post" \in Stages
    BY DEF Stages, OpenroadStages
  <2> QED
    BY <2>1, <2>2, <1>2, <1>4, <1>7 DEF StageInv, ReportInv
<1>12. ToolInv'
  <2>1. \A w \in Variants, t \in OpenroadStages : recorded'[w][t] = recorded[w][t]
    BY SealedRecords
  <2> QED
    BY <2>1, <1>2 DEF StageInv, ToolInv, ToolOk
<1> QED
  BY <1>9, <1>10, <1>11, <1>12 DEF StageInv

(* Every step keeps what the stages promise.                                *)
LEMMA StageNext ==
    ASSUME TypeInv, TypeInv', StageInv, Next
    PROVE  StageInv'
<1>1. \/ \E p \in Procs :
           \/ CreateAttempt(p) \/ Launch(p) \/ WaitReturns(p) \/ AuditReturns(p) \/ BuildGds(p)
           \/ SealReport(p) \/ SignalRunner(p)
      \/ Calm
  BY CalmActions DEF Next, ProcessStep, PinnedStages
<1> QED
  BY <1>1, CalmKeepsStages, CreateAttemptKeepsStages, LaunchKeepsStages, WaitReturnsKeepsStages,
     AuditReturnsKeepsStages, BuildGdsKeepsStages, SealReportKeepsStages, SignalRunnerKeepsStages

(* Nothing has run in the initial states.                                   *)
LEMMA StageInit == Init => StageInv
<1> SUFFICES ASSUME Init PROVE StageInv
  OBVIOUS
<1>1. OwnerInv
  BY DEF Init, OwnerInv, OneOwner, Owns, Idle
<1>2. RunInv
  BY DEF Init, RunInv, RunGrounded, Owns, Idle, OpenroadStages, Stages
<1>3. ReportInv /\ ToolInv
  BY DEF Init, ReportInv, ToolInv, ToolOk, OpenroadStages, Stages
<1> QED
  BY <1>1, <1>2, <1>3 DEF StageInv

-----------------------------------------------------------------------------
(* What a passing report stands on does not move any more.                  *)

(* A verdict stays in its report, which is written only while absent.       *)
LEMMA ReportsStay ==
    ASSUME TypeInv, Next, NEW v \in Variants, NEW s \in Stages, report[v][s] # "absent"
    PROVE  report'[v][s] = report[v][s]
<1> USE DEF documents, TypeInv, DocumentType
<1>1. ASSUME NEW p \in Procs, SealReport(p) PROVE report'[v][s] = report[v][s]
  <2>1. report[proc[p].v][proc[p].s] = "absent"
    BY <1>1 DEF SealReport
  <2>2. \E g : report' = [report EXCEPT ![proc[p].v][proc[p].s] = g]
    BY <1>1 DEF SealReport
  <2> QED
    BY <2>1, <2>2
<1>2. ASSUME NEW p \in Procs, RunnerFails(p) PROVE report'[v][s] = report[v][s]
  BY <1>2 DEF RunnerFails
<1>3. ASSUME NEW p \in Procs, KillProc(p) PROVE report'[v][s] = report[v][s]
  BY <1>3 DEF KillProc
<1>4. ASSUME NEW p \in Procs, ProcessStep(p), ~ SealReport(p) PROVE UNCHANGED report
  BY <1>4, Zenon DEF ProcessStep, AuthorizeWrites, CreateAttempt, Launch, PollComputePid,
       WaitReturns,
       AuditReturns, BuildGds, Finalize, AuditPreflight, AuditVerifies, AuditConcludes,
       AuditPublishes, AuditRewrites
<1>5. CASE \E p \in Procs, w \in Variants, t \in OpenroadStages : AuthorizeReads(p, w, t)
  BY <1>5 DEF AuthorizeReads
<1>6. CASE \E p \in Procs, w \in Variants, t \in Stages : RunnerChecks(p, w, t)
  BY <1>6 DEF RunnerChecks
<1>7. CASE \E p \in Procs, w \in Variants : AuditReads(p, w)
  BY <1>7 DEF AuditReads
<1>8. CASE \E l \in live : OpenroadEnds(l)
  BY <1>8 DEF OpenroadEnds
<1>9. CASE \E p \in Procs : SignalRunner(p)
  BY <1>9 DEF SignalRunner
<1>10. CASE Reboot
  BY <1>10 DEF Reboot
<1>11. CASE \E w \in Variants, t \in OpenroadStages \cup {"gds"} : EditTool(w, t)
  BY <1>11 DEF EditTool
<1> QED
  BY <1>1, <1>2, <1>3, <1>4, <1>5, <1>6, <1>7, <1>8, <1>9, <1>10, <1>11 DEF Next

(* The completion report is written by the audit alone, and torn by a kill. *)
LEMMA CompletionFrame ==
    ASSUME Next,
           \A p \in Procs : ~ AuditPreflight(p) /\ ~ AuditConcludes(p) /\ ~ AuditRewrites(p),
           \A p \in Procs : ~ KillProc(p)
    PROVE  UNCHANGED completion
<1> USE DEF sealed
<1>1. ASSUME NEW p \in Procs, ProcessStep(p) PROVE UNCHANGED completion
  BY <1>1, Zenon DEF ProcessStep, AuthorizeWrites, CreateAttempt, Launch, PollComputePid,
       WaitReturns, AuditReturns, BuildGds, SealReport, Finalize, AuditVerifies,
       AuditPublishes
<1>2. CASE \E p \in Procs : SignalRunner(p) \/ RunnerFails(p)
  BY <1>2 DEF SignalRunner, RunnerFails
<1>3. CASE \/ \E p \in Procs, v \in Variants, s \in OpenroadStages : AuthorizeReads(p, v, s)
           \/ \E p \in Procs, v \in Variants, s \in Stages : RunnerChecks(p, v, s)
           \/ \E p \in Procs, v \in Variants : AuditReads(p, v)
  BY <1>3, Zenon DEF AuthorizeReads, RunnerChecks, AuditReads
<1>4. CASE \/ \E l \in live : OpenroadEnds(l)
           \/ Reboot
           \/ \E v \in Variants, s \in OpenroadStages \cup {"gds"} : EditTool(v, s)
  BY <1>4 DEF OpenroadEnds, Reboot, EditTool
<1> QED
  BY <1>1, <1>2, <1>3, <1>4 DEF Next

(* A stage with a passing report has its tools behind it: those recorded    *)
(* and those that ran; an edit of theirs is never forgotten.                *)
LEMMA ToolsStay ==
    ASSUME TypeInv, StageInv, Next, NEW v \in Variants, NEW s \in OpenroadStages,
           report[v][s] = "PASS"
    PROVE  recorded'[v][s] = recorded[v][s] /\ used'[v][s] = used[v][s]
<1> USE DEF documents, machine, history, TypeInv, DocumentType, MachineType, PinnedStages
<1>1. s \in Stages /\ attempt[v][s] = "started" /\ launches[v][s] = 1
  BY DEF StageInv, OwnerInv, OneOwner, ReportInv, Stages
<1>2. ASSUME NEW p \in Procs, CreateAttempt(p)
      PROVE  recorded'[v][s] = recorded[v][s] /\ used' = used
  <2>1. \/ recorded' = recorded
        \/ /\ attempt[proc[p].v][proc[p].s] = "absent"
           /\ \E r : recorded' = [recorded EXCEPT ![proc[p].v][proc[p].s] = r]
    BY <1>2 DEF CreateAttempt
  <2>2. used' = used
    BY <1>2 DEF CreateAttempt
  <2>3. ASSUME NEW r, attempt[proc[p].v][proc[p].s] = "absent",
               recorded' = [recorded EXCEPT ![proc[p].v][proc[p].s] = r]
        PROVE  recorded'[v][s] = recorded[v][s]
    BY <1>1, <2>3
  <2> QED
    BY <2>1, <2>2, <2>3
<1>3. ASSUME NEW p \in Procs, Launch(p)
      PROVE  recorded' = recorded /\ used'[v][s] = used[v][s]
  <2>1. Owns(p, proc[p].v, proc[p].s) /\ proc[p].v \in Variants /\ proc[p].s \in Stages
    BY <1>3 DEF Launch, Owns, LabelInv
  <2>2. ~ (proc[p].v = v /\ proc[p].s = s)
    BY <1>1, <1>3, <2>1 DEF Launch, StageInv, OwnerInv, OneOwner
  <2> QED
    BY <1>3, <2>2 DEF Launch
<1>4. ASSUME NEW p \in Procs, BuildGds(p)
      PROVE  recorded' = recorded /\ used'[v][s] = used[v][s]
  BY <1>4 DEF BuildGds, OpenroadStages
<1>5. ASSUME NEW p \in Procs, SealReport(p)
      PROVE  recorded'[v][s] = recorded[v][s] /\ used' = used
  <2>1. used' = used
    BY <1>5 DEF SealReport
  <2> QED
    BY <1>5, <2>1, SealedRecords
<1>6. ASSUME NEW p \in Procs, ProcessStep(p),
             ~ CreateAttempt(p), ~ Launch(p), ~ BuildGds(p), ~ SealReport(p)
      PROVE  recorded' = recorded /\ used' = used
  BY <1>6, Zenon DEF ProcessStep, AuthorizeWrites, PollComputePid, WaitReturns, AuditReturns,
       Finalize, AuditPreflight, AuditVerifies, AuditConcludes, AuditPublishes, AuditRewrites
<1>7. ASSUME NEW p \in Procs, SignalRunner(p) \/ RunnerFails(p) \/ KillProc(p)
      PROVE  recorded' = recorded /\ used' = used
  BY <1>7 DEF SignalRunner, RunnerFails, KillProc
<1>8. CASE \/ \E p \in Procs, w \in Variants, t \in OpenroadStages : AuthorizeReads(p, w, t)
           \/ \E p \in Procs, w \in Variants, t \in Stages : RunnerChecks(p, w, t)
           \/ \E p \in Procs, w \in Variants : AuditReads(p, w)
  BY <1>8 DEF AuthorizeReads, RunnerChecks, AuditReads
<1>9. CASE \/ \E l \in live : OpenroadEnds(l)
           \/ Reboot
           \/ \E w \in Variants, t \in OpenroadStages \cup {"gds"} : EditTool(w, t)
  BY <1>9 DEF OpenroadEnds, Reboot, EditTool
<1> QED
  BY <1>2, <1>3, <1>4, <1>5, <1>6, <1>7, <1>8, <1>9 DEF Next

(* Edits are counted.                                                       *)
LEMMA EditsGrow ==
    ASSUME TypeInv, Next, NEW v \in Variants, NEW s \in PinnedStages
    PROVE  edits[v][s] \in Nat /\ edits'[v][s] \in Nat /\ edits'[v][s] >= edits[v][s]
<1> USE DEF history
<1>0. edits \in [Variants -> [PinnedStages -> Nat]]
  BY DEF TypeInv, MachineType
<1>1. ASSUME NEW p \in Procs, ProcessStep(p) PROVE edits' = edits
  BY <1>1, Zenon DEF ProcessStep, AuthorizeWrites, CreateAttempt, Launch, PollComputePid,
       WaitReturns, AuditReturns, BuildGds, SealReport, Finalize, AuditPreflight,
       AuditVerifies, AuditConcludes, AuditPublishes, AuditRewrites
<1>2. ASSUME NEW p \in Procs, SignalRunner(p) \/ RunnerFails(p) \/ KillProc(p)
      PROVE  edits' = edits
  BY <1>2, Zenon DEF SignalRunner, RunnerFails, KillProc
<1>3. CASE \/ \E p \in Procs, w \in Variants, t \in OpenroadStages : AuthorizeReads(p, w, t)
           \/ \E p \in Procs, w \in Variants, t \in Stages : RunnerChecks(p, w, t)
           \/ \E p \in Procs, w \in Variants : AuditReads(p, w)
  <2>1. edits' = edits
    BY <1>3, Zenon DEF AuthorizeReads, RunnerChecks, AuditReads
  <2> QED
    BY <2>1, <1>0
<1>4. CASE (\E l \in live : OpenroadEnds(l)) \/ Reboot
  <2>1. edits' = edits
    BY <1>4, Zenon DEF OpenroadEnds, Reboot
  <2> QED
    BY <2>1, <1>0
<1>5. CASE \E w \in Variants, t \in OpenroadStages \cup {"gds"} : EditTool(w, t)
  <2>1. PICK w \in Variants, t \in PinnedStages : edits' = [edits EXCEPT ![w][t] = @ + 1]
    BY <1>5 DEF EditTool, PinnedStages
  <2> QED
    BY <2>1, <1>0
<1> QED
  BY <1>0, <1>1, <1>2, <1>3, <1>4, <1>5 DEF Next

(* The gate was sealed before.                                              *)
LEMMA GateStays == ASSUME Next PROVE gate' = gate
<1> USE DEF documents
<1>1. ASSUME NEW p \in Procs, ProcessStep(p) PROVE gate' = gate
  BY <1>1, Zenon DEF ProcessStep, AuthorizeWrites, CreateAttempt, Launch, PollComputePid,
       WaitReturns, AuditReturns, BuildGds, SealReport, Finalize, AuditPreflight,
       AuditVerifies, AuditConcludes, AuditPublishes, AuditRewrites
<1>2. ASSUME NEW p \in Procs, SignalRunner(p) \/ RunnerFails(p) \/ KillProc(p)
      PROVE  gate' = gate
  BY <1>2, Zenon DEF SignalRunner, RunnerFails, KillProc
<1>3. CASE \/ \E p \in Procs, v \in Variants, s \in OpenroadStages : AuthorizeReads(p, v, s)
           \/ \E p \in Procs, v \in Variants, s \in Stages : RunnerChecks(p, v, s)
           \/ \E p \in Procs, v \in Variants : AuditReads(p, v)
  BY <1>3, Zenon DEF AuthorizeReads, RunnerChecks, AuditReads
<1>4. CASE \/ \E l \in live : OpenroadEnds(l)
           \/ Reboot
           \/ \E v \in Variants, s \in OpenroadStages \cup {"gds"} : EditTool(v, s)
  BY <1>4, Zenon DEF OpenroadEnds, Reboot, EditTool
<1> QED
  BY <1>1, <1>2, <1>3, <1>4 DEF Next

(* So a chain that passed goes on to pass, on the same tools.               *)
LEMMA ChainStays ==
    ASSUME TypeInv, StageInv, Next, NEW v \in Variants, ChainPassed(v)
    PROVE  ChainPassed(v)' /\ (PinnedTools(v) => PinnedTools(v)')
<1>1. \A s \in Stages : report'[v][s] = "PASS"
  BY ReportsStay DEF ChainPassed
<1>2. \A s \in OpenroadStages : recorded'[v][s] = recorded[v][s] /\ used'[v][s] = used[v][s]
  BY ToolsStay DEF ChainPassed, Stages
<1>3. \A s \in OpenroadStages :
        edits[v][s] \in Nat /\ edits'[v][s] \in Nat /\ edits'[v][s] >= edits[v][s]
  BY EditsGrow DEF PinnedStages
<1>4. PinnedTools(v) => PinnedTools(v)'
  BY <1>2, <1>3 DEF PinnedTools
<1> QED
  BY <1>1, <1>4, GateStays DEF ChainPassed

(* A step that is none of the audit's own leaves the audits that are under  *)
(* way alone, or ends them.                                                 *)
AuditsKept ==
    \A p \in Procs : proc'[p].at \in Auditing =>
        /\ proc[p].at = proc'[p].at /\ proc[p].v = proc'[p].v
        /\ proc[p].verdict = proc'[p].verdict

AuditStep(p) ==
    \/ AuditPreflight(p) \/ AuditVerifies(p) \/ AuditConcludes(p)
    \/ AuditPublishes(p) \/ AuditRewrites(p)

LEMMA AuditsLeftAlone ==
    ASSUME TypeInv, Next, \A p \in Procs : ~ AuditStep(p),
           \A p \in Procs, v \in Variants : ~ AuditReads(p, v)
    PROVE  AuditsKept
<1> USE DEF TypeInv, ProcessType, machine, AuditsKept, Auditing, Sealing
<1>1. ASSUME NEW q \in Procs, NEW v \in Variants, NEW s \in Stages,
             RunnerChecks(q, v, s) \/ (s \in OpenroadStages /\ AuthorizeReads(q, v, s))
      PROVE  AuditsKept
  <2>1. /\ proc'[q].at \in {"checked", "authorizing"}
        /\ \A p \in Procs : p # q => proc'[p] = proc[p]
    BY <1>1, Zenon DEF RunnerChecks, AuthorizeReads, Idle
  <2> QED
    BY <2>1
<1>2. ASSUME NEW q \in Procs, ProcessStep(q) PROVE AuditsKept
  <2>1. CASE AuthorizeWrites(q) \/ Finalize(q)
    <3>1. proc' = [proc EXCEPT ![q] = Idle]
      BY <2>1 DEF AuthorizeWrites, Finalize
    <3> QED
      BY <3>1 DEF Idle
  <2>2. CASE CreateAttempt(q) \/ Launch(q) \/ SealReport(q)
    <3>1. \/ proc' = [proc EXCEPT ![q] = Idle]
          \/ \E a \in {"attempted", "computing", "sealed"} :
               proc' = [proc EXCEPT ![q] = [proc[q] EXCEPT !.at = a]]
      BY <2>2 DEF CreateAttempt, Launch, SealReport
    <3>2. Idle.at = "idle" /\ \A a : [proc[q] EXCEPT !.at = a].at = a
      BY DEF Idle, Processes
    <3>3. /\ proc'[q].at \in {"idle", "attempted", "computing", "sealed"}
          /\ \A p \in Procs : p # q => proc'[p] = proc[p]
      BY <3>1, <3>2, OneMoves
    <3> QED
      BY <3>3
  <2>3. CASE PollComputePid(q)
    BY <2>3 DEF PollComputePid, Processes
  <2>4. CASE WaitReturns(q) \/ AuditReturns(q)
    BY <2>4 DEF WaitReturns, AuditReturns, Processes
  <2>5. CASE BuildGds(q)
    BY <2>5 DEF BuildGds, Idle, Processes
  <2> QED
    BY <1>2, <2>1, <2>2, <2>3, <2>4, <2>5 DEF ProcessStep, AuditStep
<1>3. ASSUME NEW q \in Procs, SignalRunner(q) \/ RunnerFails(q) \/ KillProc(q) PROVE AuditsKept
  <2>1. CASE SignalRunner(q)
    <3>1. \A p \in Procs : p # q => proc'[p] = proc[p]
      BY <2>1 DEF SignalRunner
    <3>2. proc'[q].at \in {"computing", "auditing", "sealing", "sealed"}
      BY <2>1 DEF SignalRunner, Trapped, Processes
    <3> QED
      BY <3>1, <3>2
  <2>2. CASE RunnerFails(q) \/ KillProc(q)
    <3>1. proc' = [proc EXCEPT ![q] = Idle]
      BY <2>2 DEF RunnerFails, KillProc
    <3>2. Idle.at = "idle"
      BY DEF Idle
    <3> QED
      BY <3>1, <3>2, OneMoves
  <2> QED
    BY <1>3, <2>1, <2>2
<1>4. ASSUME \/ \E l \in live : OpenroadEnds(l)
             \/ Reboot
             \/ \E v \in Variants, s \in OpenroadStages \cup {"gds"} : EditTool(v, s)
      PROVE  AuditsKept
  BY <1>4 DEF OpenroadEnds, Reboot, EditTool, Idle
<1> QED
  BY <1>1, <1>2, <1>3, <1>4 DEF Next, Stages

(* What each step of an audit does to its process and to its report.        *)
LEMMA AuditMoves ==
    ASSUME TypeInv, NEW p \in Procs, AuditStep(p)
    PROVE  LET v == proc[p].v IN
           /\ v \in Variants
           /\ \A q \in Procs : q # p => proc'[q] = proc[q]
           /\ \A w \in Variants : w # v => completion'[w] = completion[w]
           /\ proc'[p].at # "idle" => proc'[p].v = v
           /\ \/ proc'[p].at = "idle" /\ completion' = completion
              \/ /\ proc[p].at = "loaded" /\ proc'[p].at = "verifying"
                 /\ completion[v] = "absent" /\ completion'[v] = "preflight"
                 /\ proc'[p].verdict = proc[p].verdict
              \/ /\ proc[p].at = "verifying" /\ proc'[p].at = "concluding"
                 /\ completion' = completion
                 /\ proc'[p].verdict = "PASS" =>
                      proc[p].verdict = "PASS" /\ (Audit[v].inputs => InputsMatch(v))
              \/ /\ proc[p].at = "concluding" /\ proc'[p].at \in {"idle", "publishing"}
                 /\ completion'[v] = proc[p].verdict /\ completion[v] = "preflight"
                 /\ proc'[p].at = "publishing" => proc'[p].verdict = proc[p].verdict
              \/ /\ proc[p].at = "publishing" /\ proc'[p].at = "rewriting"
                 /\ completion' = completion
                 /\ proc'[p].verdict = proc[p].verdict
              \/ /\ proc[p].at = "rewriting" /\ proc'[p].at = "idle"
                 /\ completion'[v] = proc[p].verdict
<1> DEFINE v == proc[p].v
<1>1. v \in Variants /\ proc[p] \in Processes /\ Idle.at = "idle"
  BY DEF AuditStep, AuditPreflight, AuditVerifies, AuditConcludes, AuditPublishes, AuditRewrites,
         TypeInv, LabelInv, ProcessType, Idle
<1>2. completion \in [Variants -> {"absent", "preflight", "PASS", "FAIL", "torn"}] /\ ProcessType
  BY DEF TypeInv, MachineType
<1>f. ASSUME NEW a
      PROVE  /\ [proc[p] EXCEPT !.at = a].at = a /\ [proc[p] EXCEPT !.at = a].v = v
             /\ [proc[p] EXCEPT !.at = a].verdict = proc[p].verdict
  BY <1>1 DEF Processes
<1>3. CASE AuditPreflight(p)
  <2>1. \/ proc' = [proc EXCEPT ![p] = Idle] /\ completion' = completion
        \/ /\ proc' = [proc EXCEPT ![p] = [proc[p] EXCEPT !.at = "verifying"]]
           /\ completion[v] = "absent"
           /\ completion' = [completion EXCEPT ![v] = "preflight"]
    BY <1>3 DEF AuditPreflight
  <2>2. proc[p].at = "loaded"
    BY <1>3 DEF AuditPreflight
  <2>3. CASE proc' = [proc EXCEPT ![p] = Idle] /\ completion' = completion
    BY <2>3, <1>1, <1>2, OneMoves
  <2>4. CASE /\ proc' = [proc EXCEPT ![p] = [proc[p] EXCEPT !.at = "verifying"]]
             /\ completion[v] = "absent"
             /\ completion' = [completion EXCEPT ![v] = "preflight"]
    <3>1. /\ proc'[p] = [proc[p] EXCEPT !.at = "verifying"]
          /\ \A q \in Procs : q # p => proc'[q] = proc[q]
      BY <2>4, <1>2, OneMoves, Zenon
    <3>2. proc'[p].at = "verifying" /\ proc'[p].v = v /\ proc'[p].verdict = proc[p].verdict
      BY <3>1, <1>f
    <3> QED
      BY <2>2, <2>4, <3>1, <3>2, <1>1, <1>2
  <2> QED
    BY <2>1, <2>3, <2>4
<1>4. CASE AuditVerifies(p)
  <2>0. proc[p].at = "verifying" /\ completion' = completion
    BY <1>4 DEF AuditVerifies, sealed
  <2>1. \/ proc' = [proc EXCEPT ![p] = Idle]
        \/ \E g \in {"PASS", "FAIL"} :
             /\ proc' = [proc EXCEPT ![p] = [proc[p] EXCEPT !.at = "concluding", !.verdict = g]]
             /\ g = "PASS" => proc[p].verdict = "PASS" /\ (Audit[v].inputs => InputsMatch(v))
    BY <1>4, <1>2 DEF AuditVerifies, ProcessType
  <2>2. CASE proc' = [proc EXCEPT ![p] = Idle]
    BY <2>0, <2>2, <1>1, <1>2, OneMoves
  <2>3. ASSUME NEW g \in {"PASS", "FAIL"},
               proc' = [proc EXCEPT ![p] = [proc[p] EXCEPT !.at = "concluding", !.verdict = g]],
               g = "PASS" => proc[p].verdict = "PASS" /\ (Audit[v].inputs => InputsMatch(v))
        PROVE  /\ \A q \in Procs : q # p => proc'[q] = proc[q]
               /\ proc'[p].at = "concluding" /\ proc'[p].v = v
               /\ proc'[p].verdict = "PASS" =>
                    proc[p].verdict = "PASS" /\ (Audit[v].inputs => InputsMatch(v))
    <3> DEFINE r == [proc[p] EXCEPT !.at = "concluding", !.verdict = g]
    <3>1. r.at = "concluding" /\ r.v = v /\ r.verdict = g
      BY <1>1 DEF Processes
    <3>2. proc'[p] = r /\ \A q \in Procs : q # p => proc'[q] = proc[q]
      BY <2>3, <1>2, OneMoves
    <3> HIDE DEF r
    <3> QED
      BY <3>1, <3>2, <2>3
  <2> QED
    BY <2>0, <2>1, <2>2, <2>3, <1>1
<1>5. CASE AuditConcludes(p)
  <2>0. proc[p].at = "concluding"
    BY <1>5 DEF AuditConcludes
  <2>1. \/ proc' = [proc EXCEPT ![p] = Idle]
        \/ /\ proc' = [proc EXCEPT ![p] = [proc[p] EXCEPT !.at = "publishing"]]
           /\ completion[v] = "preflight"
    BY <1>5 DEF AuditConcludes
  <2>2. \/ completion' = completion /\ completion[v] # "preflight"
        \/ /\ completion[v] = "preflight"
           /\ completion' = [completion EXCEPT ![v] = proc[p].verdict]
    BY <1>5 DEF AuditConcludes
  <2>3. CASE proc' = [proc EXCEPT ![p] = Idle]
    BY <2>0, <2>2, <2>3, <1>1, <1>2, OneMoves
  <2>4. CASE /\ proc' = [proc EXCEPT ![p] = [proc[p] EXCEPT !.at = "publishing"]]
             /\ completion[v] = "preflight"
    <3>1. /\ proc'[p] = [proc[p] EXCEPT !.at = "publishing"]
          /\ \A q \in Procs : q # p => proc'[q] = proc[q]
      BY <2>4, <1>2, OneMoves, Zenon
    <3>2. proc'[p].at = "publishing" /\ proc'[p].v = v /\ proc'[p].verdict = proc[p].verdict
      BY <3>1, <1>f
    <3> QED
      BY <2>0, <2>2, <2>4, <3>1, <3>2, <1>1, <1>2
  <2> QED
    BY <2>1, <2>3, <2>4
<1>6. CASE AuditPublishes(p)
  <2>1. /\ proc[p].at = "publishing" /\ completion' = completion
        /\ proc' = [proc EXCEPT ![p] = [proc[p] EXCEPT !.at = "rewriting"]]
    BY <1>6 DEF AuditPublishes
  <2>2. /\ proc'[p] = [proc[p] EXCEPT !.at = "rewriting"]
        /\ \A q \in Procs : q # p => proc'[q] = proc[q]
    BY <2>1, <1>2, OneMoves, Zenon
  <2>3. proc'[p].at = "rewriting" /\ proc'[p].v = v /\ proc'[p].verdict = proc[p].verdict
    BY <2>2, <1>f
  <2> QED
    BY <2>1, <2>2, <2>3, <1>1
<1>7. CASE AuditRewrites(p)
  <2>1. /\ proc[p].at = "rewriting" /\ completion' = [completion EXCEPT ![v] = proc[p].verdict]
        /\ proc' = [proc EXCEPT ![p] = Idle]
    BY <1>7 DEF AuditRewrites
  <2> QED
    BY <2>1, <1>1, <1>2, OneMoves
<1> QED
  BY <1>3, <1>4, <1>5, <1>6, <1>7 DEF AuditStep

(* A kill ends a process, and tears at most the report of its own audit.    *)
LEMMA KillTears ==
    ASSUME TypeInv, NEW p \in Procs, KillProc(p)
    PROVE  /\ proc'[p].at = "idle" /\ \A q \in Procs : q # p => proc'[q] = proc[q]
           /\ \A v \in Variants :
                \/ completion'[v] = completion[v]
                \/ proc[p].at \in Sealing /\ v = proc[p].v /\ completion'[v] = "torn"
<1>1. proc' = [proc EXCEPT ![p] = Idle] /\ Idle.at = "idle" /\ ProcessType
  BY DEF KillProc, Idle, TypeInv
<1>2. \/ completion' = completion
      \/ /\ proc[p].at \in {"rewriting", "concluding"}
         /\ completion' = [completion EXCEPT ![proc[p].v] = "torn"]
  BY DEF KillProc
<1>3. completion \in [Variants -> {"absent", "preflight", "PASS", "FAIL", "torn"}]
  BY DEF TypeInv, MachineType
<1> QED
  BY <1>1, <1>2, <1>3, OneMoves DEF Sealing

(* The verdict that an audit carries was found on a chain that passed, and  *)
(* after the second look on tools that its records name.                    *)
LEMMA AuditNext ==
    ASSUME TypeInv, StageInv, AuditInv, Next
    PROVE  AuditInv'
<1> USE DEF Auditing, Sealing
<1>1. \A v \in Variants : ChainPassed(v) =>
        ChainPassed(v)' /\ (PinnedTools(v) => PinnedTools(v)')
  BY ChainStays
<1>2. \A p \in Procs : proc[p].at # "idle" => proc[p].v \in Variants
  BY DEF TypeInv, LabelInv
<1>3. CASE \E p \in Procs, v \in Variants : AuditReads(p, v)
  <2>1. PICK p \in Procs, v \in Variants : AuditReads(p, v)
    BY <1>3
  <2>2. /\ proc'[p].at = "loaded" /\ proc'[p].v = v
        /\ proc'[p].verdict = "PASS" => ChainPassed(v)
        /\ \A q \in Procs : q # p => proc'[q] = proc[q]
    BY <2>1 DEF AuditReads, PhaseChecks, ChainPassed, Idle, TypeInv, ProcessType
  <2>3. completion' = completion
    BY <2>1 DEF AuditReads, sealed
  <2> QED
    BY <1>1, <1>2, <2>2, <2>3 DEF AuditInv
<1>4. CASE \E p \in Procs : AuditStep(p)
  <2>1. PICK p \in Procs : AuditStep(p)
    BY <1>4
  <2>2. PICK v \in Variants : v = proc[p].v
    BY <2>1, AuditMoves
  <2>3. ASSUME ChainPassed(v), Audit[v].inputs => InputsMatch(v) PROVE PinnedTools(v)
    <3> SUFFICES ASSUME Audit[v].inputs, NEW s \in OpenroadStages
                 PROVE  /\ recorded[v][s].tool = recorded[v][s].auth.pin
                        /\ used[v][s] # recorded[v][s].tool => edits[v][s] >= 2
      BY DEF PinnedTools
    <3>1. s \in Stages
      BY DEF Stages
    <3>2. /\ recorded[v][s].tool = tool[v][s] /\ recorded[v][s].auth = auth[v][s]
          /\ auth[v][s].pin = tool[v][s]
      BY <2>3 DEF InputsMatch
    <3>3. launches[v][s] = 1
      BY <2>3, <3>1 DEF ChainPassed, StageInv, ReportInv
    <3> QED
      BY <3>2, <3>3 DEF StageInv, ToolInv, ToolOk
  <2>4. \A q \in Procs : q # p => proc'[q] = proc[q]
    BY <2>1, AuditMoves
  <2>5. /\ proc'[p].at \in Auditing /\ proc'[p].verdict = "PASS" =>
             proc'[p].v = v /\ ChainPassed(v)
        /\ proc'[p].at \in {"concluding", "publishing", "rewriting"} /\
             proc'[p].verdict = "PASS" => PinnedTools(v)
    BY <2>1, <2>2, <2>3, AuditMoves DEF AuditInv
  <2>6. \A w \in Variants : completion'[w] = "PASS" =>
          completion[w] = "PASS" \/ (w = v /\ ChainPassed(v) /\ PinnedTools(v))
    BY <2>1, <2>2, AuditMoves DEF AuditInv
  <2> QED
    BY <1>1, <1>2, <2>4, <2>5, <2>6 DEF AuditInv
<1>5. CASE /\ \A p \in Procs : ~ AuditStep(p)
           /\ \A p \in Procs, v \in Variants : ~ AuditReads(p, v)
  <2>1. AuditsKept
    BY <1>5, AuditsLeftAlone
  <2>2. \A v \in Variants : completion'[v] = "PASS" => completion[v] = "PASS"
    <3>1. CASE \E p \in Procs : KillProc(p)
      BY <3>1, KillTears
    <3>2. CASE \A p \in Procs : ~ KillProc(p)
      BY <3>2, <1>5, CompletionFrame DEF AuditStep
    <3> QED
      BY <3>1, <3>2
  <2> QED
    BY <1>1, <1>2, <2>1, <2>2 DEF AuditInv, AuditsKept
<1> QED
  BY <1>3, <1>4, <1>5

(* The preflight record is opened with "x": whoever finds it absent is the  *)
(* only audit of its variant from then on, dead or alive.                   *)
LEMMA SealNext ==
    ASSUME TypeInv, SealInv, Next
    PROVE  SealInv'
<1>1. \A p \in Procs :
        /\ proc[p].at # "idle" => proc[p].v \in Variants
        /\ proc[p].at \in Sealing => proc[p].verdict \in {"PASS", "FAIL"}
  BY DEF TypeInv, LabelInv, Auditing, Sealing
<1>2. CASE \E p \in Procs, v \in Variants : AuditReads(p, v)
  <2>1. PICK p \in Procs, v \in Variants : AuditReads(p, v)
    BY <1>2
  <2>2. proc'[p].at = "loaded" /\ \A q \in Procs : q # p => proc'[q] = proc[q]
    BY <2>1 DEF AuditReads, Idle, TypeInv, ProcessType
  <2>3. completion' = completion
    BY <2>1 DEF AuditReads, sealed
  <2> QED
    BY <2>2, <2>3 DEF SealInv, Sealing
<1>3. CASE \E p \in Procs : AuditStep(p)
  <2>1. PICK p \in Procs : AuditStep(p)
    BY <1>3
  <2>2. PICK v \in Variants : v = proc[p].v
    BY <2>1, AuditMoves
  <2>3. \A q \in Procs : q # p => proc'[q] = proc[q]
    BY <2>1, AuditMoves
  <2>4. /\ \A w \in Variants : w # v => completion'[w] = completion[w]
        /\ proc'[p].at \in Sealing =>
             /\ proc'[p].v = v /\ completion'[v] # "absent"
             /\ proc[p].at \in Sealing \/ completion[v] = "absent"
        /\ proc'[p].at \in {"publishing", "rewriting"} => completion'[v] = proc'[p].verdict
        /\ completion'[v] = completion[v] \/ proc[p].at \in Sealing \/ completion[v] = "absent"
    BY <2>1, <2>2, <1>1, AuditMoves DEF SealInv, Sealing
  <2>5. ASSUME NEW q \in Procs, q # p, proc[q].at \in Sealing
        PROVE  /\ completion'[proc[q].v] = completion[proc[q].v]
               /\ proc'[p].at \in Sealing => proc[q].v # v
    <3>1. proc[q].v \in Variants
      BY <1>1, <2>5 DEF Sealing
    <3>2. CASE proc[q].v # v
      BY <3>1, <3>2, <2>4
    <3>3. CASE proc[q].v = v
      <4>1. completion[v] # "absent" /\ proc[p].at \notin Sealing
        BY <3>3, <2>2, <2>5 DEF SealInv
      <4> QED
        BY <4>1, <3>3, <2>4
    <3> QED
      BY <3>2, <3>3
  <2> QED
    BY <2>3, <2>4, <2>5 DEF SealInv, Sealing
<1>4. CASE \E p \in Procs : KillProc(p)
  <2>1. PICK p \in Procs : KillProc(p)
    BY <1>4
  <2>2. proc'[p].at = "idle" /\ \A q \in Procs : q # p => proc'[q] = proc[q]
    BY <2>1, KillTears
  <2>3. ASSUME NEW q \in Procs, q # p, proc[q].at \in Sealing
        PROVE  completion'[proc[q].v] = completion[proc[q].v]
    <3>1. proc[q].v \in Variants
      BY <1>1, <2>3 DEF Sealing
    <3> QED
      BY <3>1, <2>1, <2>3, KillTears DEF SealInv
  <2> QED
    BY <2>2, <2>3 DEF SealInv, Sealing
<1>5. CASE /\ \A p \in Procs : ~ AuditStep(p) /\ ~ KillProc(p)
           /\ \A p \in Procs, v \in Variants : ~ AuditReads(p, v)
  <2>1. AuditsKept
    BY <1>5, AuditsLeftAlone
  <2>2. completion' = completion
    BY <1>5, CompletionFrame DEF AuditStep
  <2> QED
    BY <2>1, <2>2 DEF SealInv, AuditsKept, Auditing, Sealing
<1> QED
  BY <1>2, <1>3, <1>4, <1>5

-----------------------------------------------------------------------------

(* Inv is an inductive invariant.                                           *)
LEMMA InvInductive == Spec => []Inv
<1>1. Init => Inv
  <2>1. Init => AuditInv /\ SealInv
    BY DEF Init, AuditInv, SealInv, Idle, Auditing, Sealing
  <2> QED
    BY <2>1, TypeInit, StageInit DEF Inv, StageInv
<1>2. Inv /\ [Next]_vars => Inv'
  <2> SUFFICES ASSUME Inv, [Next]_vars PROVE Inv'
    OBVIOUS
  <2>1. CASE Next
    BY <2>1, TypeNext, StageNext, AuditNext, SealNext DEF Inv, StageInv
  <2>2. CASE UNCHANGED vars
    <3>1. TypeInv'
      BY <2>2 DEF Inv, TypeInv, DocumentType, MachineType, ProcessType, LabelInv, vars,
           documents, sealed, machine, history
    <3>2. OwnerInv' /\ RunInv'
      BY <2>2 DEF Inv, OwnerInv, OneOwner, RunInv, RunGrounded, Owns, Computed, vars,
           documents, sealed, machine, history
    <3>3. ReportInv' /\ ToolInv' /\ AuditInv' /\ SealInv'
      BY <2>2 DEF Inv, ReportInv, ToolInv, ToolOk, AuditInv, SealInv, ChainPassed, PinnedTools,
           vars, documents, sealed, machine, history
    <3> QED
      BY <3>1, <3>2, <3>3 DEF Inv
  <2> QED
    BY <2>1, <2>2
<1> QED
  BY <1>1, <1>2, PTL DEF Spec

(* Every file of the chain holds what its script writes, and the processes  *)
(* and databases are those of the variants, whatever is started, killed,    *)
(* rebooted or edited.                                                      *)
THEOREM TypeCorrect == Spec => []TypeOK
<1>1. Inv => TypeOK
  BY DEF Inv, TypeInv, DocumentType, MachineType, TypeOK, Permits, Runs
<1> QED
  BY <1>1, InvInductive, PTL

(* A stage of a variant runs at most once, however many processes find its  *)
(* invocation record absent at the same time: open("x") makes one of them   *)
(* its owner, and the record stays when the owner dies.                     *)
THEOREM StageRunsOnce == Spec => []OneInvocation
<1>1. Inv => OneInvocation
  BY DEF Inv, OwnerInv, OneOwner, OneInvocation
<1> QED
  BY <1>1, InvInductive, PTL

(* A completion report that says PASS is of a chain whose gate passed,      *)
(* whose runs and reopen audits ended with exit code 0, without congestion  *)
(* after the clock tree, every stage run once and reported PASS.            *)
THEOREM CompletionGrounded == Spec => []CompleteChain
<1>1. Inv => CompleteChain
  <2> SUFFICES ASSUME Inv, NEW v \in Variants, completion[v] = "PASS"
               PROVE  /\ gate[v] = "PASS"
                      /\ clean[v]
                      /\ \A s \in OpenroadStages, kind \in {"compute", "audit"} :
                           <<v, s, kind>> \in finished
                      /\ \A s \in Stages : report[v][s] = "PASS" /\ launches[v][s] = 1
    BY DEF CompleteChain
  <2>1. gate[v] = "PASS" /\ \A s \in Stages : report[v][s] = "PASS"
    BY DEF Inv, AuditInv, ChainPassed
  <2>2. clean[v] /\ \A s \in Stages : launches[v][s] = 1
    BY <2>1 DEF Inv, ReportInv, Stages, OpenroadStages
  <2>3. \A s \in OpenroadStages : <<v, s, "compute">> \in finished /\ <<v, s, "audit">> \in finished
    BY <2>1 DEF Inv, RunInv, RunGrounded, Computed, Stages
  <2> QED
    BY <2>1, <2>2, <2>3
<1> QED
  BY <1>1, InvInductive, PTL

(* Where the audit hashes the recorded inputs again, the records of a       *)
(* complete chain name the tool contents its permissions were given for,    *)
(* and OpenROAD ran another content only where somebody edited the tool at  *)
(* least twice: after the record, and back before the audit.  A single edit *)
(* anywhere between permission and audit is seen, whatever contents there   *)
(* are.                                                                     *)
THEOREM CompletionPinsTools == Spec => []CompleteOnPinnedTools
<1>1. Inv => CompleteOnPinnedTools
  BY DEF Inv, AuditInv, PinnedTools, CompleteOnPinnedTools
<1> QED
  BY <1>1, InvInductive, PTL

(* No EXIT trap, kill or second process changes a stage's report that was   *)
(* written, torn or not.  The completion report is written over by the      *)
(* audit that sealed it, and a kill there tears it: it never turns from one *)
(* verdict into the other, and once torn says nothing any more.             *)
THEOREM VerdictsStay == Spec => VerdictsFinal
<1> DEFINE Final == \A v \in Variants :
         /\ \A s \in Stages : report[v][s] # "absent" => report'[v][s] = report[v][s]
         /\ completion[v] \in {"PASS", "FAIL", "torn"} =>
              completion'[v] \in {completion[v], "torn"}
<1>1. Inv /\ [Next]_vars => [Final]_vars
  <2> SUFFICES ASSUME Inv, Next, NEW v \in Variants
               PROVE  /\ \A s \in Stages : report[v][s] # "absent" => report'[v][s] = report[v][s]
                      /\ completion[v] \in {"PASS", "FAIL", "torn"} =>
                           completion'[v] \in {completion[v], "torn"}
    OBVIOUS
  <2>1. \A s \in Stages : report[v][s] # "absent" => report'[v][s] = report[v][s]
    BY ReportsStay DEF Inv
  <2>2. ASSUME completion[v] \in {"PASS", "FAIL", "torn"}
        PROVE  completion'[v] \in {completion[v], "torn"}
    <3>1. CASE \E p \in Procs : AuditStep(p)
      <4>1. PICK p \in Procs : AuditStep(p)
        BY <3>1
      <4>2. proc[p].at = "rewriting" => completion[proc[p].v] = proc[p].verdict
        BY DEF Inv, SealInv
      <4> QED
        BY <4>1, <4>2, <2>2, AuditMoves DEF Inv
    <3>2. CASE \E p \in Procs : KillProc(p)
      BY <3>2, KillTears DEF Inv
    <3>3. CASE \A p \in Procs : ~ AuditStep(p) /\ ~ KillProc(p)
      BY <3>3, CompletionFrame DEF AuditStep
    <3> QED
      BY <3>1, <3>2, <3>3
  <2> QED
    BY <2>1, <2>2
<1> QED
  BY <1>1, InvInductive, PTL DEF Spec, VerdictsFinal

=============================================================================
