-------------------------- MODULE VMLifecycleProofs --------------------------
(***************************************************************************)
(* Proofs about VMLifecycle for any number of VMs, boots and requests.     *)
(***************************************************************************)
EXTENDS VMLifecycle, TLAPS

-----------------------------------------------------------------------------
(* Types                                                                   *)

StatusTypes == status \in [Vms -> Status \cup {"new", "gone"}]

BootTypes ==
    /\ boot \in [Boots -> Boot]
    /\ \A b \in Boots : boot[b] # Unused => boot[b].vm \in Vms

AgentTypes ==
    /\ agent \in [Agents -> Agent]
    /\ \A a \in Agents : agent[a].pc # "idle" => agent[a].vm \in Vms

HostTypes ==
    /\ alive \subseteq Vms /\ launching \subseteq Vms /\ forwards \subseteq Vms
    /\ runtimes \in [Vms -> Boots \cup {NoBoot}]
    /\ serving \in BOOLEAN

\* A write leaves a row that is gone alone and changes no other row.
LEMMA WriteFacts ==
    ASSUME StatusTypes, NEW v \in Vms, NEW s \in Status \cup {"new", "gone"}, Write(v, s)
    PROVE  /\ StatusTypes'
           /\ \A w \in Vms : status'[w] = IF w = v /\ v \in Listed THEN s ELSE status[w]
  BY DEF StatusTypes, Write, Listed

\* One boot changes, or is over and may be used again.
LEMMA BootBecomesFacts ==
    ASSUME BootTypes, NEW b \in Boots, NEW r \in Boot, r.vm \in Vms, BootBecomes(b, r)
    PROVE  /\ BootTypes'
           /\ \A c \in Boots \ {b} : boot'[c] = boot[c]
           /\ boot'[b] \in {r, Unused}
           /\ boot'[b].pc = r.pc /\ boot'[b].watch = r.watch
           /\ boot'[b].sup = r.sup /\ boot'[b].post = r.post
  <1>1. Clean(r) \in {r, Unused} /\ Clean(r) \in Boot
    BY DEF Clean, Unused, Boot
  <1>2. /\ Clean(r).pc = r.pc /\ Clean(r).watch = r.watch
        /\ Clean(r).sup = r.sup /\ Clean(r).post = r.post
    BY DEF Clean, Unused, Boot
  <1>3. boot'[b] = Clean(r) /\ \A c \in Boots \ {b} : boot'[c] = boot[c]
    BY DEF BootBecomes, BootTypes
  <1>4. boot' \in [Boots -> Boot]
    BY <1>1 DEF BootBecomes, BootTypes
  <1> QED
    BY <1>1, <1>2, <1>3, <1>4 DEF BootTypes

\* A boot with a goroutine at work knows its VM.
LEMMA BusyBoot ==
    ASSUME BootTypes, NEW b \in Boots,
           \/ boot[b].pc # "idle" \/ boot[b].watch # "off"
           \/ boot[b].sup # "off" \/ boot[b].post # "off"
    PROVE  boot[b] \in Boot /\ boot[b].vm \in Vms
  BY DEF BootTypes, Unused

\* One agent changes.
LEMMA AgentBecomesFacts ==
    ASSUME AgentTypes, NEW a \in Agents, NEW r \in Agent, r.pc # "idle" => r.vm \in Vms,
           AgentBecomes(a, r)
    PROVE  /\ AgentTypes'
           /\ agent'[a] = r
           /\ \A x \in Agents \ {a} : agent'[x] = agent[x]
  BY DEF AgentTypes, AgentBecomes

\* The end of its supervisor takes nothing else from a boot.
LEMMA UnsupervisedFacts ==
    ASSUME BootTypes, NEW b \in Boots
    PROVE  /\ Unsupervised(b) \in Boot
           /\ Unsupervised(b) \in {boot[b], [boot[b] EXCEPT !.sup = "off"], Unused}
           /\ Unsupervised(b) # Unused => Unsupervised(b).vm \in Vms
           /\ Unsupervised(b).pc = boot[b].pc /\ Unsupervised(b).watch = boot[b].watch
           /\ Unsupervised(b).sup # boot[b].sup => boot[b].sup = "on"
  BY DEF Unsupervised, Clean, BootTypes, Boot, Unused

\* One agent goes on.
LEMMA AgentGoesFacts ==
    ASSUME AgentTypes, NEW a \in Agents, agent[a].pc # "idle", NEW to \in AgentPc,
           AgentGoes(a, to)
    PROVE  /\ AgentTypes'
           /\ agent'[a].pc = to /\ agent'[a].vm = agent[a].vm /\ agent'[a].rt = agent[a].rt
           /\ \A x \in Agents \ {a} : agent'[x] = agent[x]
  <1> DEFINE r == [agent[a] EXCEPT !.pc = to]
  <1>1. agent[a] \in Agent /\ agent[a].vm \in Vms
    BY DEF AgentTypes
  <1>2. r \in Agent /\ r.pc = to /\ r.vm = agent[a].vm /\ r.rt = agent[a].rt
    BY <1>1 DEF Agent
  <1>3. AgentBecomes(a, r)
    BY DEF AgentGoes
  <1> HIDE DEF r
  <1> QED
    BY <1>1, <1>2, <1>3, AgentBecomesFacts

\* One agent ends.
LEMMA AgentEndsFacts ==
    ASSUME AgentTypes, NEW a \in Agents, AgentEnds(a)
    PROVE  /\ AgentTypes'
           /\ agent'[a] = IdleAgent
           /\ \A x \in Agents \ {a} : agent'[x] = agent[x]
  <1>1. IdleAgent \in Agent /\ IdleAgent.pc = "idle"
    BY DEF Agent, AgentPc, IdleAgent
  <1> QED
    BY <1>1, AgentBecomesFacts DEF AgentEnds

\* An idle agent begins.
LEMMA AgentBeginsFacts ==
    ASSUME AgentTypes, NEW a \in Agents, NEW v \in Vms,
           NEW op \in {"stop", "delete", "provision"}, NEW to \in AgentPc,
           AgentBegins(a, op, to, v)
    PROVE  /\ AgentTypes'
           /\ agent[a] = IdleAgent /\ agent'[a].pc = to
           /\ agent'[a].vm = v /\ agent'[a].rt = NoBoot
           /\ \A x \in Agents \ {a} : agent'[x] = agent[x]
  <1> DEFINE r == [pc |-> to, op |-> op, vm |-> v, rt |-> NoBoot,
                   wasUp |-> status[v] \in {"RUNNING", "BOOTING"}]
  <1>1. r \in Agent /\ r.vm = v /\ r.pc = to /\ r.rt = NoBoot
    BY DEF Agent
  <1>2. AgentBecomes(a, r) /\ agent[a] = IdleAgent
    BY DEF AgentBegins
  <1> HIDE DEF r
  <1> QED
    BY <1>1, <1>2, AgentBecomesFacts

\* Stop returns, to a deletion or to its caller.
LEMMA StopReturnsFacts ==
    ASSUME AgentTypes, NEW a \in Agents, agent[a].pc # "idle", StopReturns(a)
    PROVE  /\ AgentTypes'
           /\ agent'[a].pc \in {"lpdelete", "idle"} /\ agent'[a].rt = NoBoot
           /\ \A x \in Agents \ {a} : agent'[x] = agent[x]
  <1> DEFINE r == [agent[a] EXCEPT !.pc = "lpdelete", !.rt = NoBoot]
  <1>1. agent[a] \in Agent /\ agent[a].vm \in Vms
    BY DEF AgentTypes
  <1>2. r \in Agent /\ r.vm \in Vms /\ r.pc = "lpdelete" /\ r.rt = NoBoot
    BY <1>1 DEF Agent, AgentPc
  <1>3. AgentBecomes(a, r) \/ AgentEnds(a)
    BY DEF StopReturns
  <1>4. IdleAgent.pc = "idle" /\ IdleAgent.rt = NoBoot
    BY DEF IdleAgent
  <1> HIDE DEF r
  <1> QED
    BY <1>2, <1>3, <1>4, AgentBecomesFacts, AgentEndsFacts

-----------------------------------------------------------------------------
(* Typing is preserved variable by variable: of a step that leaves a       *)
(* variable alone only that is used.                                       *)

\* The statuses keep their types.
LEMMA StatusTypesNext ==
    ASSUME StatusTypes, BootTypes, AgentTypes, [Next]_vars
    PROVE  StatusTypes'
  <1>1. ASSUME NEW b \in Boots, BootMark(b)
        PROVE  StatusTypes'
    BY <1>1, BusyBoot, WriteFacts DEF BootMark, Status
  <1>2. ASSUME NEW b \in Boots, BootFails(b)
        PROVE  StatusTypes'
    BY <1>2, BusyBoot, WriteFacts DEF BootFails, Status
  <1>3. ASSUME NEW b \in Boots, BootReports(b)
        PROVE  StatusTypes'
    BY <1>3, BusyBoot, WriteFacts DEF BootReports, Status
  <1>4. ASSUME NEW b \in Boots, WatchMark(b)
        PROVE  StatusTypes'
    BY <1>4, BusyBoot, WriteFacts DEF WatchMark, Status
  <1>5. ASSUME NEW b \in Boots, SupMark(b)
        PROVE  StatusTypes'
    BY <1>5, BusyBoot, WriteFacts DEF SupMark, Status
  <1>6. ASSUME NEW a \in Agents, StopMark(a)
        PROVE  StatusTypes'
    BY <1>6, WriteFacts DEF StopMark, AgentTypes, Status
  <1>7. ASSUME NEW a \in Agents, StopFinal(a)
        PROVE  StatusTypes'
    BY <1>7, WriteFacts DEF StopFinal, AgentTypes, Status
  <1>8. ASSUME NEW a \in Agents, DeleteMark(a)
        PROVE  StatusTypes'
    BY <1>8, WriteFacts DEF DeleteMark, AgentTypes, Status
  <1>9. ASSUME NEW a \in Agents, DeleteRow(a)
        PROVE  StatusTypes'
    BY <1>9, WriteFacts DEF DeleteRow, AgentTypes, Status
  <1>10. ASSUME NEW a \in Agents, ReprovisionMark(a)
        PROVE  StatusTypes'
    BY <1>10, WriteFacts DEF ReprovisionMark, AgentTypes, Status
  <1>11. ASSUME NEW a \in Agents, PipelineEnds(a)
        PROVE  StatusTypes'
    BY <1>11, WriteFacts DEF PipelineEnds, AgentTypes, Status
  <1>12. ASSUME NEW a \in Agents, NEW v \in Vms, CreateVm(a, v)
        PROVE  StatusTypes'
    BY <1>12 DEF CreateVm, StatusTypes, Status
  <1>13. CASE Restart
    BY <1>13 DEF Restart, Reconciled, StatusTypes, Status
  <1>14. CASE UNCHANGED status
    BY <1>14 DEF StatusTypes
  <1>15. ASSUME NEW b \in Boots, BootStep(b) \/ Watch(b) \/ Supervise(b) \/ Post(b)
         PROVE  StatusTypes'
    <2>1. \/ BootMark(b) \/ BootFails(b) \/ BootReports(b) \/ WatchMark(b) \/ SupMark(b)
          \/ UNCHANGED status
      BY <1>15 DEF BootStep, BootCount, BootLaunch, BootPoll, BootRegister,
                   Watch, WatchTick, WatchDrop, WatchRead, Supervise, SupCheck, SupDrop,
                   Post, PostQuit, PostReady, PostForward, PostListen
    <2> QED
      BY <2>1, <1>1, <1>2, <1>3, <1>4, <1>5, <1>14
  <1>16. ASSUME NEW a \in Agents,
                StopStep(a) \/ DeleteStep(a) \/ DeleteCancelled(a) \/ ProvisionStep(a)
         PROVE  StatusTypes'
    <2>1. \/ StopMark(a) \/ StopFinal(a) \/ DeleteMark(a) \/ DeleteRow(a)
          \/ ReprovisionMark(a) \/ PipelineEnds(a)
          \/ UNCHANGED status
      BY <1>16 DEF StopStep, DeleteStep, ProvisionStep, StopGet, StopRuntime, StopKill,
                   StopForwards, StopDrop, DeleteStart, DeleteCancelled, DeleteLibrary, ReprovisionLaunch
    <2> QED
      BY <2>1, <1>6, <1>7, <1>8, <1>9, <1>10, <1>11, <1>14
  <1>17. ASSUME NEW a \in Agents, NEW v \in Vms,
                StopBegin(a, v) \/ DeleteBegin(a, v) \/ ReprovisionBegin(a, v)
         PROVE  UNCHANGED status
    BY <1>17 DEF StopBegin, DeleteBegin, ReprovisionBegin
  <1>18. ASSUME NEW b \in Boots, NEW v \in Vms, BootGet(b, v)
         PROVE  UNCHANGED status
    BY <1>18 DEF BootGet
  <1>19. ASSUME NEW v \in Vms, LauncherEnds(v) \/ ProcessDies(v)
         PROVE  UNCHANGED status
    BY <1>19 DEF LauncherEnds, ProcessDies
  <1>20. Shutdown \/ UNCHANGED vars => UNCHANGED status
    BY DEF Shutdown, vars
  <1> QED
    BY <1>12, <1>13, <1>14, <1>15, <1>16, <1>17, <1>18, <1>19, <1>20 DEF Next

\* The boots keep their types.
LEMMA BootTypesNext ==
    ASSUME StatusTypes, BootTypes, [Next]_vars
    PROVE  BootTypes'
  <1>1. ASSUME NEW b \in Boots, NEW v \in Vms, BootGet(b, v)
        PROVE  BootTypes'
    BY <1>1 DEF BootGet, BootTypes, Boot, Unused
  <1>2. ASSUME NEW b \in Boots, BootCount(b)
        PROVE  BootTypes'
    BY <1>2, BusyBoot, BootBecomesFacts DEF BootCount, BootGoes, Boot
  <1>3. ASSUME NEW b \in Boots, BootMark(b)
        PROVE  BootTypes'
    BY <1>3, BusyBoot, BootBecomesFacts DEF BootMark, BootGoes, Boot
  <1>4. ASSUME NEW b \in Boots, BootLaunch(b)
        PROVE  BootTypes'
    BY <1>4, BusyBoot, BootBecomesFacts DEF BootLaunch, BootGoes, Boot
  <1>5. ASSUME NEW b \in Boots, BootPoll(b)
        PROVE  BootTypes'
    BY <1>5, BusyBoot, BootBecomesFacts DEF BootPoll, BootGoes, Boot
  <1>6. ASSUME NEW b \in Boots, BootRegister(b)
        PROVE  BootTypes'
    BY <1>6, BusyBoot, BootBecomesFacts DEF BootRegister, Boot
  <1>7. ASSUME NEW b \in Boots, BootFails(b)
        PROVE  BootTypes'
    BY <1>7, BusyBoot, BootBecomesFacts DEF BootFails, BootGoes, Boot
  <1>8. ASSUME NEW b \in Boots, BootReports(b)
        PROVE  BootTypes'
    BY <1>8, BusyBoot, BootBecomesFacts DEF BootReports, Awaiting, Boot
  <1>9. ASSUME NEW b \in Boots, WatchTick(b)
        PROVE  BootTypes'
    BY <1>9, BusyBoot, BootBecomesFacts DEF WatchTick, WatchGoes, Boot
  <1>10. ASSUME NEW b \in Boots, WatchDrop(b)
        PROVE  BootTypes'
    BY <1>10, BusyBoot, BootBecomesFacts DEF WatchDrop, WatchGoes, Boot
  <1>11. ASSUME NEW b \in Boots, WatchRead(b)
        PROVE  BootTypes'
    BY <1>11, BusyBoot, BootBecomesFacts DEF WatchRead, WatchGoes, Boot
  <1>12. ASSUME NEW b \in Boots, WatchMark(b)
        PROVE  BootTypes'
    BY <1>12, BusyBoot, BootBecomesFacts DEF WatchMark, WatchGoes, Boot
  <1>13. ASSUME NEW b \in Boots, SupCheck(b)
        PROVE  BootTypes'
    BY <1>13, BusyBoot, BootBecomesFacts DEF SupCheck, SupGoes, Boot
  <1>14. ASSUME NEW b \in Boots, SupDrop(b)
        PROVE  BootTypes'
    BY <1>14, BusyBoot, BootBecomesFacts DEF SupDrop, SupGoes, Boot
  <1>15. ASSUME NEW b \in Boots, SupMark(b)
        PROVE  BootTypes'
    BY <1>15, BusyBoot, BootBecomesFacts DEF SupMark, SupGoes, Boot
  <1>16. ASSUME NEW b \in Boots, PostQuit(b)
        PROVE  BootTypes'
    BY <1>16, BusyBoot, BootBecomesFacts DEF PostQuit, PostGoes, Boot
  <1>17. ASSUME NEW b \in Boots, PostReady(b)
        PROVE  BootTypes'
    BY <1>17, BusyBoot, BootBecomesFacts DEF PostReady, PostGoes, Boot
  <1>18. ASSUME NEW b \in Boots, PostForward(b)
        PROVE  BootTypes'
    BY <1>18, BusyBoot, BootBecomesFacts DEF PostForward, PostGoes, Boot
  <1>19. ASSUME NEW b \in Boots, PostListen(b)
        PROVE  BootTypes'
    BY <1>19, BusyBoot, BootBecomesFacts DEF PostListen, PostGoes, Boot
  <1>20. ASSUME NEW a \in Agents, StopKill(a)
        PROVE  BootTypes'
    BY <1>20, UnsupervisedFacts DEF StopKill, BootTypes
  <1>21. CASE Shutdown
    BY <1>21, UnsupervisedFacts DEF Shutdown, BootTypes
  <1>22. CASE Restart
    <2>1. PICK found \in SUBSET (Stale \cap alive), r \in [Vms -> Boots \cup {NoBoot}] :
            boot' = [b \in Boots |-> IF \E v \in found : r[v] = b
                                     THEN Reconnected(CHOOSE v \in found : r[v] = b)
                                     ELSE Unused]
      BY <1>22 DEF Restart
    <2>2. \A v \in Vms : Reconnected(v) \in Boot /\ Reconnected(v).vm = v
      BY DEF Reconnected, Unused, Boot, Awaiting
    <2>3. found \subseteq Vms
      BY DEF Stale
    <2>4. ASSUME NEW b \in Boots
          PROVE  boot'[b] = Unused \/ \E v \in Vms : boot'[b] = Reconnected(v)
      <3>1. CASE \E v \in found : r[v] = b
        <4>1. (CHOOSE v \in found : r[v] = b) \in found
          BY <3>1
        <4> QED
          BY <4>1, <3>1, <2>1, <2>3
      <3>2. CASE ~\E v \in found : r[v] = b
        BY <3>2, <2>1
      <3> QED
        BY <3>1, <3>2
    <2>5. Unused \in Boot
      BY DEF Unused, Boot
    <2>6. boot' = [b \in Boots |-> boot'[b]]
      BY <2>1
    <2> QED
      BY <2>2, <2>4, <2>5, <2>6 DEF BootTypes
  <1>23. ASSUME NEW b \in Boots, BootStep(b) \/ Watch(b) \/ Supervise(b) \/ Post(b)
         PROVE  BootTypes'
    BY <1>2, <1>3, <1>4, <1>5, <1>6, <1>7, <1>8, <1>9, <1>10, <1>11, <1>12, <1>13,
       <1>14, <1>15, <1>16, <1>17, <1>18, <1>19, <1>23
       DEF BootStep, Watch, Supervise, Post
  <1>24. CASE UNCHANGED boot
    BY <1>24 DEF BootTypes
  <1>25. ASSUME NEW a \in Agents,
                StopStep(a) \/ DeleteStep(a) \/ DeleteCancelled(a) \/ ProvisionStep(a)
         PROVE  BootTypes'
    <2>1. StopKill(a) \/ UNCHANGED boot
      BY <1>25 DEF StopStep, DeleteStep, ProvisionStep, StopGet, StopRuntime, StopMark,
                   StopForwards, StopDrop, StopFinal, DeleteMark, DeleteStart, DeleteCancelled,
                   DeleteLibrary, DeleteRow, ReprovisionMark, ReprovisionLaunch, PipelineEnds
    <2> QED
      BY <2>1, <1>20, <1>24
  <1>26. ASSUME NEW a \in Agents, NEW v \in Vms,
                \/ StopBegin(a, v) \/ DeleteBegin(a, v)
                \/ CreateVm(a, v) \/ ReprovisionBegin(a, v)
         PROVE  UNCHANGED boot
    BY <1>26 DEF StopBegin, DeleteBegin, CreateVm, ReprovisionBegin
  <1>27. ASSUME NEW v \in Vms, LauncherEnds(v) \/ ProcessDies(v)
         PROVE  UNCHANGED boot
    BY <1>27 DEF LauncherEnds, ProcessDies
  <1> QED
    BY <1>1, <1>21, <1>22, <1>23, <1>24, <1>25, <1>26, <1>27 DEF Next, vars

\* The agents keep their types.
LEMMA AgentTypesNext ==
    ASSUME StatusTypes, AgentTypes, HostTypes, [Next]_vars
    PROVE  AgentTypes'
  <1>1. ASSUME NEW a \in Agents, NEW v \in Vms, StopBegin(a, v)
        PROVE  AgentTypes'
    BY <1>1, AgentBeginsFacts DEF StopBegin, AgentPc
  <1>2. ASSUME NEW a \in Agents, NEW v \in Vms, DeleteBegin(a, v)
        PROVE  AgentTypes'
    BY <1>2, AgentBeginsFacts DEF DeleteBegin, AgentPc
  <1>3. ASSUME NEW a \in Agents, NEW v \in Vms, CreateVm(a, v)
        PROVE  AgentTypes'
    BY <1>3, AgentBeginsFacts DEF CreateVm, AgentPc
  <1>4. ASSUME NEW a \in Agents, NEW v \in Vms, ReprovisionBegin(a, v)
        PROVE  AgentTypes'
    BY <1>4, AgentBeginsFacts DEF ReprovisionBegin, AgentPc
  <1>5. ASSUME NEW a \in Agents, StopGet(a)
        PROVE  AgentTypes'
    BY <1>5, AgentGoesFacts DEF StopGet, AgentPc
  <1>6. ASSUME NEW a \in Agents, StopRuntime(a)
        PROVE  AgentTypes'
    <2> DEFINE r == [agent[a] EXCEPT !.pc = "stopmark", !.rt = runtimes[agent[a].vm]]
    <2>1. agent[a] \in Agent /\ agent[a].vm \in Vms
      BY <1>6 DEF AgentTypes, StopRuntime
    <2>2. r \in Agent /\ r.vm \in Vms
      BY <2>1 DEF Agent, AgentPc, HostTypes
    <2>3. AgentBecomes(a, r)
      BY <1>6 DEF StopRuntime
    <2> HIDE DEF r
    <2> QED
      BY <2>2, <2>3, AgentBecomesFacts
  <1>7. ASSUME NEW a \in Agents, StopMark(a)
        PROVE  AgentTypes'
    BY <1>7, AgentGoesFacts, StopReturnsFacts DEF StopMark, AgentPc
  <1>8. ASSUME NEW a \in Agents, StopKill(a)
        PROVE  AgentTypes'
    BY <1>8, AgentGoesFacts DEF StopKill, AgentPc
  <1>9. ASSUME NEW a \in Agents, StopForwards(a) \/ StopDrop(a)
        PROVE  AgentTypes'
    BY <1>9, AgentGoesFacts DEF StopForwards, StopDrop, AgentPc
  <1>10. ASSUME NEW a \in Agents, StopFinal(a)
        PROVE  AgentTypes'
    BY <1>10, StopReturnsFacts DEF StopFinal, AgentPc
  <1>11. ASSUME NEW a \in Agents, DeleteMark(a)
        PROVE  AgentTypes'
    BY <1>11, AgentGoesFacts, AgentEndsFacts DEF DeleteMark, AgentPc
  <1>12. ASSUME NEW a \in Agents, DeleteStart(a)
        PROVE  AgentTypes'
    BY <1>12, AgentGoesFacts DEF DeleteStart, AgentPc
  <1>13. ASSUME NEW a \in Agents, DeleteCancelled(a)
        PROVE  AgentTypes'
    BY <1>13, AgentEndsFacts DEF DeleteCancelled, AgentPc
  <1>14. ASSUME NEW a \in Agents, DeleteLibrary(a)
        PROVE  AgentTypes'
    BY <1>14, AgentGoesFacts DEF DeleteLibrary, AgentPc
  <1>15. ASSUME NEW a \in Agents, DeleteRow(a)
        PROVE  AgentTypes'
    BY <1>15, AgentEndsFacts DEF DeleteRow, AgentPc
  <1>16. ASSUME NEW a \in Agents, ReprovisionMark(a)
        PROVE  AgentTypes'
    BY <1>16, AgentGoesFacts, AgentEndsFacts DEF ReprovisionMark, AgentPc
  <1>17. ASSUME NEW a \in Agents, ReprovisionLaunch(a)
        PROVE  AgentTypes'
    BY <1>17, AgentGoesFacts, AgentEndsFacts DEF ReprovisionLaunch, AgentPc
  <1>18. ASSUME NEW a \in Agents, PipelineEnds(a)
        PROVE  AgentTypes'
    BY <1>18, AgentEndsFacts DEF PipelineEnds, AgentPc
  <1>19. CASE Restart
    BY <1>19 DEF Restart, AgentTypes, Agent, AgentPc, IdleAgent
  <1>20. CASE UNCHANGED agent
    BY <1>20 DEF AgentTypes
  <1>21. ASSUME NEW b \in Boots, BootStep(b) \/ Watch(b) \/ Supervise(b) \/ Post(b)
         PROVE  UNCHANGED agent
    BY <1>21 DEF BootStep, BootCount, BootMark, BootLaunch, BootPoll, BootRegister, BootFails,
                 BootReports, Watch, WatchTick, WatchDrop, WatchRead, WatchMark,
                 Supervise, SupCheck, SupDrop, SupMark,
                 Post, PostQuit, PostReady, PostForward, PostListen
  <1>22. ASSUME NEW a \in Agents,
                StopStep(a) \/ DeleteStep(a) \/ DeleteCancelled(a) \/ ProvisionStep(a)
         PROVE  AgentTypes'
    BY <1>5, <1>6, <1>7, <1>8, <1>9, <1>10, <1>11, <1>12, <1>13, <1>14, <1>15, <1>16,
       <1>17, <1>18, <1>22 DEF StopStep, DeleteStep, ProvisionStep
  <1>23. ASSUME NEW b \in Boots, NEW v \in Vms, BootGet(b, v)
         PROVE  UNCHANGED agent
    BY <1>23 DEF BootGet
  <1>24. ASSUME NEW v \in Vms, LauncherEnds(v) \/ ProcessDies(v)
         PROVE  UNCHANGED agent
    BY <1>24 DEF LauncherEnds, ProcessDies
  <1>25. CASE Shutdown
    BY <1>20, <1>25 DEF Shutdown
  <1> QED
    BY <1>1, <1>2, <1>3, <1>4, <1>19, <1>20, <1>21, <1>22, <1>23, <1>24, <1>25 DEF Next, vars

\* Processes, runtimes and forwards keep their types.
LEMMA HostTypesNext ==
    ASSUME BootTypes, AgentTypes, HostTypes, [Next]_vars
    PROVE  HostTypes'
  <1> USE DEF HostTypes
  <1>1. CASE UNCHANGED <<host, runtimes, forwards, serving>>
    BY <1>1 DEF host
  <1>2. ASSUME NEW b \in Boots, BootLaunch(b)
        PROVE  HostTypes'
    <2>1. boot[b].vm \in Vms
      BY <1>2, BusyBoot DEF BootLaunch
    <2> QED
      BY <2>1, <1>2 DEF BootLaunch, host
  <1>3. ASSUME NEW b \in Boots, BootRegister(b)
        PROVE  HostTypes'
    <2>1. boot[b].vm \in Vms
      BY <1>3, BusyBoot DEF BootRegister
    <2> QED
      BY <2>1, <1>3 DEF BootRegister, host
  <1>4. ASSUME NEW b \in Boots, WatchDrop(b)
        PROVE  HostTypes'
    <2>1. boot[b].vm \in Vms
      BY <1>4, BusyBoot DEF WatchDrop
    <2> QED
      BY <2>1, <1>4 DEF WatchDrop, host
  <1>5. ASSUME NEW b \in Boots, SupDrop(b)
        PROVE  HostTypes'
    <2>1. boot[b].vm \in Vms
      BY <1>5, BusyBoot DEF SupDrop
    <2> QED
      BY <2>1, <1>5 DEF SupDrop, host
  <1>6. ASSUME NEW b \in Boots, PostListen(b)
        PROVE  HostTypes'
    <2>1. boot[b].vm \in Vms
      BY <1>6, BusyBoot DEF PostListen
    <2> QED
      BY <2>1, <1>6 DEF PostListen, host
  <1>7. ASSUME NEW a \in Agents, StopKill(a)
        PROVE  HostTypes'
    BY <1>7 DEF StopKill
  <1>8. ASSUME NEW a \in Agents, StopForwards(a) \/ StopDrop(a)
        PROVE  HostTypes'
    BY <1>8 DEF StopForwards, StopDrop, host
  <1>9. ASSUME NEW a \in Agents, DeleteLibrary(a)
        PROVE  HostTypes'
    BY <1>9 DEF DeleteLibrary, LaunchpadDelete
  <1>10. ASSUME NEW a \in Agents, ReprovisionLaunch(a)
        PROVE  HostTypes'
    BY <1>10 DEF ReprovisionLaunch, LaunchpadDelete
  <1>11. ASSUME NEW a \in Agents, PipelineEnds(a)
        PROVE  HostTypes'
    BY <1>11 DEF PipelineEnds, LaunchpadDelete
  <1>12. ASSUME NEW v \in Vms, LauncherEnds(v) \/ ProcessDies(v)
         PROVE  HostTypes'
    BY <1>12 DEF LauncherEnds, ProcessDies
  <1>13. CASE Shutdown
    BY <1>13 DEF Shutdown
  <1>14. CASE Restart
    BY <1>14 DEF Restart, host
  <1>15. ASSUME NEW b \in Boots, BootStep(b) \/ Watch(b) \/ Supervise(b) \/ Post(b)
         PROVE  HostTypes'
    <2>1. \/ BootLaunch(b) \/ BootRegister(b) \/ WatchDrop(b) \/ SupDrop(b) \/ PostListen(b)
          \/ UNCHANGED <<host, runtimes, forwards, serving>>
      BY <1>15 DEF BootStep, BootCount, BootMark, BootPoll, BootFails, BootReports,
                   Watch, WatchTick, WatchRead, WatchMark, Supervise, SupCheck, SupMark,
                   Post, PostQuit, PostReady, PostForward
    <2> QED
      BY <2>1, <1>1, <1>2, <1>3, <1>4, <1>5, <1>6
  <1>16. ASSUME NEW a \in Agents,
                StopStep(a) \/ DeleteStep(a) \/ DeleteCancelled(a) \/ ProvisionStep(a)
         PROVE  HostTypes'
    <2>1. \/ StopKill(a) \/ StopForwards(a) \/ StopDrop(a) \/ DeleteLibrary(a)
          \/ ReprovisionLaunch(a) \/ PipelineEnds(a)
          \/ UNCHANGED <<host, runtimes, forwards, serving>>
      BY <1>16 DEF StopStep, DeleteStep, ProvisionStep, StopGet, StopRuntime, StopMark,
                   StopFinal, DeleteMark, DeleteStart, DeleteCancelled, DeleteRow,
                   ReprovisionMark
    <2> QED
      BY <2>1, <1>1, <1>7, <1>8, <1>9, <1>10, <1>11
  <1>17. ASSUME NEW a \in Agents, NEW v \in Vms,
                \/ StopBegin(a, v) \/ DeleteBegin(a, v)
                \/ CreateVm(a, v) \/ ReprovisionBegin(a, v)
         PROVE  UNCHANGED <<host, runtimes, forwards, serving>>
    BY <1>17 DEF StopBegin, DeleteBegin, CreateVm, ReprovisionBegin
  <1>18. ASSUME NEW b \in Boots, NEW v \in Vms, BootGet(b, v)
         PROVE  UNCHANGED <<host, runtimes, forwards, serving>>
    BY <1>18 DEF BootGet
  <1>19. UNCHANGED vars => UNCHANGED <<host, runtimes, forwards, serving>>
    BY DEF vars, host
  <1> QED
    BY <1>1, <1>12, <1>13, <1>14, <1>15, <1>16, <1>17, <1>18, <1>19 DEF Next

\* The types, part by part.
LEMMA TypeParts == TypeOK <=> StatusTypes /\ BootTypes /\ AgentTypes /\ HostTypes
  BY DEF TypeOK, StatusTypes, BootTypes, AgentTypes, HostTypes

\* The types hold at the start.
LEMMA TypeInit == Init => TypeOK
  BY DEF Init, TypeOK, Boot, Unused, Agent, AgentPc, IdleAgent, Status

\* Every step keeps the types.
LEMMA TypeNext == TypeOK /\ [Next]_vars => TypeOK'
  <1> SUFFICES ASSUME TypeOK, [Next]_vars
               PROVE  TypeOK'
    OBVIOUS
  <1>1. StatusTypes /\ BootTypes /\ AgentTypes /\ HostTypes
    BY TypeParts
  <1>2. StatusTypes' /\ BootTypes' /\ AgentTypes' /\ HostTypes'
    BY <1>1, StatusTypesNext, BootTypesNext, AgentTypesNext, HostTypesNext
  <1> QED
    BY <1>2 DEF TypeOK, StatusTypes, BootTypes, AgentTypes, HostTypes

\* Whatever the goroutines do to each other, every variable keeps its type and
\* whoever is at work knows an existing VM (TypeOK).
THEOREM TypeCorrect == Spec => []TypeOK
  <1> QED
    BY TypeInit, TypeNext, PTL DEF Spec

-----------------------------------------------------------------------------
(* Transient states are owned                                              *)

\* The pcs between BootMark and the write that ends the boot.
Late == {"launch", "poll", "register", "failed", "report"}

BootingOwned(v) == status[v] = "BOOTING" => \E b \in Boots : boot[b].vm = v /\ boot[b].pc \in Late

StoppingOwned(v) ==
    status[v] = "STOPPING" =>
        \E a \in Agents : agent[a].vm = v /\ agent[a].pc \in {"stopkill", "stopfwd", "stopdrop", "stopfinal"}

\* The transient states, one VM and one state at a time.
LEMMA OwnedParts ==
    TransientsOwned <=> \A v \in Vms : BootingOwned(v) /\ StoppingOwned(v)
  BY DEF TransientsOwned, BootingOwned, StoppingOwned, Booting, Stopping, Late

\* Supervisors and the services leave the goroutine of the boot alone, and all
\* they write into a status is ERROR.
LEMMA WatchersFacts ==
    ASSUME StatusTypes, BootTypes, NEW b \in Boots, Watch(b) \/ Supervise(b) \/ Post(b)
    PROVE  /\ boot'[b].pc = boot[b].pc
           /\ boot[b].vm \in Vms
           /\ boot'[b].pc # "idle" => boot'[b].vm = boot[b].vm
           /\ \A c \in Boots \ {b} : boot'[c] = boot[c]
           /\ \A v \in Vms : status'[v] \in {status[v], "ERROR"}
           /\ UNCHANGED agent
  <1> USE DEF Boot, Unused
  <1>1. CASE WatchTick(b)
    BY <1>1, BusyBoot, BootBecomesFacts DEF WatchTick, WatchGoes
  <1>2. CASE WatchDrop(b)
    BY <1>2, BusyBoot, BootBecomesFacts DEF WatchDrop, WatchGoes
  <1>3. CASE WatchRead(b)
    BY <1>3, BusyBoot, BootBecomesFacts DEF WatchRead, WatchGoes
  <1>4. CASE WatchMark(b)
    BY <1>4, BusyBoot, BootBecomesFacts, WriteFacts DEF WatchMark, WatchGoes, Status
  <1>5. CASE SupCheck(b)
    BY <1>5, BusyBoot, BootBecomesFacts DEF SupCheck, SupGoes
  <1>6. CASE SupDrop(b)
    BY <1>6, BusyBoot, BootBecomesFacts DEF SupDrop, SupGoes
  <1>7. CASE SupMark(b)
    BY <1>7, BusyBoot, BootBecomesFacts, WriteFacts DEF SupMark, SupGoes, Status
  <1>8. CASE PostQuit(b)
    BY <1>8, BusyBoot, BootBecomesFacts DEF PostQuit, PostGoes
  <1>9. CASE PostReady(b)
    BY <1>9, BusyBoot, BootBecomesFacts DEF PostReady, PostGoes
  <1>10. CASE PostForward(b)
    BY <1>10, BusyBoot, BootBecomesFacts DEF PostForward, PostGoes
  <1>11. CASE PostListen(b)
    BY <1>11, BusyBoot, BootBecomesFacts DEF PostListen, PostGoes
  <1> QED
    BY <1>1, <1>2, <1>3, <1>4, <1>5, <1>6, <1>7, <1>8, <1>9, <1>10, <1>11
       DEF Watch, Supervise, Post

\* The goroutine of a boot: what it writes, and that it is the only one to end
\* its own late part.
LEMMA BootStepFacts ==
    ASSUME StatusTypes, BootTypes, NEW b \in Boots, BootStep(b)
    PROVE  /\ boot[b].vm \in Vms
           /\ boot'[b].pc # "idle" => boot'[b].vm = boot[b].vm
           /\ boot[b].pc \in Late =>
                \/ boot'[b].pc \in Late
                \/ status'[boot[b].vm] # "BOOTING"
           /\ \A c \in Boots \ {b} : boot'[c] = boot[c]
           /\ \A v \in Vms : status'[v] = "BOOTING" /\ status[v] # "BOOTING" =>
                                boot'[b].vm = v /\ boot'[b].pc \in Late
           /\ \A v \in Vms : status'[v] = "STOPPING" => status[v] = "STOPPING"
           /\ UNCHANGED agent
  <1> USE DEF Boot, Unused, Late
  <1>1. CASE BootCount(b)
    BY <1>1, BusyBoot, BootBecomesFacts DEF BootCount, BootGoes
  <1>2. CASE BootMark(b)
    BY <1>2, BusyBoot, BootBecomesFacts, WriteFacts DEF BootMark, BootGoes, Status
  <1>3. CASE BootLaunch(b)
    BY <1>3, BusyBoot, BootBecomesFacts DEF BootLaunch, BootGoes
  <1>4. CASE BootPoll(b)
    BY <1>4, BusyBoot, BootBecomesFacts DEF BootPoll, BootGoes
  <1>5. CASE BootRegister(b)
    <2> DEFINE r == [boot[b] EXCEPT !.pc = "report", !.watch = "on", !.sup = "on"]
    <2>1. boot[b] \in Boot /\ boot[b].vm \in Vms
      BY <1>5, BusyBoot DEF BootRegister
    <2>2. r \in Boot /\ r.vm = boot[b].vm /\ r.pc = "report"
      BY <2>1
    <2>3. BootBecomes(b, r) /\ UNCHANGED <<status, agent>>
      BY <1>5 DEF BootRegister
    <2> HIDE DEF r
    <2> QED
      BY <2>1, <2>2, <2>3, BootBecomesFacts
  <1>6. CASE BootFails(b)
    BY <1>6, BusyBoot, BootBecomesFacts, WriteFacts DEF BootFails, BootGoes, Status, Listed
  <1>7. CASE BootReports(b)
    <2> DEFINE r == [boot[b] EXCEPT !.pc = "idle",
                            !.post = IF boot[b].vm \in Listed THEN Awaiting ELSE "off"]
    <2>1. boot[b] \in Boot /\ boot[b].vm \in Vms
      BY <1>7, BusyBoot DEF BootReports
    <2>2. r \in Boot /\ r.vm = boot[b].vm /\ r.pc = "idle"
      BY <2>1 DEF Awaiting
    <2>3. BootBecomes(b, r) /\ Write(boot[b].vm, "RUNNING") /\ UNCHANGED agent
      BY <1>7 DEF BootReports
    <2>4. \A v \in Vms : status'[v] \in {status[v], "RUNNING"}
      BY <2>1, <2>3, WriteFacts DEF Status
    <2>5. status'[boot[b].vm] # "BOOTING"
      BY <2>1, <2>3, WriteFacts DEF Status, Listed
    <2> HIDE DEF r
    <2> QED
      BY <2>1, <2>2, <2>3, <2>4, <2>5, BootBecomesFacts
  <1> QED
    BY <1>1, <1>2, <1>3, <1>4, <1>5, <1>6, <1>7 DEF BootStep

\* Agents: the only one to end a Stop at work is the agent that runs it, by
\* writing STOPPED; none writes BOOTING or touches a boot in its late part.
LEMMA AgentStepFacts ==
    ASSUME StatusTypes, BootTypes, AgentTypes, NEW a \in Agents,
           StopStep(a) \/ DeleteStep(a) \/ DeleteCancelled(a) \/ ProvisionStep(a)
    PROVE  /\ agent[a].vm \in Vms
           /\ agent[a].pc \in {"stopkill", "stopfwd", "stopdrop", "stopfinal"} =>
                \/ /\ agent'[a].vm = agent[a].vm
                   /\ agent'[a].pc \in {"stopkill", "stopfwd", "stopdrop", "stopfinal"}
                \/ status'[agent[a].vm] # "STOPPING"
           /\ \A x \in Agents \ {a} : agent'[x] = agent[x]
           /\ \A v \in Vms : status'[v] = "STOPPING" /\ status[v] # "STOPPING" =>
                agent'[a].vm = v /\ agent'[a].pc \in {"stopkill", "stopfwd", "stopdrop", "stopfinal"}
           /\ \A v \in Vms : status'[v] = "BOOTING" => status[v] = "BOOTING"
           /\ \A b \in Boots : boot[b].pc # "idle" =>
                boot'[b].pc = boot[b].pc /\ boot'[b].vm = boot[b].vm
  <1> USE DEF AgentPc
  <1>0. UNCHANGED boot =>
            \A b \in Boots : boot[b].pc # "idle" =>
                boot'[b].pc = boot[b].pc /\ boot'[b].vm = boot[b].vm
    OBVIOUS
  <1>a. agent[a].pc # "idle" => agent[a].vm \in Vms
    BY DEF AgentTypes
  <1>1. CASE StopGet(a)
    BY <1>0, <1>a, <1>1, AgentGoesFacts DEF StopGet
  <1>2. CASE StopRuntime(a)
    BY <1>0, <1>a, <1>2 DEF StopRuntime, AgentBecomes, AgentTypes, Agent
  <1>3. CASE StopMark(a)
    BY <1>0, <1>a, <1>3, AgentGoesFacts, StopReturnsFacts, WriteFacts DEF StopMark, Status
  <1>4. CASE StopKill(a)
    <2>1. \A b \in Boots : boot[b].pc # "idle" =>
            boot'[b].pc = boot[b].pc /\ boot'[b].vm = boot[b].vm
      BY <1>4, UnsupervisedFacts DEF StopKill, Unused, Boot, BootTypes
    <2> QED
      BY <2>1, <1>a, <1>4, AgentGoesFacts DEF StopKill
  <1>5. CASE StopForwards(a) \/ StopDrop(a)
    BY <1>0, <1>a, <1>5, AgentGoesFacts DEF StopForwards, StopDrop
  <1>6. CASE StopFinal(a)
    BY <1>0, <1>a, <1>6, StopReturnsFacts, WriteFacts DEF StopFinal, Status, Listed
  <1>7. CASE DeleteMark(a)
    BY <1>0, <1>a, <1>7, AgentGoesFacts, AgentEndsFacts, WriteFacts DEF DeleteMark, Status
  <1>8. CASE DeleteStart(a)
    BY <1>0, <1>a, <1>8, AgentGoesFacts DEF DeleteStart
  <1>9. CASE DeleteCancelled(a)
    BY <1>0, <1>a, <1>9, AgentEndsFacts DEF DeleteCancelled
  <1>10. CASE DeleteLibrary(a)
    BY <1>0, <1>a, <1>10, AgentGoesFacts DEF DeleteLibrary
  <1>11. CASE DeleteRow(a)
    BY <1>0, <1>a, <1>11, AgentEndsFacts, WriteFacts DEF DeleteRow
  <1>12. CASE ReprovisionMark(a)
    BY <1>0, <1>a, <1>12, AgentGoesFacts, AgentEndsFacts, WriteFacts DEF ReprovisionMark, Status
  <1>13. CASE ReprovisionLaunch(a)
    BY <1>0, <1>a, <1>13, AgentGoesFacts, AgentEndsFacts DEF ReprovisionLaunch
  <1>14. CASE PipelineEnds(a)
    BY <1>0, <1>a, <1>14, AgentEndsFacts, WriteFacts DEF PipelineEnds, Status
  <1> QED
    BY <1>1, <1>2, <1>3, <1>4, <1>5, <1>6, <1>7, <1>8, <1>9, <1>10, <1>11, <1>12, <1>13, <1>14
       DEF StopStep, DeleteStep, ProvisionStep

\* A new process finds no VM BOOTING or STOPPING: reconcile has written them all.
LEMMA RestartFacts ==
    ASSUME StatusTypes, Restart
    PROVE  \A v \in Vms : status'[v] \notin {"BOOTING", "STOPPING"}
  BY DEF Restart, Reconciled, Stale, StatusTypes, Status

\* Shutdown and new requests: they start no transient state and end no late part.
LEMMA OtherFacts ==
    ASSUME StatusTypes, BootTypes, AgentTypes,
           \/ Shutdown
           \/ \E b \in Boots, v \in Vms : BootGet(b, v)
           \/ \E a \in Agents, v \in Vms :
                StopBegin(a, v) \/ DeleteBegin(a, v) \/ CreateVm(a, v) \/ ReprovisionBegin(a, v)
           \/ \E v \in Vms : LauncherEnds(v) \/ ProcessDies(v)
           \/ UNCHANGED vars
    PROVE  /\ \A v \in Vms : status'[v] \in {status[v], "CREATING"}
           /\ \A b \in Boots : boot[b].pc # "idle" =>
                boot'[b].pc = boot[b].pc /\ boot'[b].vm = boot[b].vm
           /\ \A a \in Agents : agent[a].pc # "idle" => agent'[a] = agent[a]
  <1>1. CASE Shutdown
    <2>1. \A b \in Boots : boot'[b] \in {boot[b], Unsupervised(b)}
      BY <1>1 DEF Shutdown
    <2>2. \A b \in Boots : boot[b].pc # "idle" =>
            boot'[b].pc = boot[b].pc /\ boot'[b].vm = boot[b].vm
      BY <2>1, UnsupervisedFacts DEF Unused, Boot, BootTypes
    <2> QED
      BY <2>2, <1>1 DEF Shutdown
  <1>2. ASSUME NEW b \in Boots, NEW v \in Vms, BootGet(b, v)
        PROVE  /\ UNCHANGED <<status, agent>> /\ boot[b].pc = "idle"
               /\ \A c \in Boots \ {b} : boot'[c] = boot[c]
    <2>1. boot[b] = Unused /\ UNCHANGED <<status, agent>>
      BY <1>2 DEF BootGet, Free
    <2>2. Unused.pc = "idle"
      BY DEF Unused
    <2> DEFINE r == [Unused EXCEPT !.vm = v, !.pc = "count"]
    <2>3. boot' = [boot EXCEPT ![b] = r]
      BY <1>2 DEF BootGet
    <2> HIDE DEF r
    <2>4. \A c \in Boots \ {b} : boot'[c] = boot[c]
      BY <2>3 DEF BootTypes
    <2> QED
      BY <2>1, <2>2, <2>4
  <1>3. ASSUME NEW a \in Agents, NEW v \in Vms, NEW op, NEW to, AgentBegins(a, op, to, v)
        PROVE  agent[a].pc = "idle" /\ \A x \in Agents \ {a} : agent'[x] = agent[x]
    BY <1>3 DEF AgentBegins, AgentBecomes, IdleAgent, AgentTypes
  <1>4. ASSUME NEW a \in Agents, NEW v \in Vms,
               StopBegin(a, v) \/ DeleteBegin(a, v) \/ ReprovisionBegin(a, v)
        PROVE  /\ UNCHANGED <<status, boot>> /\ agent[a].pc = "idle"
               /\ \A x \in Agents \ {a} : agent'[x] = agent[x]
    BY <1>3, <1>4 DEF StopBegin, DeleteBegin, ReprovisionBegin
  <1>5. ASSUME NEW a \in Agents, NEW v \in Vms, CreateVm(a, v)
        PROVE  /\ UNCHANGED boot /\ agent[a].pc = "idle"
               /\ \A w \in Vms : status'[w] \in {status[w], "CREATING"}
               /\ \A x \in Agents \ {a} : agent'[x] = agent[x]
    BY <1>3, <1>5 DEF CreateVm, StatusTypes
  <1>6. ASSUME NEW v \in Vms, LauncherEnds(v) \/ ProcessDies(v)
        PROVE  UNCHANGED <<status, boot, agent>>
    BY <1>6 DEF LauncherEnds, ProcessDies
  <1>7. CASE UNCHANGED vars
    BY <1>7 DEF vars
  <1> QED
    BY <1>1, <1>2, <1>4, <1>5, <1>6, <1>7

\* Whoever writes BOOTING owns it, and its owner leaves only with another status.
LEMMA BootingOwnedNext ==
    ASSUME TypeOK, [Next]_vars, NEW v \in Vms, BootingOwned(v)
    PROVE  BootingOwned(v)'
  <1> SUFFICES ASSUME status'[v] = "BOOTING"
               PROVE  \E b \in Boots : boot'[b].vm = v /\ boot'[b].pc \in Late
    BY DEF BootingOwned
  <1>0. StatusTypes /\ BootTypes /\ AgentTypes
    BY TypeParts
  <1>1. ASSUME NEW b \in Boots, BootStep(b)
        PROVE  \E c \in Boots : boot'[c].vm = v /\ boot'[c].pc \in Late
    <2>1. CASE status[v] # "BOOTING"
      BY <2>1, <1>0, <1>1, BootStepFacts
    <2>2. CASE status[v] = "BOOTING"
      <3>1. PICK c \in Boots : boot[c].vm = v /\ boot[c].pc \in Late
        BY <2>2 DEF BootingOwned
      <3>2. boot'[c].vm = v /\ boot'[c].pc \in Late
        BY <3>1, <1>0, <1>1, BootStepFacts DEF Late
      <3> QED
        BY <3>2
    <2> QED
      BY <2>1, <2>2
  <1>2. ASSUME status[v] = "BOOTING",
               \A c \in Boots : boot[c].pc # "idle" =>
                    boot'[c].pc = boot[c].pc /\ boot'[c].vm = boot[c].vm
        PROVE  \E b \in Boots : boot'[b].vm = v /\ boot'[b].pc \in Late
    BY <1>2 DEF BootingOwned, Late
  <1>3. ASSUME NEW b \in Boots, Watch(b) \/ Supervise(b) \/ Post(b)
        PROVE  \E c \in Boots : boot'[c].vm = v /\ boot'[c].pc \in Late
    BY <1>0, <1>2, <1>3, WatchersFacts
  <1>4. ASSUME NEW a \in Agents,
               StopStep(a) \/ DeleteStep(a) \/ DeleteCancelled(a) \/ ProvisionStep(a)
        PROVE  \E c \in Boots : boot'[c].vm = v /\ boot'[c].pc \in Late
    BY <1>0, <1>2, <1>4, AgentStepFacts
  <1>5. ~Restart
    BY <1>0, RestartFacts
  <1> QED
    BY <1>0, <1>1, <1>2, <1>3, <1>4, <1>5, OtherFacts DEF Next

\* The same of STOPPING.
LEMMA StoppingOwnedNext ==
    ASSUME TypeOK, [Next]_vars, NEW v \in Vms, StoppingOwned(v)
    PROVE  StoppingOwned(v)'
  <1> DEFINE AtWork == {"stopkill", "stopfwd", "stopdrop", "stopfinal"}
  <1> SUFFICES ASSUME status'[v] = "STOPPING"
               PROVE  \E a \in Agents : agent'[a].vm = v /\ agent'[a].pc \in AtWork
    BY DEF StoppingOwned
  <1>0. StatusTypes /\ BootTypes /\ AgentTypes
    BY TypeParts
  <1>1. ASSUME NEW a \in Agents,
               StopStep(a) \/ DeleteStep(a) \/ DeleteCancelled(a) \/ ProvisionStep(a)
        PROVE  \E x \in Agents : agent'[x].vm = v /\ agent'[x].pc \in AtWork
    <2>1. CASE status[v] # "STOPPING"
      BY <2>1, <1>0, <1>1, AgentStepFacts
    <2>2. CASE status[v] = "STOPPING"
      <3>1. PICK x \in Agents : agent[x].vm = v /\ agent[x].pc \in AtWork
        BY <2>2 DEF StoppingOwned
      <3>2. agent'[x].vm = v /\ agent'[x].pc \in AtWork
        BY <3>1, <1>0, <1>1, AgentStepFacts
      <3> QED
        BY <3>2
    <2> QED
      BY <2>1, <2>2
  <1>2. ASSUME status[v] = "STOPPING",
               \A a \in Agents : agent[a].pc # "idle" => agent'[a] = agent[a]
        PROVE  \E a \in Agents : agent'[a].vm = v /\ agent'[a].pc \in AtWork
    BY <1>2 DEF StoppingOwned
  <1>3. ASSUME NEW b \in Boots, BootStep(b)
        PROVE  \E a \in Agents : agent'[a].vm = v /\ agent'[a].pc \in AtWork
    BY <1>0, <1>2, <1>3, BootStepFacts
  <1>4. ASSUME NEW b \in Boots, Watch(b) \/ Supervise(b) \/ Post(b)
        PROVE  \E a \in Agents : agent'[a].vm = v /\ agent'[a].pc \in AtWork
    BY <1>0, <1>2, <1>4, WatchersFacts
  <1>5. ~Restart
    BY <1>0, RestartFacts
  <1> QED
    BY <1>0, <1>1, <1>2, <1>3, <1>4, <1>5, OtherFacts DEF Next

\* No VM is left in BOOTING or STOPPING by itself (TransientsOwned): the goroutine
\* that will write the next status is at work, however many boots, stops,
\* deletions, supervisors and restarts overlap.
THEOREM TransientsAreOwned == Spec => []TransientsOwned
  <1>1. Init => TransientsOwned
    BY DEF Init, TransientsOwned
  <1>2. TypeOK /\ TransientsOwned /\ [Next]_vars => TransientsOwned'
    <2> SUFFICES ASSUME TypeOK, TransientsOwned, [Next]_vars
                 PROVE  TransientsOwned'
      OBVIOUS
    <2>1. \A v \in Vms : BootingOwned(v)' /\ StoppingOwned(v)'
      BY BootingOwnedNext, StoppingOwnedNext, OwnedParts
    <2> QED
      BY <2>1 DEF TransientsOwned, BootingOwned, StoppingOwned, Booting, Stopping, Late
  <1> QED
    BY <1>1, <1>2, TypeCorrect, PTL DEF Spec

-----------------------------------------------------------------------------
(* A RUNNING VM is supervised: the strengthening                           *)

\* A reference to a boot is to a boot of that VM, or to one that has ended and
\* will not be used again before the reference is gone.
BelongsTo(b, v) == boot[b] = Unused \/ boot[b].vm = v

RuntimesKnown == \A v \in Vms : runtimes[v] \in Boots => BelongsTo(runtimes[v], v)

StopsKnow == \A a \in Agents : agent[a].rt \in Boots => BelongsTo(agent[a].rt, agent[a].vm)

\* Between the registration and the report the watcher is there: it has not ticked.
ReportsWatched == \A b \in Boots : boot[b].pc = "report" => boot[b].watch = "on"

\* Someone is about to end the supervisor of b.
Doomed(b) == \E a \in Agents : agent[a].pc = "stopkill" /\ agent[a].rt = b

\* b watches its VM, and no Stop under way can change that without the VM having
\* been marked STOPPING first.
Guards(b) == boot[b].watch # "off" \/ (boot[b].sup # "off" /\ ~Doomed(b))

Guarded(v) == status[v] = "RUNNING" => \E b \in Boots : boot[b].vm = v /\ Guards(b)

Supervised ==
    /\ RuntimesKnown /\ StopsKnow /\ ReportsWatched
    /\ serving => \A v \in Vms : Guarded(v)

-----------------------------------------------------------------------------
(* How a step changes a boot                                               *)

\* What the next lemmas say of a boot b that a step may have changed.
Moves(b) ==
    /\ boot'[b].vm = boot[b].vm \/ boot'[b] = Unused \/ Free(b)
    /\ boot[b].watch # "off" => boot'[b].watch # "off" \/ status'[boot[b].vm] # "RUNNING"
    /\ boot[b].sup # "off" =>
            boot'[b].sup # "off" \/ status'[boot[b].vm] # "RUNNING" \/ ~serving' \/ Doomed(b)
    /\ boot'[b].pc = "report" /\ (boot[b].pc = "report" => boot[b].watch = "on") =>
            boot'[b].watch = "on"

\* A boot that does not change.
LEMMA Unmoved == ASSUME NEW b \in Boots, boot'[b] = boot[b] PROVE Moves(b)
  BY DEF Moves

\* The goroutine of the boot: it adds a watcher and a supervisor.
LEMMA BootStepMoves ==
    ASSUME StatusTypes, BootTypes, NEW b \in Boots, BootStep(b)
    PROVE  Moves(b)
  <1> USE DEF Boot, Unused, Moves
  <1>1. CASE BootCount(b)
    BY <1>1, BusyBoot, BootBecomesFacts DEF BootCount, BootGoes
  <1>2. CASE BootMark(b)
    BY <1>2, BusyBoot, BootBecomesFacts DEF BootMark, BootGoes
  <1>3. CASE BootLaunch(b)
    BY <1>3, BusyBoot, BootBecomesFacts DEF BootLaunch, BootGoes
  <1>4. CASE BootPoll(b)
    BY <1>4, BusyBoot, BootBecomesFacts DEF BootPoll, BootGoes
  <1>5. CASE BootRegister(b)
    <2> DEFINE r == [boot[b] EXCEPT !.pc = "report", !.watch = "on", !.sup = "on"]
    <2>1. boot[b] \in Boot /\ boot[b].vm \in Vms
      BY <1>5, BusyBoot DEF BootRegister
    <2>2. r \in Boot /\ r.vm = boot[b].vm /\ r.watch = "on" /\ r.sup = "on"
      BY <2>1
    <2>3. BootBecomes(b, r)
      BY <1>5 DEF BootRegister
    <2> HIDE DEF r
    <2> QED
      BY <2>1, <2>2, <2>3, BootBecomesFacts
  <1>6. CASE BootFails(b)
    BY <1>6, BusyBoot, BootBecomesFacts DEF BootFails, BootGoes
  <1>7. CASE BootReports(b)
    <2> DEFINE r == [boot[b] EXCEPT !.pc = "idle",
                            !.post = IF boot[b].vm \in Listed THEN Awaiting ELSE "off"]
    <2>1. boot[b] \in Boot /\ boot[b].vm \in Vms
      BY <1>7, BusyBoot DEF BootReports
    <2>2. /\ r \in Boot /\ r.vm = boot[b].vm /\ r.pc = "idle"
          /\ r.watch = boot[b].watch /\ r.sup = boot[b].sup
      BY <2>1 DEF Awaiting
    <2>3. BootBecomes(b, r)
      BY <1>7 DEF BootReports
    <2> HIDE DEF r
    <2> QED
      BY <2>1, <2>2, <2>3, BootBecomesFacts
  <1> QED
    BY <1>1, <1>2, <1>3, <1>4, <1>5, <1>6, <1>7 DEF BootStep

\* The watcher and the supervisor: they end when the VM is not RUNNING, or by
\* writing ERROR.
LEMMA WatchersMove ==
    ASSUME StatusTypes, BootTypes, NEW b \in Boots, Watch(b) \/ Supervise(b) \/ Post(b)
    PROVE  Moves(b)
  <1> USE DEF Boot, Unused, Moves
  <1>1. CASE WatchTick(b)
    BY <1>1, BusyBoot, BootBecomesFacts DEF WatchTick, WatchGoes, Ticking
  <1>2. CASE WatchDrop(b)
    BY <1>2, BusyBoot, BootBecomesFacts DEF WatchDrop, WatchGoes
  <1>3. CASE WatchRead(b)
    BY <1>3, BusyBoot, BootBecomesFacts DEF WatchRead, WatchGoes
  <1>4. CASE WatchMark(b)
    <2>1. boot[b].vm \in Vms /\ status'[boot[b].vm] # "RUNNING"
      BY <1>4, BusyBoot, WriteFacts DEF WatchMark, Status, Listed
    <2> QED
      BY <1>4, <2>1, BusyBoot, BootBecomesFacts DEF WatchMark, WatchGoes
  <1>5. CASE SupCheck(b)
    BY <1>5, BusyBoot, BootBecomesFacts DEF SupCheck, SupGoes
  <1>6. CASE SupDrop(b)
    BY <1>6, BusyBoot, BootBecomesFacts DEF SupDrop, SupGoes
  <1>7. CASE SupMark(b)
    <2>1. boot[b].vm \in Vms /\ status'[boot[b].vm] # "RUNNING"
      BY <1>7, BusyBoot, WriteFacts DEF SupMark, Status, Listed
    <2> QED
      BY <1>7, <2>1, BusyBoot, BootBecomesFacts DEF SupMark, SupGoes
  <1>8. CASE PostQuit(b)
    BY <1>8, BusyBoot, BootBecomesFacts DEF PostQuit, PostGoes
  <1>9. CASE PostReady(b)
    BY <1>9, BusyBoot, BootBecomesFacts DEF PostReady, PostGoes
  <1>10. CASE PostForward(b)
    BY <1>10, BusyBoot, BootBecomesFacts DEF PostForward, PostGoes
  <1>11. CASE PostListen(b)
    BY <1>11, BusyBoot, BootBecomesFacts DEF PostListen, PostGoes
  <1> QED
    BY <1>1, <1>2, <1>3, <1>4, <1>5, <1>6, <1>7, <1>8, <1>9, <1>10, <1>11
       DEF Watch, Supervise, Post

\* Every other step but a restart: it ends supervisors only, or begins a boot.
LEMMA OthersMove ==
    ASSUME TypeOK, [Next]_vars, ~Restart, NEW b \in Boots
    PROVE  Moves(b)
  <1>0. StatusTypes /\ BootTypes /\ AgentTypes
    BY TypeParts
  <1>1. ASSUME NEW c \in Boots, BootStep(c) \/ Watch(c) \/ Supervise(c) \/ Post(c)
        PROVE  Moves(b)
    <2>1. c # b => boot'[b] = boot[b]
      BY <1>0, <1>1, BootStepFacts, WatchersFacts
    <2> QED
      BY <1>0, <1>1, <2>1, BootStepMoves, WatchersMove, Unmoved
  <1>2. ASSUME NEW c \in Boots, NEW v \in Vms, BootGet(c, v)
        PROVE  Moves(b)
    <2>1. CASE c = b
      <3>1. Free(b) /\ boot[b] = Unused /\ boot'[b].pc = "count"
        BY <1>2, <2>1, <1>0 DEF BootGet, Free, BootTypes, Unused
      <3> QED
        BY <3>1 DEF Moves, Unused
    <2>2. CASE c # b
      BY <1>2, <2>2, <1>0, Unmoved DEF BootGet, BootTypes
    <2> QED
      BY <2>1, <2>2
  <1>3. ASSUME boot'[b] = Unsupervised(b), ~serving' \/ Doomed(b)
        PROVE  Moves(b)
    BY <1>0, <1>3, UnsupervisedFacts DEF Moves, Unused, Boot, BootTypes
  <1>4. ASSUME NEW a \in Agents, StopKill(a)
        PROVE  Moves(b)
    <2>1. CASE b = agent[a].rt
      BY <1>3, <1>4, <2>1 DEF StopKill, Doomed
    <2>2. CASE b # agent[a].rt
      BY <1>4, <2>2, Unmoved DEF StopKill
    <2> QED
      BY <2>1, <2>2
  <1>5. CASE Shutdown
    <2>1. boot'[b] = boot[b] \/ (boot'[b] = Unsupervised(b) /\ ~serving')
      BY <1>5 DEF Shutdown
    <2> QED
      BY <2>1, <1>3, Unmoved
  <1>6. CASE UNCHANGED boot
    BY <1>6, Unmoved
  <1>7. ASSUME NEW a \in Agents,
               StopStep(a) \/ DeleteStep(a) \/ DeleteCancelled(a) \/ ProvisionStep(a)
        PROVE  Moves(b)
    <2>1. StopKill(a) \/ UNCHANGED boot
      BY <1>7 DEF StopStep, DeleteStep, ProvisionStep, StopGet, StopRuntime, StopMark,
                  StopForwards, StopDrop, StopFinal, DeleteMark, DeleteStart, DeleteCancelled,
                  DeleteLibrary, DeleteRow, ReprovisionMark, ReprovisionLaunch, PipelineEnds
    <2> QED
      BY <2>1, <1>4, <1>6
  <1>8. ASSUME NEW a \in Agents, NEW v \in Vms,
               \/ StopBegin(a, v) \/ DeleteBegin(a, v)
               \/ CreateVm(a, v) \/ ReprovisionBegin(a, v)
        PROVE  UNCHANGED boot
    BY <1>8 DEF StopBegin, DeleteBegin, CreateVm, ReprovisionBegin
  <1>9. ASSUME NEW v \in Vms, LauncherEnds(v) \/ ProcessDies(v)
        PROVE  UNCHANGED boot
    BY <1>9 DEF LauncherEnds, ProcessDies
  <1> QED
    BY <1>1, <1>2, <1>5, <1>6, <1>7, <1>8, <1>9 DEF Next, vars

-----------------------------------------------------------------------------
(* How a step changes the references to boots, and the agents              *)

\* m.runtimes: an entry is removed, or a boot registers itself.
LEMMA RuntimesMove ==
    ASSUME TypeOK, [Next]_vars, ~Restart, NEW v \in Vms
    PROVE  \/ runtimes'[v] \in {runtimes[v], NoBoot}
           \/ runtimes'[v] \in Boots /\ BelongsTo(runtimes[v], v)'
  <1>0. BootTypes /\ HostTypes /\ AgentTypes
    BY TypeParts
  <1> USE <1>0 DEF HostTypes
  <1>1. ASSUME NEW b \in Boots, BootRegister(b)
        PROVE  \/ runtimes'[v] = runtimes[v]
               \/ runtimes'[v] \in Boots /\ BelongsTo(runtimes[v], v)'
    <2> DEFINE r == [boot[b] EXCEPT !.pc = "report", !.watch = "on", !.sup = "on"]
    <2>1. boot[b] \in Boot /\ boot[b].vm \in Vms
      BY <1>1, BusyBoot DEF BootRegister
    <2>2. r \in Boot /\ r.vm = boot[b].vm
      BY <2>1 DEF Boot
    <2>3. BootBecomes(b, r) /\ runtimes' = [runtimes EXCEPT ![boot[b].vm] = b]
      BY <1>1 DEF BootRegister
    <2> HIDE DEF r
    <2>4. boot'[b] \in {r, Unused}
      BY <2>1, <2>2, <2>3, BootBecomesFacts
    <2>5. v # boot[b].vm => runtimes'[v] = runtimes[v]
      BY <2>3
    <2>6. v = boot[b].vm => runtimes'[v] = b
      BY <2>1, <2>3
    <2> QED
      BY <2>1, <2>2, <2>4, <2>5, <2>6 DEF BelongsTo
  <1>2. ASSUME NEW w, runtimes' = [runtimes EXCEPT ![w] = NoBoot]
        PROVE  runtimes'[v] \in {runtimes[v], NoBoot}
    BY <1>2
  <1>3. ASSUME NEW b \in Boots, BootStep(b) \/ Watch(b) \/ Supervise(b) \/ Post(b)
        PROVE  BootRegister(b) \/ runtimes'[v] \in {runtimes[v], NoBoot}
    <2>1. BootRegister(b) \/ WatchDrop(b) \/ SupDrop(b) \/ UNCHANGED runtimes
      BY <1>3 DEF BootStep, BootCount, BootMark, BootLaunch, BootPoll, BootFails, BootReports,
                  Watch, WatchTick, WatchRead, WatchMark, Supervise, SupCheck, SupMark,
                  Post, PostQuit, PostReady, PostForward, PostListen
    <2> QED
      BY <2>1, <1>2 DEF WatchDrop, SupDrop
  <1>4. ASSUME NEW a \in Agents,
               StopStep(a) \/ DeleteStep(a) \/ DeleteCancelled(a) \/ ProvisionStep(a)
        PROVE  runtimes'[v] \in {runtimes[v], NoBoot}
    <2>1. StopDrop(a) \/ UNCHANGED runtimes
      BY <1>4 DEF StopStep, DeleteStep, ProvisionStep, StopGet, StopRuntime, StopMark, StopKill,
                  StopForwards, StopFinal, DeleteMark, DeleteStart, DeleteCancelled,
                  DeleteLibrary, DeleteRow, ReprovisionMark, ReprovisionLaunch, PipelineEnds
    <2> QED
      BY <2>1, <1>2 DEF StopDrop
  <1>5. ASSUME NEW a \in Agents, NEW w \in Vms,
               \/ StopBegin(a, w) \/ DeleteBegin(a, w)
               \/ CreateVm(a, w) \/ ReprovisionBegin(a, w)
        PROVE  UNCHANGED runtimes
    BY <1>5 DEF StopBegin, DeleteBegin, CreateVm, ReprovisionBegin
  <1>6. ASSUME NEW b \in Boots, NEW w \in Vms, BootGet(b, w)
        PROVE  UNCHANGED runtimes
    BY <1>6 DEF BootGet
  <1>7. ASSUME NEW w \in Vms, LauncherEnds(w) \/ ProcessDies(w)
        PROVE  UNCHANGED runtimes
    BY <1>7 DEF LauncherEnds, ProcessDies
  <1>8. Shutdown \/ UNCHANGED vars => UNCHANGED runtimes
    BY DEF Shutdown, vars
  <1> QED
    BY <1>1, <1>3, <1>4, <1>5, <1>6, <1>7, <1>8 DEF Next

\* An agent keeps the runtime it has read, for the VM it works for; it is about
\* to kill only when it was so before or has just marked the VM STOPPING.
AgentMoves(a) ==
    /\ \/ agent'[a].rt = NoBoot
       \/ agent'[a].vm = agent[a].vm /\ agent'[a].rt = agent[a].rt
       \/ /\ agent[a].vm \in Vms /\ agent'[a].vm = agent[a].vm
          /\ agent'[a].rt = runtimes[agent[a].vm] /\ UNCHANGED boot
    /\ agent'[a].pc = "stopkill" =>
            /\ agent'[a].vm = agent[a].vm /\ agent'[a].rt = agent[a].rt
            /\ agent[a].pc = "stopkill" \/ status'[agent[a].vm] # "RUNNING"

\* An agent that does not change.
LEMMA AgentUnmoved == ASSUME NEW a \in Agents, agent'[a] = agent[a] PROVE AgentMoves(a)
  BY DEF AgentMoves

\* The agent that steps moves so, and no other moves.
LEMMA AgentStepMoves ==
    ASSUME StatusTypes, AgentTypes, NEW a \in Agents,
           StopStep(a) \/ DeleteStep(a) \/ DeleteCancelled(a) \/ ProvisionStep(a)
    PROVE  AgentMoves(a) /\ \A x \in Agents \ {a} : agent'[x] = agent[x]
  <1> USE DEF AgentPc, AgentMoves
  <1>a. agent[a].pc # "idle" => agent[a] \in Agent /\ agent[a].vm \in Vms
    BY DEF AgentTypes
  <1>b. IdleAgent.rt = NoBoot /\ IdleAgent.pc = "idle"
    BY DEF IdleAgent
  <1>1. CASE StopGet(a)
    BY <1>a, <1>1, AgentGoesFacts DEF StopGet
  <1>2. CASE StopRuntime(a)
    <2> DEFINE r == [agent[a] EXCEPT !.pc = "stopmark", !.rt = runtimes[agent[a].vm]]
    <2>1. /\ r.pc = "stopmark" /\ r.vm = agent[a].vm /\ r.rt = runtimes[agent[a].vm]
      BY <1>2, <1>a DEF StopRuntime, Agent
    <2>2. agent' = [agent EXCEPT ![a] = r] /\ UNCHANGED boot /\ agent[a].pc = "stoprt"
      BY <1>2 DEF StopRuntime, AgentBecomes
    <2> HIDE DEF r
    <2>3. agent'[a] = r /\ \A x \in Agents \ {a} : agent'[x] = agent[x]
      BY <2>2 DEF AgentTypes
    <2> QED
      BY <1>a, <2>1, <2>2, <2>3
  <1>3. CASE StopMark(a)
    <2>1. CASE agent[a].vm \in Listed
      <3>1. status'[agent[a].vm] = "STOPPING"
        BY <1>a, <1>3, <2>1, WriteFacts DEF StopMark, Status
      <3> QED
        BY <1>a, <1>3, <2>1, <3>1, AgentGoesFacts DEF StopMark
    <2>2. CASE agent[a].vm \notin Listed
      BY <1>a, <1>3, <2>2, StopReturnsFacts DEF StopMark
    <2> QED
      BY <2>1, <2>2
  <1>4. CASE StopKill(a)
    BY <1>a, <1>4, AgentGoesFacts DEF StopKill
  <1>5. CASE StopForwards(a) \/ StopDrop(a)
    BY <1>a, <1>5, AgentGoesFacts DEF StopForwards, StopDrop
  <1>6. CASE StopFinal(a)
    BY <1>a, <1>6, StopReturnsFacts DEF StopFinal
  <1>7. CASE DeleteMark(a)
    BY <1>a, <1>b, <1>7, AgentGoesFacts, AgentEndsFacts DEF DeleteMark
  <1>8. CASE DeleteStart(a) \/ DeleteLibrary(a)
    BY <1>a, <1>8, AgentGoesFacts DEF DeleteStart, DeleteLibrary
  <1>9. CASE DeleteCancelled(a) \/ DeleteRow(a)
    BY <1>b, <1>9, AgentEndsFacts DEF DeleteCancelled, DeleteRow
  <1>10. CASE ReprovisionMark(a)
    BY <1>a, <1>b, <1>10, AgentGoesFacts, AgentEndsFacts DEF ReprovisionMark
  <1>11. CASE ReprovisionLaunch(a)
    BY <1>a, <1>b, <1>11, AgentGoesFacts, AgentEndsFacts DEF ReprovisionLaunch
  <1>12. CASE PipelineEnds(a)
    BY <1>b, <1>12, AgentEndsFacts DEF PipelineEnds
  <1> QED
    BY <1>1, <1>2, <1>3, <1>4, <1>5, <1>6, <1>7, <1>8, <1>9, <1>10, <1>11, <1>12
       DEF StopStep, DeleteStep, ProvisionStep

\* Every agent moves so, whoever steps but a restart.
LEMMA AgentsMove ==
    ASSUME TypeOK, [Next]_vars, ~Restart, NEW a \in Agents
    PROVE  AgentMoves(a)
  <1>0. StatusTypes /\ BootTypes /\ AgentTypes
    BY TypeParts
  <1>1. ASSUME NEW x \in Agents,
               StopStep(x) \/ DeleteStep(x) \/ DeleteCancelled(x) \/ ProvisionStep(x)
        PROVE  AgentMoves(a)
    BY <1>0, <1>1, AgentStepMoves, AgentUnmoved
  <1>2. ASSUME NEW x \in Agents, NEW v \in Vms, NEW op \in {"stop", "delete", "provision"},
               NEW to \in AgentPc \ {"stopkill"}, AgentBegins(x, op, to, v)
        PROVE  AgentMoves(a)
    <2>1. agent'[x].rt = NoBoot /\ agent'[x].pc # "stopkill"
      BY <1>0, <1>2, AgentBeginsFacts
    <2>2. x # a => agent'[a] = agent[a]
      BY <1>0, <1>2, AgentBeginsFacts
    <2>3. CASE x = a
      BY <2>1, <2>3 DEF AgentMoves
    <2> QED
      BY <2>2, <2>3, AgentUnmoved
  <1>3. ASSUME NEW x \in Agents, NEW v \in Vms,
               \/ StopBegin(x, v) \/ DeleteBegin(x, v)
               \/ CreateVm(x, v) \/ ReprovisionBegin(x, v)
        PROVE  AgentMoves(a)
    BY <1>2, <1>3 DEF StopBegin, DeleteBegin, CreateVm, ReprovisionBegin, AgentPc
  <1>4. CASE UNCHANGED agent
    BY <1>4, AgentUnmoved
  <1>5. ASSUME NEW b \in Boots, BootStep(b) \/ Watch(b) \/ Supervise(b) \/ Post(b)
        PROVE  UNCHANGED agent
    BY <1>0, <1>5, BootStepFacts, WatchersFacts
  <1>6. ASSUME NEW b \in Boots, NEW v \in Vms, BootGet(b, v)
        PROVE  UNCHANGED agent
    BY <1>6 DEF BootGet
  <1>7. ASSUME NEW v \in Vms, LauncherEnds(v) \/ ProcessDies(v)
        PROVE  UNCHANGED agent
    BY <1>7 DEF LauncherEnds, ProcessDies
  <1>8. Shutdown \/ UNCHANGED vars => UNCHANGED agent
    BY DEF Shutdown, vars
  <1> QED
    BY <1>1, <1>3, <1>4, <1>5, <1>6, <1>7, <1>8 DEF Next

-----------------------------------------------------------------------------
(* The invariant                                                           *)

\* Only the report of a boot shows a VM RUNNING that was not, until a restart.
LEMMA RunningBegins ==
    ASSUME TypeOK, [Next]_vars, ~Restart,
           NEW v \in Vms, status[v] # "RUNNING", status'[v] = "RUNNING"
    PROVE  \E b \in Boots : /\ boot[b].pc = "report" /\ boot[b].vm = v
                            /\ boot'[b].watch = boot[b].watch
                            /\ boot'[b] = Unused \/ boot'[b].vm = v
  <1>0. StatusTypes /\ BootTypes /\ AgentTypes
    BY TypeParts
  <1>1. ASSUME NEW w \in Vms, NEW s \in (Status \cup {"new", "gone"}) \ {"RUNNING"}, Write(w, s)
        PROVE  FALSE
    BY <1>0, <1>1, WriteFacts
  <1>2. UNCHANGED status => FALSE
    OBVIOUS
  <1>3. ASSUME NEW b \in Boots, BootStep(b)
        PROVE  BootReports(b) /\ boot[b].vm = v
    <2>1. boot[b].vm \in Vms
      BY <1>0, <1>3, BootStepFacts
    <2>2. BootReports(b)
      BY <1>1, <1>2, <1>3, <2>1 DEF BootStep, BootCount, BootMark, BootLaunch, BootPoll,
                                    BootRegister, BootFails, Status
    <2> QED
      BY <1>0, <2>1, <2>2, WriteFacts DEF BootReports, Status
  <1>4. ASSUME NEW b \in Boots, BootReports(b), boot[b].vm = v
        PROVE  /\ boot[b].pc = "report"
               /\ boot'[b].watch = boot[b].watch
               /\ boot'[b] = Unused \/ boot'[b].vm = v
    <2> DEFINE r == [boot[b] EXCEPT !.pc = "idle",
                            !.post = IF boot[b].vm \in Listed THEN Awaiting ELSE "off"]
    <2>1. boot[b].pc = "report" /\ BootBecomes(b, r)
      BY <1>4 DEF BootReports
    <2>2. boot[b] \in Boot /\ boot[b].vm \in Vms
      BY <1>0, <2>1, BusyBoot
    <2>3. r \in Boot /\ r.vm = v /\ r.watch = boot[b].watch
      BY <1>4, <2>2 DEF Awaiting, Boot
    <2> HIDE DEF r
    <2> QED
      BY <1>0, <2>1, <2>3, BootBecomesFacts
  <1>5. ASSUME NEW b \in Boots, Watch(b) \/ Supervise(b) \/ Post(b)
        PROVE  FALSE
    BY <1>0, <1>5, WatchersFacts
  <1>6. ASSUME NEW a \in Agents,
               StopStep(a) \/ DeleteStep(a) \/ DeleteCancelled(a) \/ ProvisionStep(a)
        PROVE  FALSE
    <2>1. agent[a].vm \in Vms
      BY <1>0, <1>6, AgentStepFacts
    <2> QED
      BY <1>1, <1>2, <1>6, <2>1
         DEF StopStep, DeleteStep, ProvisionStep, StopGet, StopRuntime, StopMark, StopKill,
             StopForwards, StopDrop, StopFinal, DeleteMark, DeleteStart, DeleteCancelled,
             DeleteLibrary, DeleteRow, ReprovisionMark, ReprovisionLaunch, PipelineEnds, Status
  <1> QED
    BY <1>0, <1>3, <1>4, <1>5, <1>6, OtherFacts DEF Next

\* Only a restart brings the server back.
LEMMA ServingEnds == ASSUME [Next]_vars, ~Restart, serving' PROVE serving
  <1>1. ASSUME NEW b \in Boots, BootStep(b)
        PROVE  UNCHANGED serving
    BY <1>1 DEF BootStep, BootCount, BootMark, BootLaunch, BootPoll, BootRegister, BootFails, BootReports
  <1>2. ASSUME NEW b \in Boots, Watch(b) \/ Supervise(b) \/ Post(b)
        PROVE  UNCHANGED serving
    BY <1>2 DEF Watch, WatchTick, WatchDrop, WatchRead, WatchMark, Supervise, SupCheck, SupDrop,
                SupMark, Post, PostQuit, PostReady, PostForward, PostListen
  <1>3. ASSUME NEW a \in Agents, StopStep(a)
        PROVE  UNCHANGED serving
    BY <1>3 DEF StopStep, StopGet, StopRuntime, StopMark, StopKill, StopForwards, StopDrop, StopFinal
  <1>4. ASSUME NEW a \in Agents, DeleteStep(a) \/ DeleteCancelled(a) \/ ProvisionStep(a)
        PROVE  UNCHANGED serving
    BY <1>4 DEF DeleteStep, DeleteMark, DeleteStart, DeleteCancelled, DeleteLibrary, DeleteRow,
                ProvisionStep, ReprovisionMark, ReprovisionLaunch, PipelineEnds
  <1>5. ASSUME NEW a \in Agents, NEW v \in Vms,
               \/ StopBegin(a, v) \/ DeleteBegin(a, v)
               \/ CreateVm(a, v) \/ ReprovisionBegin(a, v)
        PROVE  serving
    BY <1>5 DEF StopBegin, DeleteBegin, CreateVm, ReprovisionBegin
  <1>6. ASSUME NEW b \in Boots, NEW v \in Vms, BootGet(b, v)
        PROVE  serving
    BY <1>6 DEF BootGet
  <1>7. ASSUME NEW v \in Vms, LauncherEnds(v) \/ ProcessDies(v)
        PROVE  UNCHANGED serving
    BY <1>7 DEF LauncherEnds, ProcessDies
  <1>8. Shutdown \/ UNCHANGED vars => serving
    BY DEF Shutdown, vars
  <1> QED
    BY <1>1, <1>2, <1>3, <1>4, <1>5, <1>6, <1>7, <1>8 DEF Next

\* While the process runs.
LEMMA SupervisedStep ==
    ASSUME TypeOK, TypeOK', Supervised, [Next]_vars, ~Restart
    PROVE  Supervised'
  <1>0. BootTypes' /\ HostTypes
    BY TypeParts DEF TypeOK, BootTypes
  <1>1. ASSUME NEW b \in Boots PROVE Moves(b)
    BY OthersMove
  <1>2. ASSUME NEW b \in Boots, NEW v, BelongsTo(b, v), ~Free(b)
        PROVE  BelongsTo(b, v)'
    <2>1. boot'[b].vm = boot[b].vm \/ boot'[b] = Unused
      BY <1>1, <1>2 DEF Moves
    <2>2. boot[b] = Unused => boot[b].vm = NoVm
      BY DEF Unused
    <2>3. boot'[b].vm = NoVm => boot'[b] = Unused
      BY <1>0, NamesAssumption DEF BootTypes
    <2> QED
      BY <1>2, <2>1, <2>2, <2>3 DEF BelongsTo
  <1>3. RuntimesKnown'
    <2> SUFFICES ASSUME NEW v \in Vms, runtimes'[v] \in Boots
                 PROVE  BelongsTo(runtimes[v], v)'
      BY DEF RuntimesKnown
    <2>1. CASE runtimes'[v] = runtimes[v]
      <3>1. BelongsTo(runtimes[v], v) /\ ~Free(runtimes[v])
        BY <2>1 DEF Supervised, RuntimesKnown, Free
      <3>2. \A b \in Boots : b = runtimes[v] => BelongsTo(b, v)'
        BY <3>1, <1>2
      <3> QED
        BY <2>1, <3>2 DEF BelongsTo
    <2> QED
      BY <2>1, RuntimesMove, NamesAssumption
  <1>4. StopsKnow'
    <2> SUFFICES ASSUME NEW a \in Agents, agent'[a].rt \in Boots
                 PROVE  BelongsTo(agent[a].rt, agent[a].vm)'
      BY DEF StopsKnow
    <2>1. CASE agent'[a].vm = agent[a].vm /\ agent'[a].rt = agent[a].rt
      <3>1. BelongsTo(agent[a].rt, agent[a].vm) /\ ~Free(agent[a].rt)
        BY <2>1 DEF Supervised, StopsKnow, Free
      <3>2. \A b \in Boots : b = agent[a].rt => boot'[b] = Unused \/ boot'[b].vm = agent[a].vm
        BY <3>1, <1>2 DEF BelongsTo
      <3> QED
        BY <2>1, <3>2 DEF BelongsTo
    <2>2. CASE /\ agent[a].vm \in Vms /\ agent'[a].vm = agent[a].vm
               /\ agent'[a].rt = runtimes[agent[a].vm] /\ UNCHANGED boot
      BY <2>2 DEF Supervised, RuntimesKnown, BelongsTo
    <2> QED
      BY <2>1, <2>2, AgentsMove, NamesAssumption DEF AgentMoves
  <1>5. \A b \in Boots : boot[b].pc = "report" => boot[b].watch = "on"
    BY DEF Supervised, ReportsWatched
  <1>6. ReportsWatched'
    BY <1>1, <1>5 DEF Moves, ReportsWatched
  <1>7. ASSUME serving', NEW v \in Vms, status'[v] = "RUNNING"
        PROVE  \E b \in Boots : boot'[b].vm = v /\ Guards(b)'
    <2>1. CASE status[v] # "RUNNING"
      <3>1. PICK b \in Boots : /\ boot[b].pc = "report" /\ boot[b].vm = v
                               /\ boot'[b].watch = boot[b].watch
                               /\ boot'[b] = Unused \/ boot'[b].vm = v
        BY <1>7, <2>1, RunningBegins
      <3>2. boot[b].watch = "on"
        BY <1>5, <3>1
      <3>3. boot'[b].vm = v
        BY <3>1, <3>2 DEF Unused
      <3> QED
        BY <3>1, <3>2, <3>3 DEF Guards
    <2>2. CASE status[v] = "RUNNING"
      <3>1. serving
        BY <1>7, ServingEnds
      <3>2. PICK b \in Boots : boot[b].vm = v /\ Guards(b)
        BY <2>2, <3>1 DEF Supervised, Guarded
      <3>3. boot[b].watch # "off" \/ boot[b].sup # "off"
        BY <3>2 DEF Guards
      <3>4. boot[b] # Unused
        BY <3>3 DEF Unused
      <3>5. boot[b].watch # "off" => boot'[b].watch # "off"
        BY <1>1, <1>7, <3>2 DEF Moves
      <3>6. boot[b].sup # "off" /\ ~Doomed(b) => boot'[b].sup # "off"
        BY <1>1, <1>7, <3>2 DEF Moves
      <3>7. boot'[b].vm = v
        <4>1. boot'[b] # Unused
          BY <3>2, <3>5, <3>6 DEF Unused, Guards
        <4> QED
          BY <1>1, <3>2, <3>4, <4>1 DEF Moves, Free
      <3>8. ~Doomed(b) => ~Doomed(b)'
        <4> SUFFICES ASSUME NEW a \in Agents, agent'[a].pc = "stopkill", agent'[a].rt = b
                     PROVE  Doomed(b)
          BY DEF Doomed
        <4>1. /\ agent[a].rt = b
              /\ agent[a].pc = "stopkill" \/ status'[agent[a].vm] # "RUNNING"
          BY AgentsMove DEF AgentMoves
        <4>2. agent[a].vm = v
          BY <3>2, <3>4, <4>1 DEF Supervised, StopsKnow, BelongsTo
        <4> QED
          BY <1>7, <4>1, <4>2 DEF Doomed
      <3> QED
        BY <3>2, <3>5, <3>6, <3>7, <3>8 DEF Guards
    <2> QED
      BY <2>1, <2>2
  <1> QED
    BY <1>3, <1>4, <1>6, <1>7 DEF Supervised, Guarded

\* At the start of a process: reconcile shows a VM RUNNING only with a boot of
\* its own, which has a supervisor that nobody is about to end.
LEMMA SupervisedRestart ==
    ASSUME StatusTypes, Restart
    PROVE  Supervised'
  <1>1. PICK found \in SUBSET (Stale \cap alive), r \in [Vms -> Boots \cup {NoBoot}] :
            /\ \A v \in Vms : v \in found <=> r[v] # NoBoot
            /\ \A v, w \in found : v # w => r[v] # r[w]
            /\ runtimes' = r
            /\ status' = [v \in Vms |-> Reconciled(v, found)]
            /\ boot' = [b \in Boots |-> IF \E v \in found : r[v] = b
                                     THEN Reconnected(CHOOSE v \in found : r[v] = b)
                                     ELSE Unused]
    BY DEF Restart
  <1>2. agent' = [a \in Agents |-> IdleAgent] /\ IdleAgent.rt = NoBoot /\ IdleAgent.pc = "idle"
    BY DEF Restart, IdleAgent
  <1>3. \A v \in Vms : /\ Reconnected(v).vm = v /\ Reconnected(v).sup = "on"
                       /\ Reconnected(v).pc = "idle"
    BY DEF Reconnected, Unused
  <1>4. found \subseteq Vms
    BY DEF Stale
  <1>5. ASSUME NEW v \in found PROVE r[v] \in Boots /\ boot'[r[v]] = Reconnected(v)
    <2>1. v \in Vms /\ r[v] # NoBoot /\ r[v] \in Boots
      BY <1>1, <1>4
    <2>2. (CHOOSE w \in found : r[w] = r[v]) = v
      BY <1>1
    <2> QED
      BY <1>1, <2>1, <2>2
  <1>6. RuntimesKnown'
    <2> SUFFICES ASSUME NEW v \in Vms, r[v] \in Boots PROVE BelongsTo(runtimes[v], v)'
      BY <1>1 DEF RuntimesKnown
    <2>1. v \in found
      BY <1>1, NamesAssumption
    <2> QED
      BY <1>1, <1>3, <1>5, <2>1 DEF BelongsTo
  <1>7. StopsKnow'
    BY <1>2, NamesAssumption DEF StopsKnow
  <1>8. ReportsWatched'
    <2> SUFFICES ASSUME NEW b \in Boots PROVE boot'[b].pc = "idle"
      BY DEF ReportsWatched
    <2>1. CASE \E v \in found : r[v] = b
      BY <1>3, <1>4, <1>5, <2>1
    <2>2. CASE ~\E v \in found : r[v] = b
      BY <1>1, <2>2 DEF Unused
    <2> QED
      BY <2>1, <2>2
  <1>9. ASSUME NEW v \in Vms, status'[v] = "RUNNING"
        PROVE  \E b \in Boots : boot'[b].vm = v /\ Guards(b)'
    <2>1. v \in found
      BY <1>1, <1>9 DEF Reconciled, Stale
    <2>2. boot'[r[v]].vm = v /\ boot'[r[v]].sup = "on"
      BY <1>3, <1>4, <1>5, <2>1
    <2>3. ~Doomed(r[v])'
      BY <1>2 DEF Doomed
    <2>4. r[v] \in Boots
      BY <1>5, <2>1
    <2>5. \A b \in Boots : b = r[v] => Guards(b)'
      BY <1>2, <2>2 DEF Guards, Doomed
    <2> QED
      BY <2>2, <2>4, <2>5
  <1> QED
    BY <1>6, <1>7, <1>8, <1>9 DEF Supervised, Guarded

\* No VM is RUNNING.
LEMMA SupervisedInit == Init => Supervised
  BY NamesAssumption DEF Init, Supervised, RuntimesKnown, StopsKnow, ReportsWatched, Guarded,
     Unused, IdleAgent

\* While the server serves, a VM shown RUNNING has a goroutine that will notice
\* the end of its process (RunningIsWatched), whatever boots, stops, supervisors
\* and restarts overlap.
THEOREM RunningIsSupervised == Spec => []RunningIsWatched
  <1>1. TypeOK /\ Supervised /\ [Next]_vars => Supervised'
    BY TypeNext, TypeParts, SupervisedStep, SupervisedRestart
  <1>2. Supervised => RunningIsWatched
    BY DEF Supervised, Guarded, Guards, RunningIsWatched
  <1> QED
    BY <1>1, <1>2, SupervisedInit, TypeCorrect, PTL DEF Spec
=============================================================================
