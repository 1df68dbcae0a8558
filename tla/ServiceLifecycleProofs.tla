-------------------------- MODULE ServiceLifecycleProofs -----------------------
(***************************************************************************)
(* Proofs about ServiceLifecycle.tla for any number of lives, saves and    *)
(* tries, and any set of versions of the rule section.                     *)
(***************************************************************************)
EXTENDS ServiceLifecycle, TLAPS

(* The parts of the type invariant: of the file, the segments and the processes. *)
FileTypes == file \in File /\ saves \in 0 .. MaxSaves

SegmentTypes ==
  /\ lives \in 0 .. MaxLives
  /\ shm_name \in 0 .. lives /\ mon_seg \in 0 .. lives /\ web_seg \in 0 .. lives
  /\ sized \subseteq 1 .. lives /\ orphans \subseteq 1 .. lives
  /\ mon_pc = "size" => mon_seg # 0

ProcessTypes ==
  /\ mon_pc \in {"off", "config", "unlink", "create", "size", "setup", "running",
                 "ending", "zombie"}
  /\ stop_asked \in BOOLEAN
  /\ DOMAIN mon_rule = {"roi", "dwell_time_ms", "cooldown_ms"}
  /\ web_pc \in WebIsGone \cup {"wait", "config", "open", "listen", "serve"}
  /\ tries \in 0 .. MaxTries - 1

LEMMA FilesTyped ==
  ASSUME FileTypes, [Next]_vars
  PROVE  FileTypes'
<1>1. CASE SaveBegins
  <2>1. saves' = saves + 1 /\ saves < MaxSaves /\ file' \in File
    BY <1>1 DEF SaveBegins
  <2> QED
    BY <2>1, LifecycleAssumption DEF FileTypes
<1>2. CASE SaveEnds
  <2>1. file' = [version |-> file.version, written |-> Closed] /\ saves' = saves
    BY <1>2 DEF SaveEnds, File, FileTypes
  <2>2. file' \in File
    BY <2>1 DEF File, Closed, Keys, FileTypes
  <2> QED
    BY <2>1, <2>2 DEF FileTypes
<1>3. CASE Monitor \/ AskStop \/ Kill \/ StartWeb \/ Web \/ WebFault \/ StopWeb \/ UNCHANGED vars
  <2>1. file' = file /\ saves' = saves
    BY <1>3 DEF Monitor, StartMonitor, MonConfigFails, MonConfig, MonUnlink, MonCreate, MonSize,
       MonSetup, MonStop, MonExit, AskStop, Kill, StartWeb, Web, WebReady, WebRetry, WebConfig,
       WebOpen, WebListen, WebFault, StopWeb, monOnly, webOnly, fileVars, vars
  <2> QED
    BY <2>1 DEF FileTypes
<1> QED
  BY <1>1, <1>2, <1>3 DEF Next

\* A segment that exists goes on existing when one more is created.
LEMMA SegmentsTyped ==
  ASSUME SegmentTypes, [Next]_vars
  PROVE  SegmentTypes'
<1>1. lives \in Nat /\ MaxLives \in Nat
  BY LifecycleAssumption DEF SegmentTypes
<1>2. CASE SaveBegins \/ SaveEnds \/ StartMonitor \/ MonConfig \/ StartWeb \/ WebReady
           \/ UNCHANGED vars
  <2>1. UNCHANGED <<lives, shm_name, mon_seg, web_seg, sized, orphans>>
        /\ (mon_pc' = mon_pc \/ mon_pc' \in {"config", "unlink"})
    BY <1>2 DEF SaveBegins, SaveEnds, StartMonitor, MonConfig, StartWeb, WebReady, vars,
                shmVars, monVars, webVars, monOnly, webOnly
  <2> QED
    BY <2>1 DEF SegmentTypes
<1>3. CASE MonConfigFails \/ MonExit \/ AskStop
  <2>1. /\ UNCHANGED <<lives, shm_name, web_seg, sized, orphans>>
        /\ (mon_seg' = mon_seg /\ mon_pc' = mon_pc) \/ (mon_seg' = 0 /\ mon_pc' = "off")
    BY <1>3 DEF MonConfigFails, MonExit, AskStop, MonGone, shmVars, webVars, monOnly
  <2> QED
    BY <1>1, <2>1 DEF SegmentTypes
<1>4. CASE Kill
  <2>1. /\ UNCHANGED <<lives, shm_name, web_seg, sized>> /\ mon_seg' = 0 /\ mon_pc' = "off"
        /\ orphans' = orphans \/ (mon_seg # 0 /\ orphans' = orphans \cup {mon_seg})
    BY <1>4 DEF Kill, MonGone, webVars, monOnly
  <2>2. mon_seg # 0 => mon_seg \in 1 .. lives
    BY <1>1 DEF SegmentTypes
  <2>3. orphans' \subseteq 1 .. lives
    BY <2>1, <2>2 DEF SegmentTypes
  <2> QED
    BY <1>1, <2>1, <2>3 DEF SegmentTypes
<1>5. CASE MonUnlink \/ MonSetup \/ MonStop
  <2>1. /\ UNCHANGED <<lives, mon_seg, web_seg, sized, orphans>>
        /\ shm_name' \in {0, shm_name} /\ mon_pc' # "size"
    BY <1>5 DEF MonUnlink, MonSetup, MonStop, webVars, monOnly
  <2> QED
    BY <1>1, <2>1 DEF SegmentTypes
<1>6. CASE MonCreate
  <2>1. UNCHANGED <<web_seg, sized, orphans>>
    BY <1>6 DEF MonCreate, webVars, monOnly
  <2>2. CASE lives < MaxLives /\ lives' = lives + 1 /\ shm_name' = lives' /\ mon_seg' = lives'
    <3>1. /\ lives' \in 0 .. MaxLives /\ lives' # 0
          /\ shm_name' \in 0 .. lives' /\ mon_seg' \in 0 .. lives'
      BY <1>1, <2>2
    <3>2. 0 .. lives \subseteq 0 .. lives' /\ 1 .. lives \subseteq 1 .. lives'
      BY <1>1, <2>2
    <3>3. /\ web_seg' \in 0 .. lives' /\ sized' \subseteq 1 .. lives'
          /\ orphans' \subseteq 1 .. lives'
      BY <2>1, <3>2 DEF SegmentTypes
    <3> QED
      BY <2>2, <3>1, <3>3 DEF SegmentTypes
  <2>3. CASE mon_pc' = "zombie" /\ UNCHANGED <<shm_name, lives, mon_seg>>
    BY <2>1, <2>3 DEF SegmentTypes
  <2> QED
    BY <1>6, <2>2, <2>3 DEF MonCreate
<1>7. CASE MonSize
  <2>1. /\ UNCHANGED <<lives, mon_seg, web_seg, orphans>> /\ mon_pc' # "size"
        /\ mon_pc = "size" /\ shm_name' \in {0, shm_name}
        /\ sized' = sized \/ sized' = sized \cup {mon_seg}
    BY <1>7 DEF MonSize, webVars, monOnly
  <2>2. mon_seg \in 1 .. lives
    BY <1>1, <2>1 DEF SegmentTypes
  <2>3. sized' \subseteq 1 .. lives
    BY <2>1, <2>2 DEF SegmentTypes
  <2> QED
    BY <1>1, <2>1, <2>3 DEF SegmentTypes
<1>8. CASE WebRetry \/ WebConfig \/ WebOpen \/ WebListen \/ WebFault \/ StopWeb
  <2>1. /\ UNCHANGED <<lives, shm_name, mon_seg, mon_pc, sized, orphans>>
        /\ web_seg' \in {0, web_seg, shm_name}
    BY <1>8 DEF WebRetry, WebConfig, WebOpen, WebListen, WebFault, StopWeb, WebGone, webOnly,
                shmVars, monVars
  <2> QED
    BY <1>1, <2>1 DEF SegmentTypes
<1> QED
  BY <1>2, <1>3, <1>4, <1>5, <1>6, <1>7, <1>8 DEF Next, Monitor, Web

LEMMA ProcessesTyped ==
  ASSUME ProcessTypes, [Next]_vars
  PROVE  ProcessTypes'
<1>1. DOMAIN NoRule = {"roi", "dwell_time_ms", "cooldown_ms"}
  BY DEF NoRule
<1>2. \A f : DOMAIN LoadedRule(f) = {"roi", "dwell_time_ms", "cooldown_ms"}
  BY DEF LoadedRule
<1>3. MaxTries \in Nat \ {0} /\ 0 \in 0 .. MaxTries - 1
  BY LifecycleAssumption
<1>4. CASE SaveBegins \/ SaveEnds \/ UNCHANGED vars
  <2>1. UNCHANGED <<mon_pc, stop_asked, mon_rule, web_pc, tries>>
    BY <1>4 DEF SaveBegins, SaveEnds, vars, monVars, webVars
  <2> QED
    BY <2>1 DEF ProcessTypes
<1>5. CASE Monitor \/ AskStop \/ Kill
  <2>1. web_pc' = web_pc /\ tries' = tries
    BY <1>5 DEF Monitor, StartMonitor, MonConfigFails, MonConfig, MonUnlink, MonCreate, MonSize,
       MonSetup, MonStop, MonExit, AskStop, Kill, monOnly, webVars
  <2>2. /\ mon_rule' \in {mon_rule, NoRule, LoadedRule(file)}
        /\ stop_asked' \in {stop_asked, TRUE, FALSE}
        /\ mon_pc' \in {mon_pc, "off", "config", "unlink", "create", "size", "setup",
                        "running", "ending", "zombie"}
    BY <1>5 DEF Monitor, StartMonitor, MonConfigFails, MonConfig, MonUnlink, MonCreate, MonSize,
       MonSetup, MonStop, MonExit, AskStop, Kill, MonGone
  <2>3. DOMAIN mon_rule' = {"roi", "dwell_time_ms", "cooldown_ms"}
    BY <1>1, <1>2, <2>2 DEF ProcessTypes
  <2> QED
    BY <2>1, <2>2, <2>3 DEF ProcessTypes
<1>6. CASE StartWeb \/ Web \/ WebFault \/ StopWeb
  <2>1. UNCHANGED <<mon_pc, stop_asked, mon_rule>>
    BY <1>6 DEF StartWeb, Web, WebReady, WebRetry, WebConfig, WebOpen, WebListen, WebFault, StopWeb,
                webOnly, monVars
  <2>2. /\ web_pc' \in WebIsGone \cup {web_pc, "wait", "config", "open", "listen", "serve"}
        /\ tries' = tries \/ tries' = 0 \/ (tries + 1 < MaxTries /\ tries' = tries + 1)
    BY <1>6 DEF StartWeb, Web, WebReady, WebRetry, WebConfig, WebOpen, WebListen, WebFault, StopWeb, WebGone,
       WebIsGone
  <2>3. tries' \in 0 .. MaxTries - 1
    BY <1>3, <2>2 DEF ProcessTypes
  <2> QED
    BY <2>1, <2>2, <2>3 DEF ProcessTypes
<1> QED
  BY <1>4, <1>5, <1>6 DEF Next

(* Type correctness: no process refers to a segment that was never created, and the
   loop of run_web.sh does not go on after its last round. *)
THEOREM TypeCorrect == FairSpec => []TypeOK
<1> DEFINE Inv == FileTypes /\ SegmentTypes /\ ProcessTypes
<1>1. Init => Inv
  <2> SUFFICES ASSUME Init PROVE Inv
    OBVIOUS
  <2>1. FileTypes
    BY LifecycleAssumption DEF Init, FileTypes
  <2>2. SegmentTypes
    <3>1. lives = 0 /\ shm_name = 0 /\ mon_seg = 0 /\ web_seg = 0 /\ sized = {} /\ orphans = {}
          /\ mon_pc = "off"
      BY DEF Init
    <3> QED
      BY <3>1, LifecycleAssumption DEF SegmentTypes
  <2>3. ProcessTypes
    <3>1. DOMAIN NoRule = {"roi", "dwell_time_ms", "cooldown_ms"} /\ 0 \in 0 .. MaxTries - 1
      BY LifecycleAssumption DEF NoRule
    <3> QED
      BY <3>1 DEF Init, ProcessTypes, WebIsGone
  <2> QED
    BY <2>1, <2>2, <2>3
<1>2. Inv /\ [Next]_vars => Inv'
  BY FilesTyped, SegmentsTyped, ProcessesTyped
<1>3. Inv => TypeOK
  <2>1. ToSet(Keys) = {"roi", "dwell_time_ms", "cooldown_ms"}
    <3>1. DOMAIN Keys = {1, 2, 3}
      BY DEF Keys
    <3> QED
      BY <3>1 DEF ToSet, Keys
  <2> QED
    BY <2>1 DEF TypeOK, FileTypes, SegmentTypes, ProcessTypes
<1> QED
  BY <1>1, <1>2, <1>3, PTL DEF FairSpec
--------------------------------------------------------------------------------
(* The segment's name stands for the segment of a live pipeline, or for the
   orphan of one that was killed and not started again. *)
THEOREM NameIsHonest == FairSpec => []NameMeansPipeline
<1>1. Init => NameMeansPipeline
  BY DEF Init, NameMeansPipeline
<1>2. NameMeansPipeline /\ [Next]_vars => NameMeansPipeline'
  <2> SUFFICES ASSUME NameMeansPipeline, [Next]_vars PROVE NameMeansPipeline'
    OBVIOUS
  <2> USE DEF NameMeansPipeline, shmVars, monVars
  <2>1. CASE SaveBegins
    BY <2>1 DEF SaveBegins
  <2>2. CASE SaveEnds
    BY <2>2 DEF SaveEnds
  <2>3. CASE StartMonitor
    BY <2>3 DEF StartMonitor
  <2>4. CASE MonConfigFails
    BY <2>4 DEF MonConfigFails, MonGone
  <2>5. CASE MonConfig
    BY <2>5 DEF MonConfig
  <2>6. CASE MonUnlink
    BY <2>6 DEF MonUnlink
  <2>7. CASE MonCreate
    BY <2>7 DEF MonCreate
  <2>8. CASE MonSize
    BY <2>8 DEF MonSize
  <2>9. CASE MonSetup
    BY <2>9 DEF MonSetup
  <2>10. CASE MonStop
    BY <2>10 DEF MonStop
  <2>11. CASE MonExit
    BY <2>11 DEF MonExit, MonGone
  <2>12. CASE AskStop
    BY <2>12 DEF AskStop, MonGone
  <2>13. CASE Kill
    \* The segment of a pipeline killed after it created one becomes an orphan.
    <3>1. UNCHANGED shm_name /\ mon_pc' = "off"
      BY <2>13 DEF Kill, MonGone
    <3>2. CASE shm_name # 0 /\ mon_seg = shm_name
      BY <2>13, <3>1, <3>2 DEF Kill
    <3>3. CASE shm_name # 0 /\ mon_seg # shm_name
      BY <2>13, <3>1, <3>3 DEF Kill
    <3> QED
      BY <3>1, <3>2, <3>3
  <2>14. CASE StartWeb \/ Web \/ WebFault \/ StopWeb
    BY <2>14 DEF StartWeb, Web, WebReady, WebRetry, WebConfig, WebOpen, WebListen, WebFault,
                 StopWeb, webOnly
  <2>15. CASE UNCHANGED vars
    BY <2>15 DEF vars
  <2> QED
    BY <2>1, <2>2, <2>3, <2>4, <2>5, <2>6, <2>7, <2>8, <2>9, <2>10, <2>11, <2>12,
       <2>13, <2>14, <2>15 DEF Next, Monitor
<1> QED
  BY <1>1, <1>2, PTL DEF FairSpec
--------------------------------------------------------------------------------
(* Whatever a process finds while the file is being saved, it loads the rule of
   a file that is complete, or of one in which the section is not there yet. *)
LEMMA LoadedIsWhole ==
  ASSUME NEW f \in File
  PROVE  LoadedRule(f) \in WholeRules
<1>1. CASE f.written = Closed
  BY <1>1 DEF WholeRules
<1>2. CASE f.written # Closed
  <2> DEFINE empty == [version |-> f.version, written |-> 0]
  <2>1. 0 # Closed /\ 0 \in -1 .. Closed
    BY DEF Closed, Keys
  <2>2. empty \in File
    BY <2>1 DEF File
  <2>3. Section(f) = EmptySection /\ Section(empty) = EmptySection
    BY <1>2, <2>1 DEF Section
  <2>4. LoadedRule(f) = LoadedRule(empty)
    BY <2>3 DEF LoadedRule
  <2> HIDE DEF empty
  <2>5. empty.written = 0
    BY DEF empty
  <2> QED
    BY <2>2, <2>4, <2>5 DEF WholeRules
<1> QED
  BY <1>1, <1>2

(* No process ever runs with a part of a rule section. *)
THEOREM RuleNeverMixed == FairSpec => []RuleOfOneVersion
<1> DEFINE Inv == file \in File /\ RuleOfOneVersion
<1>1. Init => Inv
  BY DEF Init, RuleOfOneVersion
<1>2. Inv /\ [Next]_vars => Inv'
  <2> SUFFICES ASSUME Inv, [Next]_vars PROVE Inv'
    OBVIOUS
  <2>0. LoadedRule(file) \in WholeRules
    BY LoadedIsWhole
  <2> USE DEF RuleOfOneVersion, fileVars, monVars, webVars
  <2>1. CASE SaveBegins
    BY <2>1 DEF SaveBegins
  <2>2. CASE SaveEnds
    <3>1. file' = [version |-> file.version, written |-> Closed]
      BY <2>2 DEF SaveEnds, File
    <3>2. file' \in File
      BY <3>1 DEF File, Closed, Keys
    <3> QED
      BY <2>2, <3>2 DEF SaveEnds
  <2>3. CASE StartMonitor
    BY <2>3 DEF StartMonitor, monOnly
  <2>4. CASE MonConfigFails \/ MonExit \/ Kill
    BY <2>4 DEF MonConfigFails, MonExit, Kill, MonGone, monOnly
  <2>5. CASE MonConfig
    BY <2>0, <2>5 DEF MonConfig, monOnly
  <2>6. CASE MonUnlink \/ MonCreate \/ MonSize \/ MonSetup \/ MonStop
    BY <2>6 DEF MonUnlink, MonCreate, MonSize, MonSetup, MonStop, monOnly
  <2>7. CASE AskStop
    BY <2>7 DEF AskStop, MonGone, monOnly
  <2>8. CASE StartWeb \/ WebReady \/ WebRetry \/ WebOpen \/ WebListen \/ WebFault \/ StopWeb
    BY <2>8 DEF StartWeb, WebReady, WebRetry, WebOpen, WebListen, WebFault, StopWeb, WebGone, webOnly
  <2>9. CASE WebConfig
    BY <2>0, <2>9 DEF WebConfig, WebGone, webOnly
  <2>10. CASE UNCHANGED vars
    BY <2>10 DEF vars
  <2> QED
    BY <2>1, <2>2, <2>3, <2>4, <2>5, <2>6, <2>7, <2>8, <2>9, <2>10
       DEF Next, Monitor, Web
<1> QED
  BY <1>1, <1>2, PTL DEF FairSpec
================================================================================
