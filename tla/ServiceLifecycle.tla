---------------------------- MODULE ServiceLifecycle ---------------------------
(***************************************************************************)
(* The two services over starts, stops and crashes: edge_ai_pipeline       *)
(* creates the segment /edge_ai_frame anew in every life, and web_viewer,  *)
(* started by scripts/run_web.sh once the name exists, maps whatever       *)
(* segment the name stands for then.  Both read the same configuration     *)
(* file, which may be edited meanwhile.  Segments are numbered in the      *)
(* order they are created; 0 is none.                                      *)
(***************************************************************************)
EXTENDS Configuration, FiniteSets

CONSTANTS MaxLives,    \* bound: the segments created
          MaxSaves,    \* bound: the times the file is saved
          MaxTries     \* the rounds of the loop in run_web.sh, 30

ASSUME LifecycleAssumption ==
  MaxLives \in Nat /\ MaxSaves \in Nat /\ MaxTries \in Nat \ {0}

VARIABLES file, saves,       \* config.json
          shm_name,          \* the segment the name stands for
          lives,             \* the segments created so far
          sized,             \* segments that have been given their size
          orphans,           \* history: segments whose pipeline was killed
          mon_pc, mon_rule, mon_seg, stop_asked,   \* the pipeline
          web_pc, web_roi, web_seg, tries          \* run_web.sh and the viewer

fileVars == <<file, saves>>
shmVars == <<shm_name, lives, sized, orphans>>
monVars == <<mon_pc, mon_rule, mon_seg, stop_asked>>
webVars == <<web_pc, web_roi, web_seg, tries>>
vars == <<fileVars, shmVars, monVars, webVars>>

NoRule == [roi |-> <<>>, dwell_time_ms |-> 0, cooldown_ms |-> 0]

Init ==
  /\ file \in {f \in File : f.written \in {-1, Closed}} /\ saves = 0
  /\ shm_name = 0 /\ lives = 0 /\ sized = {} /\ orphans = {}
  /\ mon_pc = "off" /\ mon_rule = NoRule /\ mon_seg = 0 /\ stop_asked = FALSE
  /\ web_pc = "off" /\ web_roi = <<>> /\ web_seg = 0 /\ tries = 0
--------------------------------------------------------------------------------
(* An operator saves the configuration; a process may read it half-way. *)

SaveBegins ==
  /\ saves < MaxSaves
  /\ saves' = saves + 1
  /\ file' \in {f \in File : f.written \in 0 .. Len(Keys)}
  /\ UNCHANGED <<shmVars, monVars, webVars>>

SaveEnds ==
  /\ Exists(file) /\ file.written # Closed
  /\ file' = [file EXCEPT !.written = Closed]
  /\ UNCHANGED <<saves, shmVars, monVars, webVars>>
--------------------------------------------------------------------------------
(* edge_ai_pipeline *)

monOnly == <<fileVars, webVars>>

\* The process is gone; systemd or an operator may start it again.
MonGone == mon_pc' = "off" /\ mon_rule' = NoRule /\ mon_seg' = 0 /\ stop_asked' = FALSE

StartMonitor ==
  /\ mon_pc = "off" /\ mon_pc' = "config"
  /\ UNCHANGED <<mon_rule, mon_seg, stop_asked, shmVars, monOnly>>

\* main: without a file it returns, on a number out of range it aborts.
MonConfigFails ==
  /\ mon_pc = "config"
  /\ ~Exists(file) \/ Throws(file)
  /\ MonGone /\ UNCHANGED <<shmVars, monOnly>>

MonConfig ==
  /\ mon_pc = "config"
  /\ Exists(file) /\ ~Throws(file)
  /\ mon_rule' = LoadedRule(file)
  /\ mon_pc' = "unlink"
  /\ UNCHANGED <<mon_seg, stop_asked, shmVars, monOnly>>

\* inference_thread begins by removing what an earlier life has left.
MonUnlink ==
  /\ mon_pc = "unlink"
  /\ shm_name' = 0 /\ mon_pc' = "create"
  /\ UNCHANGED <<mon_rule, mon_seg, stop_asked, lives, sized, orphans, monOnly>>

MonCreate ==
  /\ mon_pc = "create"
  /\ \/ /\ lives < MaxLives
        /\ lives' = lives + 1 /\ shm_name' = lives' /\ mon_seg' = lives'
        /\ mon_pc' = "size"
     \/ mon_pc' = "zombie" /\ UNCHANGED <<shm_name, lives, mon_seg>>
  /\ UNCHANGED <<mon_rule, stop_asked, sized, orphans, monOnly>>

MonSize ==
  /\ mon_pc = "size"
  /\ \/ sized' = sized \cup {mon_seg} /\ mon_pc' = "setup" /\ UNCHANGED shm_name
     \/ shm_name' = 0 /\ mon_pc' = "zombie" /\ UNCHANGED sized
  /\ UNCHANGED <<mon_rule, mon_seg, stop_asked, lives, orphans, monOnly>>

\* Mutations: the name goes once the segment is mapped; it stays when the model
\* cannot be loaded.
MonSetupUnlinking ==
  /\ mon_pc = "setup"
  /\ shm_name' = 0 /\ mon_pc' \in {"running", "zombie"}
  /\ UNCHANGED <<mon_rule, mon_seg, stop_asked, sized, lives, orphans, monOnly>>

MonSetupKeeping ==
  /\ mon_pc = "setup"
  /\ mon_pc' \in {"running", "zombie"}
  /\ UNCHANGED <<mon_rule, mon_seg, stop_asked, shmVars, monOnly>>

\* mmap, the post-processing and the model.  After a failure only the thread
\* ends: the process lives on without it.
MonSetup ==
  /\ mon_pc = "setup"
  /\ \/ mon_pc' = "running" /\ UNCHANGED shm_name
     \/ mon_pc' = "zombie" /\ shm_name' = 0
  /\ UNCHANGED <<mon_rule, mon_seg, stop_asked, sized, lives, orphans, monOnly>>

\* The end of inference_thread, then of main.
MonStop ==
  /\ mon_pc = "running" /\ stop_asked
  /\ shm_name' = 0 /\ mon_pc' = "ending"
  /\ UNCHANGED <<mon_rule, mon_seg, stop_asked, sized, lives, orphans, monOnly>>

MonExit ==
  /\ mon_pc = "ending" \/ (mon_pc = "zombie" /\ stop_asked)
  /\ MonGone /\ UNCHANGED <<shmVars, monOnly>>

\* SIGTERM: signal_handler is installed when the configuration has been read.
AskStop ==
  /\ mon_pc # "off" /\ ~stop_asked
  /\ IF mon_pc = "config" THEN MonGone
     ELSE stop_asked' = TRUE /\ UNCHANGED <<mon_pc, mon_rule, mon_seg>>
  /\ UNCHANGED <<shmVars, monOnly>>

\* SIGKILL, a crash, or no memory left.
Kill ==
  /\ mon_pc # "off"
  /\ orphans' = IF shm_name = mon_seg /\ mon_seg # 0 THEN orphans \cup {mon_seg} ELSE orphans
  /\ MonGone /\ UNCHANGED <<shm_name, sized, lives, monOnly>>

Monitor == \/ StartMonitor \/ MonConfigFails \/ MonConfig \/ MonUnlink \/ MonCreate
           \/ MonSize \/ MonSetup \/ MonStop \/ MonExit
--------------------------------------------------------------------------------
(* run_web.sh, then web_viewer *)

webOnly == <<fileVars, shmVars, monVars>>

\* Not started or given up; ended by a system call that failed; stopped.
WebIsGone == {"off", "failed", "stopped"}

WebGone(pc) == web_pc' = pc /\ web_roi' = <<>> /\ web_seg' = 0 /\ tries' = 0

\* The unit Requires= the pipeline's and is ordered After= it.
StartWeb ==
  /\ web_pc \in WebIsGone /\ mon_pc # "off"
  /\ web_pc' = "wait"
  /\ UNCHANGED <<web_roi, web_seg, tries, webOnly>>

WebReady ==
  /\ web_pc = "wait" /\ shm_name # 0
  /\ web_pc' = "config"
  /\ UNCHANGED <<web_roi, web_seg, tries, webOnly>>

\* Mutation: one round too many.
WebRetryOnceMore ==
  /\ web_pc = "wait" /\ shm_name = 0
  /\ IF tries < MaxTries THEN tries' = tries + 1 /\ UNCHANGED <<web_pc, web_roi, web_seg>>
                         ELSE WebGone("off")
  /\ UNCHANGED webOnly

WebRetry ==
  /\ web_pc = "wait" /\ shm_name = 0
  /\ IF tries + 1 < MaxTries THEN tries' = tries + 1 /\ UNCHANGED <<web_pc, web_roi, web_seg>>
                             ELSE WebGone("off")
  /\ UNCHANGED webOnly

\* Without a file the viewer goes on without an outline.
WebConfig ==
  /\ web_pc = "config"
  /\ \/ Exists(file) /\ Throws(file) /\ WebGone("off")
     \/ /\ ~(Exists(file) /\ Throws(file))
        /\ web_roi' = IF Exists(file) THEN LoadedRule(file).roi ELSE <<>>
        /\ web_pc' = "open"
        /\ UNCHANGED <<web_seg, tries>>
  /\ UNCHANGED webOnly

\* shm_open finds no name, or it or mmap fails.
WebOpen ==
  /\ web_pc = "open"
  /\ \/ shm_name = 0 /\ WebGone("off")
     \/ /\ shm_name # 0
        /\ \/ WebGone("failed")
           \/ web_seg' = shm_name /\ web_pc' = "listen" /\ UNCHANGED <<web_roi, tries>>
  /\ UNCHANGED webOnly

\* socket, bind and listen.
WebListen ==
  /\ web_pc = "listen"
  /\ \/ WebGone("failed")
     \/ web_pc' = "serve" /\ UNCHANGED <<web_roi, web_seg, tries>>
  /\ UNCHANGED webOnly

Web == WebReady \/ WebRetry \/ WebConfig \/ WebOpen \/ WebListen

\* The first picture read from a segment without a size raises SIGBUS.
WebFault ==
  /\ web_pc = "serve" /\ web_seg \notin sized
  /\ WebGone("off") /\ UNCHANGED webOnly

\* An operator, or systemd when it stops the pipeline.
StopWeb ==
  /\ web_pc \notin WebIsGone
  /\ WebGone("stopped") /\ UNCHANGED webOnly

Next == \/ SaveBegins \/ SaveEnds \/ Monitor \/ AskStop \/ Kill
        \/ StartWeb \/ Web \/ WebFault \/ StopWeb

\* A process that has been started is run.
FairSpec == Init /\ [][Next]_vars /\ WF_vars(Web)
--------------------------------------------------------------------------------
(* Type invariant. *)
TypeOK ==
  /\ file \in File /\ saves \in 0 .. MaxSaves
  /\ lives \in 0 .. MaxLives
  /\ shm_name \in 0 .. lives /\ sized \subseteq 1 .. lives /\ orphans \subseteq 1 .. lives
  /\ mon_pc \in {"off", "config", "unlink", "create", "size", "setup", "running",
                 "ending", "zombie"}
  /\ mon_seg \in 0 .. lives /\ stop_asked \in BOOLEAN
  /\ DOMAIN mon_rule = ToSet(Keys)
  /\ web_pc \in WebIsGone \cup {"wait", "config", "open", "listen", "serve"}
  /\ web_seg \in 0 .. lives /\ tries \in 0 .. MaxTries - 1

(* run_web.sh takes the name for a running pipeline.  It is wrong only about
   the segment of a pipeline that was killed and not started again: neither a
   failed setup nor a stop leaves the name behind. *)
NameMeansPipeline ==
  shm_name # 0 => \/ mon_seg = shm_name /\ mon_pc \in {"size", "setup", "running"}
                  \/ shm_name \in orphans /\ mon_pc \in {"off", "config", "unlink"}

WholeRules == {LoadedRule(f) : f \in {f \in File : f.written \in {0, Closed}}}

(* A pipeline that reads the file while it is being saved runs with the rule
   section of one version as a whole or with the defaults as a whole, never
   with a part of one; so does the viewer's outline. *)
RuleOfOneVersion ==
  /\ mon_pc \notin {"off", "config"} => mon_rule \in WholeRules
  /\ web_roi # <<>> => \E rule \in WholeRules : web_roi = rule.roi

(* Restarting the viewer cures a frozen picture: started while the pipeline is
   running, it comes to read the segment that this pipeline writes, unless one
   of them is stopped first, the file holds a number that makes it abort, or a
   system call of its start fails (the mapping, or the socket, whose port may be
   taken).  Nothing else ends the start: neither a half-saved file, nor the end of
   run_web.sh's rounds, nor the segment of an earlier pipeline. *)
RestartHeals ==
  web_pc = "wait" /\ mon_pc = "running" ~>
    \/ web_pc = "serve" /\ web_seg = mon_seg
    \/ web_pc \in {"stopped", "failed"} \/ mon_pc # "running"
    \/ Throws(file)
================================================================================
