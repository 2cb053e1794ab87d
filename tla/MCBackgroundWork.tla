-------------------------- MODULE MCBackgroundWork --------------------------
(***************************************************************************)
(* What API processes do in the background, and the heartbeats of MCP      *)
(* calls.  These components share no state, so one run checks all of them: *)
(* in a behaviour one of them runs, which is chosen at the beginning.      *)
(***************************************************************************)
EXTENDS PostVisibility, ReplyThread, HotIndex, ProposalDeadline, McpAdmission

VARIABLE part
vars == <<part, visibilityVars, threadVars, indexVars, proposalVars, mcpVars>>

Init ==
  /\ part \in {"visibility", "thread", "index", "proposal", "mcp"}
  /\ VisibilityInit /\ ThreadInit /\ IndexInit /\ ProposalInit /\ McpInit

(* A step of the component that runs.                                      *)
Vis(A) == /\ part = "visibility" /\ A
          /\ UNCHANGED <<part, threadVars, indexVars, proposalVars, mcpVars>>
Thr(A) == /\ part = "thread" /\ A
          /\ UNCHANGED <<part, visibilityVars, indexVars, proposalVars, mcpVars>>
Ind(A) == /\ part = "index" /\ A
          /\ UNCHANGED <<part, visibilityVars, threadVars, proposalVars, mcpVars>>
Pro(A) == /\ part = "proposal" /\ A
          /\ UNCHANGED <<part, visibilityVars, threadVars, indexVars, mcpVars>>
Mcp(A) == /\ part = "mcp" /\ A
          /\ UNCHANGED <<part, visibilityVars, threadVars, indexVars, proposalVars>>

Next ==
  \/ Vis(VisibilityNext) \/ Thr(ThreadNext) \/ Ind(IndexNext) \/ Pro(ProposalNext)
  \/ Mcp(McpNext)

(* The fairness of the component that runs, as its module states it: each  *)
(* formula stands for one of every component, since TLC's work grows with  *)
(* their number, and all states of a behaviour belong to one component.    *)
Fairness ==
  /\ WF_vars(\/ Vis(VisibilityJobStep) \/ Thr(ProjectorStep) \/ Ind(SyncStep)
             \/ Pro(ReleaseGovernanceHold) \/ Mcp(AnswerRequest))
  /\ WF_vars(\/ Vis(ClaimExpires) \/ Thr(DispatchStep) \/ Ind(EnsureStep)
             \/ Pro(ProposalComesDue) \/ Mcp(RedisComesBack))
  /\ WF_vars(Vis(RetryTimeComes) \/ Pro(ScheduleClaimRunsOut))
  /\ WF_vars(Pro(LeaseRunsOut)) /\ WF_vars(Pro(CompensationComesDue))
  /\ WF_vars(Pro(CompensationClaimRunsOut))
  /\ \A w \in Sweepers \cup DeadlineWorkers \cup Users :
       /\ WF_vars(\/ w \in Sweepers /\ Vis(VisibilitySweepStep(w))
                  \/ w \in DeadlineWorkers /\ Pro(DeadlineSweepStep(w))
                  \/ w \in Users /\ Thr(CommitAct(w)))
       /\ WF_vars(w \in DeadlineWorkers /\ Pro(DeadlineJobStep(w)))
  /\ \A x \in HotPosts \cup LeaseIds :
       /\ WF_vars(\/ x \in HotPosts /\ Ind(Refresh(x))
                  \/ x \in LeaseIds /\ Mcp(AnswerLease(x)))
       /\ WF_vars(\/ x \in HotPosts /\ Ind(CandidateClaimExpires(x))
                  \/ x \in LeaseIds /\ Mcp(x \in DOMAIN permits /\ Finish(x)))
  /\ SF_vars(\/ Ind(RebuildStep) \/ Mcp(Tick)
             \/ Pro(\E w \in DeadlineWorkers : TakeDelivery(w)))
  /\ SF_vars(Ind(Cleanup)) /\ SF_vars(Ind(GenerationClaimExpires))

Spec == Init /\ [][Next]_vars /\ Fairness

(* The types of all components.                                            *)
BackgroundTypeOK ==
  VisibilityTypeOK /\ ThreadTypeOK /\ IndexTypeOK /\ ProposalTypeOK /\ McpTypeOK

(* Every component gets its work done over and over, however often it is   *)
(* disturbed in between.                                                   *)
WorkIsDone ==
  []<>(\/ part = "visibility" /\ ~state.dirty
       \/ part = "thread" /\ ~db[HotState].dirty
       \/ part = "index" /\ IndexIsThere
       \/ part = "proposal" /\ ~Open
       \/ part = "mcp" /\ HasSlot /\ (circuitOpen => DOMAIN permits = {}))

=============================================================================
