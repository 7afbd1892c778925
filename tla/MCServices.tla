------------------------------ MODULE MCServices ------------------------------
(***************************************************************************)
(* AgentService, and the inboxes in front of it.  What the dispatcher sees *)
(* of the service is the active root of a session and whether a run is     *)
(* admitted, which SessionInbox has of its own; so a behaviour runs one of *)
(* the two modules, and the other has ended.                               *)
(***************************************************************************)
EXTENDS MCAgentService, MCSessionInbox

ServiceIsOver ==
    /\ run = [r \in Runs |-> "cancelled"] /\ asking = {} /\ runnable = {}
    /\ phase = [r \in Runs |-> "none"] /\ task = [r \in Runs |-> "none"] /\ pending = {}
    /\ runner = [r \in Runs |-> "none"] /\ cancelling = {} /\ asked = {}
    /\ stop = {} /\ stopDue = {} /\ sweep = {} /\ stopping = {}
    /\ caller = [c \in Callers |-> "idle"] /\ accepting = FALSE /\ faulted = FALSE
    /\ closer = "closed" /\ restarts = MaxRestarts

InboxIsOver ==
    /\ item = [i \in Inputs |-> "none"] /\ rank = [i \in Inputs |-> 0]
    /\ started = [i \in Inputs |-> 0] /\ rooted = {} /\ stale = {}
    /\ process = InboxLives
    /\ entry = [s \in Inboxes |-> "none"] /\ bumped = {}
    /\ dispatcher = "gone" /\ due = {} /\ serving = Nothing /\ picked = Nothing
    /\ sender = [c \in Clients |-> Nothing] /\ retiring = "stopped" /\ missed = FALSE

ServicesInit == (Init /\ InboxIsOver) \/ (ServiceIsOver /\ InboxInit)

ServicesNext ==
    \/ Next /\ UNCHANGED inboxVars
    \/ ServiceIsOver /\ InboxNext /\ UNCHANGED vars

ServicesSpec ==
    ServicesInit /\ [][ServicesNext]_<<vars, inboxVars>> /\ Fairness /\ InboxFairness

\* Both states are well typed, and the service's queue keeps its limit.
ServicesTypeOK == TypeOK /\ InboxTypeOK

================================================================================
