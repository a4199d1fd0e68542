--------------------------- MODULE MCApprovalBroker ---------------------------
EXTENDS ApprovalBroker, TLC

CONSTANTS t1

MCTurnOf == [r \in Request |-> t1]

\* The requests are alike but for their kind, and so are the browser sessions.
MCSymmetry == Permutations(Request \ FileRequest) \cup Permutations(Session)

\* All requests compete before a single session, which changes its context; or sessions
\* displace each other over a single request.  The others have had their time.
MCInit ==
    /\ hostState = "down" /\ generation = 0 /\ clientClosed = FALSE /\ open = {}
    /\ stage = [r \in Request |-> "none"] /\ lease = [r \in Request |-> "none"]
    /\ answer = [r \in Request |-> "none"] /\ waitsFor = [r \in Request |-> r]
    /\ \/ /\ pc = [r \in Request |-> "new"]
          /\ session \in {[s \in Session |-> IF s = o THEN "gone" ELSE "new"] : o \in Session}
       \/ /\ session = [s \in Session |-> "new"]
          /\ pc \in {[r \in Request |-> IF r = o THEN "new" ELSE "done"] : o \in Request}
    /\ genOf = [r \in Request |-> 0] /\ owner = [r \in Request |-> Nobody]
    /\ ownerRevision = [r \in Request |-> 0] /\ shown = [r \in Request |-> 0]
    /\ expired = {} /\ deciding = {}
    /\ context = [s \in Session |-> NoContext] /\ revision = [s \in Session |-> 0]
    /\ scope = [r \in Request |-> 0] /\ ended = {} /\ disposed = FALSE /\ disposePc = "none"

MCSpec == MCInit /\ [][Next]_vars
=============================================================================
