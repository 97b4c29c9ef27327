------------------------------ MODULE MCSession ------------------------------
EXTENDS Session
MCUsers == {"u", "w"}
MCTabs == {"left", "right"}
MCRequests == {1, 2}
AllLeft == [r \in MCRequests |-> "left"]
=============================================================================
