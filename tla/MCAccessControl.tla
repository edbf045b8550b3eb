--------------------------- MODULE MCAccessControl ---------------------------
(* AccessControl with one request that takes every route, and a login       *)
(* beside it.                                                               *)
EXTENDS AccessControl, TLC

Plain(routes) == {f \in Forms : f.route \in routes /\ f.bearer = None /\ f.exact}

\* A query string after a login, a header beside or instead of the cookie.
Odd == {[route |-> "login", bearer |-> None, exact |-> FALSE],
        [route |-> "whatsappLogin", bearer |-> 1, exact |-> TRUE],
        [route |-> "auditTrail", bearer |-> 1, exact |-> TRUE]}

AnyRoute == CHOOSE q \in Requests : TRUE
MCCalled == [q \in Requests |->
  IF q = AnyRoute THEN Plain(Routes) \cup Odd ELSE Plain({"login"})]
=============================================================================
