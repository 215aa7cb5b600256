---------------------------- MODULE MCDeviceList ----------------------------
(* Instance of DeviceList for TLC: the replies of the backend are lists of *)
(* at most two sensors, of which one may not be configured (ID 0).         *)
EXTENDS DeviceList

One(id, people) == [id |-> id, people |-> people]

(* None, two in either order, of which one has another number, and two of  *)
(* which one is not configured.                                            *)
ChangingReplies ==
  {<< >>, <<One(1, 0), One(2, 0)>>, <<One(2, 0), One(1, 1)>>,
   <<One(0, 0), One(1, 0)>>}
=============================================================================
