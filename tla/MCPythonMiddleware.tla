------------------------- MODULE MCPythonMiddleware -------------------------
(***************************************************************************)
(* PythonMiddleware for TLC: the GUI, a robot or joint state publisher and *)
(* a random setpoint publisher, of which only the registration is watched. *)
(***************************************************************************)
EXTENDS PythonMiddleware

CONSTANTS gui, p1, p2

MCLanguage == [n \in Nodes |-> IF n = gui THEN "python" ELSE "cpp"]

MCPlans ==
    [n \in Nodes |->
       IF n = gui THEN {GuiPlan}
       ELSE IF n = p1 THEN {RobotStatePublisherPlan, JointStatePublisherPlan}
       ELSE {RandomSetpointPublisherPlan}]

MCMaxMessages == [p \in Publishers |-> IF p = p1 THEN 2 ELSE 0]
=============================================================================
