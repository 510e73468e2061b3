--------------------------- MODULE MCWorkflowEngine ---------------------------
\* Small instances of WorkflowEngine: one or two executions of one tenant.
EXTENDS WorkflowEngine

CONSTANTS p1, p2, w1, t1, i1

OneTenant == [w \in Workflows |-> t1]
NoInline == <<>>
InlineOnP1 == [s \in InlineSlots |-> p1]
===============================================================================
