------------------------------ MODULE MCAiLoop -------------------------------
EXTENDS AiLoop

mcContacts == {"ann"}
mcMessages == {"m1", "m2"}
mcContactOf == [m \in mcMessages |-> "ann"]
mcThreadOf == [m \in mcMessages |-> IF m = "m1" THEN "t" ELSE NoThread]
=============================================================================
