------------------------------ MODULE MCMachines ------------------------------
EXTENDS MachineBooting, TLC
CONSTANTS linux, windows, linuxvm, t1, t2, t3, d1
MCCores == [c \in Categories |-> IF c = windows THEN 2 ELSE 1]
MCCategoryOf == [x \in Tests \cup Deploys |->
    CASE x = t2 -> windows [] x = t3 -> linuxvm [] OTHER -> linux]
=============================================================================
