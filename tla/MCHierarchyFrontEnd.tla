------------------------ MODULE MCHierarchyFrontEnd ------------------------
(* The transactions that the runs of HierarchyFrontEnd submit.              *)
EXTENDS HierarchyFrontEnd

(* "reg" is a PIM register (row bit 13), "a" and "b" are cells of a bank.   *)
MCAddresses == {"reg", "a", "b"}
MCControlAddresses == {"reg"}

Txn(dom, op, bulk, addr) == [dom |-> dom, op |-> op, bulk |-> bulk, addr |-> addr]

Mixed ==
    {Txn("LOGIC", "READ", FALSE, "a"), Txn("LOGIC", "WRITE", TRUE, "b"),
     Txn("LOGIC", "WRITE", FALSE, "reg"),
     Txn("BANK", "READ", FALSE, "a"), Txn("BANK", "READ", FALSE, "b"),
     Txn("BANK", "DIRECT", FALSE, "b")}

(* The two sources read different cells; one of each kind of completion.    *)
Batch ==
    {Txn("LOGIC", "READ", FALSE, "a"), Txn("LOGIC", "WRITE", FALSE, "reg"),
     Txn("BANK", "READ", FALSE, "b"), Txn("BANK", "DIRECT", FALSE, "b")}

(* Both sources read the same parking row.                                  *)
Park ==
    {Txn("LOGIC", "READ", FALSE, "reg"), Txn("BANK", "READ", FALSE, "reg"),
     Txn("LOGIC", "WRITE", FALSE, "a")}

MixedWorkloads == [Ids -> Mixed]
BatchWorkloads == [Ids -> Batch]
ParkWorkloads == [Ids -> Park]

(* Each source writes registers and a cell, so that the commands of one      *)
(* epoch spread over both command queues.                                   *)
SpreadWorkloads ==
    {<<Txn("LOGIC", "WRITE", FALSE, "reg"), Txn("LOGIC", "WRITE", FALSE, "a"),
       Txn("LOGIC", "WRITE", FALSE, "reg"),
       Txn("BANK", "WRITE", FALSE, "reg"), Txn("BANK", "WRITE", FALSE, "b")>>}
=============================================================================
