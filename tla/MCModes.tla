------------------------------ MODULE MCModes ------------------------------
(* Instances of Modes for TLC.  The monitors have a timing the table has    *)
(* too, one in a block that is cut off, one twice, and more than fit.       *)
EXTENDS Modes

MCTable == <<<<0, 0>>, <<1, 1>>, <<2, 1>>, <<2, 2>>>>

Monitor(size, base, ext) ==
    [size |-> size, base |-> base, ext_count |-> Len(ext), ext |-> ext]

CEA(off, dtds) == [tag |-> 2, dtd_off |-> off, dtds |-> dtds]

MCEdids ==
    {Monitor(0, <<Text, Text, Text, Text>>, <<>>),
     Monitor(60, <<<<3, 2>>, Text, Text, Text>>, <<>>),
     Monitor(128, <<<<3, 2>>, Text, <<2, 2>>, <<0, 1>>>>, <<CEA(4, <<<<4, 3>>>>)>>),
     Monitor(256, <<<<3, 2>>, <<2, 1>>, Text, <<3, 2>>>>,
             <<CEA(90, <<<<4, 3>>, <<3, 2>>, <<5, 3>>>>)>>),
     Monitor(384, <<Text, <<2, 1>>, Text, Text>>,
             <<[tag |-> 16, dtd_off |-> 4, dtds |-> <<<<1, 2>>>>],
               CEA(70, <<<<4, 3>>, Text, <<5, 3>>>>)>>)}

MCHostSizes == {<<2, 2>>, <<3, 1>>, <<3, 3>>}
=============================================================================
