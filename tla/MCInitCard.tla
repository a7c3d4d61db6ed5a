----------------------------- MODULE MCInitCard -----------------------------
(* Instances of InitCard for TLC: BAR layouts of a virtio-gpu-pci, as QEMU  *)
(* on the Pegasos2 and as the firmware of the AmigaOne leave them.          *)
EXTENDS InitCard

Layout(s) == [b \in Slots |-> s[b + 1]]

MCLayouts ==
    {Layout(<<"zero", "mem32", "zero", "zero", "mem64", "zero">>),
     Layout(<<"zero", "mem32", "zero", "zero", "mem64", "ones">>),
     Layout(<<"mem64", "ones", "mem64", "address", "mem64", "ones">>),
     Layout(<<"io", "mem64", "ones", "mem32", "zero", "mem64">>)}
=============================================================================
