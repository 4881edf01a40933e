------------------------------ MODULE MCFiles ------------------------------
(* A device with every function, one without any but write, a file system  *)
(* and one name nobody answers for.                                        *)
EXTENDS Files

MCJtag  == <<"dev", "jtag_uart">>
MCRom   == <<"mnt", "rozipfs">>
MCNames == {MCJtag, Null, <<"mnt", "rozipfs", "f">>, <<"mnt", "other">>}
MCDevNames == {MCJtag, Null}
MCFsNames  == {MCRom}
MCFunctions == [d \in MCDevNames \union MCFsNames |->
  CASE d = MCJtag -> {"open", "close", "read", "write", "ioctl"}
    [] d = Null   -> {"write"}
    [] d = MCRom  -> {"open", "close", "read", "lseek", "fstat"}]
MCModes == Modes
MCFlags == {{}, {"NONBLOCK", "EXCL"}}
MCStd == [f \in {0, 1, 2} |-> MCJtag]
=============================================================================
