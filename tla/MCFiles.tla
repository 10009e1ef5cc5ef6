------------------------------ MODULE MCFiles ------------------------------
(* A floppy with a shell, a program that returns and an empty file,          *)
(* and a partition without the shell; three handles besides the streams.     *)
EXTENDS Files

MCContents == [fd0 |-> {"shell.exe", "sayhi.exe", "empty"},
               hd1 |-> {"sayhi.exe", "notes"}]

MCDamaged == {<<"fd0", "empty">>}

MCWords == {Slash, Dev, "fd0", "hd1", "usb0", "shell.exe", "sayhi.exe", "empty", "notes"}

MCPaths == {<<>>, <<Slash>>, <<Slash, Dev>>, <<Slash, "fd0">>, <<Slash, "hd1">>,
            <<Slash, "fd0", Slash>>, <<"hd1">>,
            <<"shell.exe">>, <<"sayhi.exe">>, <<"empty">>, <<"notes">>, <<"usb0">>,
            <<Slash, "fd0", Slash, "sayhi.exe">>, <<Slash, Dev, Slash, "usb0">>}
=============================================================================
