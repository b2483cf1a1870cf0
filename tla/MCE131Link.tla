----------------------------- MODULE MCE131Link -----------------------------
(* TLC instance of E131Link; the cfg file gives the sizes.  The command     *)
(* lines: the three sync modes with the options of the board; then a lower   *)
(* first universe and more pixels, previews, and a terminated stream.       *)
EXTENDS E131Link

Line(address, send, first, pixels, flags) ==
    [sync_address |-> address, send_sync |-> send, first_universe |-> first,
     total_pixels |-> pixels, data_options |-> flags]

MCCommandLines ==
    {Line(0, FALSE, 1, 3, {}), Line(1, FALSE, 1, 3, {}), Line(0, TRUE, 1, 3, {}),
     Line(0, TRUE, 0, 6, {}), Line(0, TRUE, 1, 3, {"preview"}),
     Line(0, FALSE, 1, 3, {"stream_terminated"})}
=============================================================================
