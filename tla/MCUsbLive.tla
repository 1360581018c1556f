----------------------------- MODULE MCUsbLive -----------------------------
(***************************************************************************)
(* The polling of the USB keyboard under fairness.  Either it is never     *)
(* pulled out, or it is pulled out and put back without end.               *)
(***************************************************************************)
EXTENDS UsbHost

NoneDown == <<0, 0>>
NoneOrBoth == {NoneDown, <<1, 1>>}
NoErrors == {}
Errors == {0, 2}

VARIABLE stays

LiveInit == Init /\ stays \in BOOLEAN /\ (stays => kb.here)
LiveNext == Next /\ UNCHANGED stays /\ (stays => kb'.here)
LiveSafe == LiveInit /\ [][LiveNext]_<<vars, stays>>
LiveSpec == /\ LiveSafe
            /\ WF_vars(Main) /\ WF_vars(ChipAnswer)
            /\ SF_vars(ChipFirst) /\ SF_vars(ChipRest)
            /\ SF_vars(ChipNoAnswer) /\ SF_vars(ChipReport)
-----------------------------------------------------------------------------
\* A keyboard that is polled has been set up, and one that has stayed in since
\* it was agrees with the program on the data bit of every report.
PolledInStep == PollsConfigured /\ (stays => TogglesAgree)

\* Every change of the keys of a keyboard that stays in reaches the game unless
\* another overtakes it, and so it is again, after a report at most, with one
\* that has been pulled out and put back.
EveryKeyArrives == (stays => KeyArrives) /\ (~ stays => BackInStep)
=============================================================================
