-------------------------- MODULE MCSettingsDialog --------------------------
(* Settings the user enters in the runs of SettingsDialog: every docking mode, *)
(* one entry that has to be normalized, two opacities; and, for the interval,  *)
(* an entry beside the defaults.                                               *)
EXTENDS SettingsDialog

Entry(mode, auto, opacity) ==
    [Defaults EXCEPT !.mode = mode, !.auto = auto, !.opacity = opacity]

MCChoices ==
    {Entry("overlay", FALSE, 100), Entry("overlay", TRUE, 50), Entry("reserved", TRUE, 120)}
MCIntervals ==
    {Defaults, [Defaults EXCEPT !.every = 60]}
=============================================================================
