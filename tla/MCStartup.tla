----------------------------- MODULE MCStartup -----------------------------
(* Model checking of Startup on small instances. *)
EXTENDS Startup

\* Python starts XPCOM; only its threads are there before.
PythonHosts == [python : {TRUE}, xpcom : {FALSE}, warns : BOOLEAN,
                site : {"xpcom", None}]

\* XPCOM starts Python, and nothing imports _xpcom before its time.
XPCOMHosts == [python : {FALSE}, xpcom : {TRUE}, warns : {FALSE},
               site : {"xpcom", None}]

SoundHosts == PythonHosts \cup XPCOMHosts

\* Python has threads when XPCOM's module loader comes.
MixedHosts == [python : {TRUE}, xpcom : {TRUE}, warns : {FALSE},
               site : {None}]
=============================================================================
