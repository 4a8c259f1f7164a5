-------------------------- MODULE MCChromeExtension --------------------------
(* TLC instance of ChromeExtension: two requests, for one host or two, and  *)
(* two tabs, either of which may be open at the start.                      *)
EXTENDS ChromeExtension
=============================================================================
