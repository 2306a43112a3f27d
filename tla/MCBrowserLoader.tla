-------------------------- MODULE MCBrowserLoader --------------------------
(* Constants for the model checking of BrowserLoader. *)
EXTENDS BrowserLoader

============================================================================
