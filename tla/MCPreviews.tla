----------------------------- MODULE MCPreviews -----------------------------
(* One submission of the form, among others that only share the spinner.     *)
EXTENDS Previews

CONSTANTS f1
=============================================================================
