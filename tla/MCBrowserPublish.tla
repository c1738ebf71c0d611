-------------------------- MODULE MCBrowserPublish --------------------------
\* The platforms with the longest plan, with a wait for the upload, with and
\* without scheduling, and a dry run.
EXTENDS BrowserPublish

MCRequests ==
  {[platform |-> "youtube",   scheduled |-> TRUE,  dry_run |-> FALSE],
   [platform |-> "facebook",  scheduled |-> FALSE, dry_run |-> FALSE],
   [platform |-> "instagram", scheduled |-> FALSE, dry_run |-> FALSE],
   [platform |-> "x",         scheduled |-> TRUE,  dry_run |-> FALSE],
   [platform |-> "x",         scheduled |-> FALSE, dry_run |-> TRUE]}
=============================================================================
