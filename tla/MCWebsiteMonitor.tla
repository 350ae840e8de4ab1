-------------------------- MODULE MCWebsiteMonitor --------------------------
(* A small instance of WebsiteMonitor for TLC.                             *)
EXTENDS WebsiteMonitor
=============================================================================
