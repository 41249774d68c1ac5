---------------------------- MODULE MCDiscoveryRun ----------------------------
EXTENDS DiscoveryRun
CONSTANTS reddit, hackernews, billing, hiring, quoting, payroll
=============================================================================
