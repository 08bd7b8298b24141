---------------------------- MODULE MCPlatformUpdate ----------------------------
EXTENDS PlatformUpdate

MCOps == 1..2

MCVersions == 1..3

MCFirstReleases == {1, 2}
================================================================================
