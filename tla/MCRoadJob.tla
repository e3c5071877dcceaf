------------------------------ MODULE MCRoadJob ------------------------------
EXTENDS RoadJob
=============================================================================
