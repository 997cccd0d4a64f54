------------------------- MODULE MCAnalysisRequest -------------------------
EXTENDS AnalysisRequest
=============================================================================
