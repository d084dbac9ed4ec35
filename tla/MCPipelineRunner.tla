-------------------------- MODULE MCPipelineRunner --------------------------
\* PipelineRunner on small instances; the .cfg files give the constants.
EXTENDS PipelineRunner
=============================================================================
