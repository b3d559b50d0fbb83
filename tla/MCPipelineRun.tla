---------------------------- MODULE MCPipelineRun ----------------------------
(* Pipelines in the documented order, out of order, with an action that is *)
(* not registered and with an extension's own action.                      *)
EXTENDS PipelineRun

MCPipelines ==
    {<<"bronze.ingest", "documentation.bind", "silver.process">>,
     <<"documentation.bind", "bronze.ingest">>,
     <<"silver.process", "custom">>,
     <<"bronze.ingest", "missing">>, <<>>}

MCActions == {"bronze.ingest", "documentation.bind", "silver.process", "custom"}
=============================================================================
