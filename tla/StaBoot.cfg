SPECIFICATION FairSpec
CONSTANT EXAMPLE_ESP_MAXIMUM_RETRY = 5
INVARIANTS TypeOK OneChain NoSilentIdle GivenUpStaysOffline PortalOnlyAfterFailure
PROPERTIES ImplementsPromise BootSettles
